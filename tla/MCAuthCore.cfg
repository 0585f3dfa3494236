\* One account, two generations of its secrets, failures of every kind.
SPECIFICATION Spec
CONSTANTS
    Uids = {web}
    Passwords = {strong, short}
    Weak = {short}
    Codes = {c1, c2}
    Keys = {k1, k2}
    Garbage = Garbage
    PAIRING_LIFETIME = 1
    CONFIRMATION_WINDOW = 1
    PAIRING_ATTEMPTS = 2
    BACKOFF_THRESHOLD = 1
    BACKOFF_CAP = 2
    U32_MAX = 2
    MaxBoot = 1
    MaxWall = 1
SYMMETRY Symmetry
INVARIANTS
    MemoryMatchesDisk
    PromiseKept
    OnlyConfirmedKeysEnroll
    GuessBudget
    FailuresCostTime
PROPERTY ForgivenOnlyByOwnSecret
PROPERTY ImplementsAccount
