\* Failures and crashes at every step, one actor at a time on the state directory.
SPECIFICATION Spec
CONSTANTS
    Generations = {g1, g2}
    NoGeneration = NoGeneration
    FSYNC = "may fail"
    OVERRUNS = 0
SYMMETRY Symmetry
INVARIANTS
    NoPartialIdentity
    RevokedNeverServed
    AnswerHolds
    RetryConverges
PROPERTY
    ReenrollRepairs
