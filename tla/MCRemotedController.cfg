\* Times in units of 10 s, RETRY rounded up.
SPECIFICATION LiveSpec
CONSTANTS
    Views = {"home", "other", "offline"}
    Addresses = {"a", "b"}
    listen <- MCListen
    NoView = NoView
    RECONCILE = 6
    RETRY = 1
    STALE_AFTER = 12
    SESSION_TIMEOUT = 2
    OBSERVATION = 3
INVARIANTS
    ExposureIsOne
    AskedAfterNotification
    BoundedStaleness
PROPERTIES
    OutdatedNotRenewed
    Converges
