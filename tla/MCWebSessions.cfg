\* Two requests at a time, more logins than the map holds.
SPECIFICATION Spec
CONSTANTS
    Tasks = {t1, t2}
    NoId = NoId
    IDLE_TIMEOUT = 2
    ABSOLUTE_TIMEOUT = 3
    MAX_SESSIONS = 2
    MAX_LOGINS = 3
    MAX_TIME = 3
SYMMETRY Symmetry
INVARIANTS
    LogoutIsFinal
PROPERTIES
    LimitsHold
    EvictsOldest
