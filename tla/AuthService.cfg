\* More requests than admissions; two enrollments one after the other.
SPECIFICATION LiveSpec
CONSTANTS
    Requests = {r1, r2, r3}
    MAX_ADMITTED = 2
    KEYS = 2
INVARIANTS
    AdmissionBalances
    EnrolledKeyWasTold
PROPERTY
    DrainsWhenQuiet
