\* More connections than permits, three withdrawals.
SPECIFICATION LiveSpec
CONSTANTS
    Conns = {c1, c2}
    Sources = {"a", "b"}
    Views = {"home", "other"}
    on_link <- MCOnLink
    NoView = NoView
    MAX_CONNECTIONS = 1
    MAX_GENERATION = 3
INVARIANTS
    PermitsBalance
    ServedOnLink
    NothingSurvivesWithdrawal
PROPERTIES
    WithdrawnConnectionsEnd
