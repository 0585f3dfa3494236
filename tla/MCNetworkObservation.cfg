\* Two observations: one can end while the next is under way.
SPECIFICATION LiveSpec
CONSTANTS
    Callers = {c1, c2, c3}
    Flights = {f1, f2}
    NoFlight = NoFlight
    Connections = {wired, wifi}
    wired = wired
    wifi = wifi
    NoConnection = NoConnection
    Configs <- MCConfigs
    V4_WIDTH = 3
    MAX_ADDRESSES = 3
INVARIANTS
    NeverRefuseEachOther
    UrlIsServed
PROPERTY
    FlightsEnd
