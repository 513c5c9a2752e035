CONSTANTS
    Callers = {c1}
    Pollers = {p1}
    Probes = {}
    Groups = {g1}
    HealthGroups = {g1}
    Proxies = {a, b}
    EventCap = 1
    FlipBack = FALSE
    MaxSeq = 1
    MaxMoves = 3
    None = None
SPECIFICATION FairSpec
CHECK_DEADLOCK FALSE
PROPERTIES
    MovesAreNoticed
    CallsReturn
