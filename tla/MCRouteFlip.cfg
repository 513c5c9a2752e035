CONSTANTS
    Callers = {c1}
    Pollers = {p1}
    Probes = {q1}
    Groups = {g1}
    HealthGroups = {g1}
    Proxies = {a, b}
    EventCap = 1
    FlipBack = TRUE
    MaxSeq = 1
    MaxMoves = 3
    None = None
SPECIFICATION Spec
CHECK_DEADLOCK FALSE
INVARIANT AnswerDescribesRoute
