CONSTANTS
    Callers = {c1, c2}
    Pollers = {p1, p2}
    Probes = {q1}
    Groups = {g1}
    HealthGroups = {g1}
    Proxies = {a, b}
    EventCap = 1
    FlipBack = FALSE
    MaxSeq = 3
    MaxMoves = 2
    None = None
SYMMETRY Symmetry
VIEW View
CONSTRAINT Bounded
SPECIFICATION Spec
CHECK_DEADLOCK FALSE
INVARIANTS
    NewestWatchWins
    PollerMatchesWatch
    WatcherInformed
    AnswerDescribesRoute
