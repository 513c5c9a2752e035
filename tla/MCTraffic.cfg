CONSTANTS
    Requests = {r1, r2}
    CloseRetries = 1
    MaxTotal = 2
    MaxReports = 2
    MaxSessions = 2
    None = None
SPECIFICATION Spec
CHECK_DEADLOCK FALSE
INVARIANTS
    OneLoopWhileRunning
    TotalsNotLost
