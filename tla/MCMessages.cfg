CONSTANTS
    Senders = {s1, s2}
    QueueSize = 2
    BatchSize = 3
    PriorityBurst = 2
    EvictAttempts = 2
    MaxSent = 4
    Pumps = {p1, p2}
    BufferSize = 1
    None = None
SPECIFICATION FairSpec
CHECK_DEADLOCK FALSE
INVARIANTS
    EventsKeepOrder
    BulkHeldUpAtMostABurst
PROPERTIES
    StateArrives
    LoggingEnds
