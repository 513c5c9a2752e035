CONSTANTS
    Lookups = {l1, l2}
    UrlCounts = {0, 3}
    Concurrency = 2
    Slots = 1
    MaxEpoch = 1
    Sweeps = {w1, w2}
    Lists <- Asked
    CheckSlots = 1
    None = None
SPECIFICATION PSpec
VIEW View
SYMMETRY Symmetry
INVARIANTS
    FailedIsHonest
    OnlyStaleCancelled
    LosersCanLeave
    SlotsAccounted
    NewestHasService
    VerdictFromAnswer
CHECK_DEADLOCK FALSE
