CONSTANTS
    Checks = {q1}
    Egress = {en0, None}
    MaxOps = 3
    MaxTimers = 2
    None = None
SPECIFICATION FairSpec
CHECK_DEADLOCK FALSE
INVARIANTS
    NoEarlyRelease
    NoAnswerOutlivesToggle
    PinReleased
    SkippedMeansBound
PROPERTY
    HeldChecksLeave
