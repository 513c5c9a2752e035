CONSTANTS
    Checks = {q1}
    Egress = {en0, en1}
    MaxOps = 3
    MaxTimers = 2
    None = None
SPECIFICATION Spec
CHECK_DEADLOCK FALSE
INVARIANTS
    PinReleased
