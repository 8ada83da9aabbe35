SPECIFICATION Spec
CONSTANTS
    b1 = b1
    b2 = b2
    Bufs = {b1, b2}
    kCmdQueueSize = 2
    kIdModulus = 4
    Timeouts = {0, 1}
    ScheduleMayFail = TRUE
    kMaxInFlight = 2
INVARIANT
    AssertsHold
