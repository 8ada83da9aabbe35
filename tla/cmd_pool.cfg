SPECIFICATION FairSpec
CONSTANTS
    b1 = b1
    b2 = b2
    Bufs = {b1, b2}
    kCmdQueueSize = 2
    kIdModulus = 3
    Timeouts = {0, 1}
    ScheduleMayFail = TRUE
    kMaxInFlight = 2
INVARIANTS
    TypeOK
    AssertsHoldIfArmed
    BuffersConserved
    AlarmOfItsCommand
PROPERTIES
    ImplementsPromise
    EveryCommandReported
