SPECIFICATION FairStartSpec
CONSTANTS
    a1 = a1
    t1 = t1
    low_power = low_power
    c1 = c1
    c2 = c2
    enter = enter
    reboot = reboot
    steering = steering
    leave = leave
    p1 = p1
    p2 = p2
    p3 = p3
    p4 = p4
    p5 = p5
    Alarms = {a1, t1, low_power}
    Timers = {t1}
    Cbs = {c1, c2, enter}
    kMaxSize = 2
    kLowOnHandlesThreshold = 1
    kCounterOfDeathValue = 2
    ScheduleMayFail = TRUE
    SignalIds = {reboot, steering, leave}
    Handlers <- Handler
    PollClusters = {p1, p2, p3, p4, p5}
    cfg <- Configs
    long_poll_interval <- Intervals
    g_EnterLowPowerLongPollMode = low_power
    EnterLowPower = enter
    kU32 = 8192
INVARIANTS
    TypeOK
    HandlesConserved
    PendingOwned
    LowOnHandlesExact
PROPERTIES
    Expires
    CountdownEnds
    PollSettles
    ImplementsService
