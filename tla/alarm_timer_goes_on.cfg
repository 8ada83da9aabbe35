SPECIFICATION Spec
CONSTANTS
    a1 = a1
    a2 = a2
    t1 = t1
    t2 = t2
    c1 = c1
    c2 = c2
    Alarms = {a1, a2, t1}
    Timers = {t1}
    Cbs = {c1}
    kMaxSize = 2
    kLowOnHandlesThreshold = 1
    kCounterOfDeathValue = 2
    ScheduleMayFail = FALSE
PROPERTY
    TimerGoesOn
