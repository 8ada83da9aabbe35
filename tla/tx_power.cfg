SPECIFICATION FairSpec
CONSTANTS
    r1 = r1
    r2 = r2
    done = done
    kFirst = 11
    kLast = 13
    Masks <- MCMasks
    Powers = {0, 8}
    Callbacks = {done}
    Statuses = {0, 1}
    Requests = {r1, r2}
    ScheduleMayFail = TRUE
INVARIANTS
    TypeOK
    LastRequestServed
    AloneOnly
PROPERTIES
    RequestsEnd
