SPECIFICATION FairSpec
CONSTANTS
    r1 = r1
    r2 = r2
    d1 = d1
    d2 = d2
    w1 = w1
    w2 = w2
    w3 = w3
    w4 = w4
    None = None
    Home <- HomeOf
    Reach <- ReachAll
    BatchLimit <- BatchOfTwo
    Requests = {r1}
    Dispatchers = {d1, d2}
    Workers = {w1, w2}
    Kind <- OnlyClaims
    Class <- AllMarketing
    Expiring = {r1}
    Fickle = {r1}
    Enforce = TRUE
    MaxSendAttempts = 2
    Limit <- CrashAndDefer
PROPERTIES
    DoomedNeverSent
    EventuallyFinal
CHECK_DEADLOCK FALSE
