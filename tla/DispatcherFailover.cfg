SPECIFICATION Spec
CONSTANTS
    r1 = r1
    r2 = r2
    d1 = d1
    d2 = d2
    w1 = w1
    w2 = w2
    w3 = w3
    w4 = w4
    None = None
    Home <- HomeOf
    Reach <- ReachAll
    BatchLimit <- BatchOfTwo
    Requests = {r1, r2}
    Dispatchers = {d1, d2}
    Workers = {w1, w2}
    Kind <- OnlyClaims
    Class <- AllTransactional
    Expiring = {}
    Fickle = {}
    Enforce = FALSE
    MaxSendAttempts = 2
    Limit <- OneCrash
SYMMETRY RequestSymmetry
INVARIANTS
    SweepsFindNoOne
PROPERTIES
    ImplementsDelivery
CHECK_DEADLOCK FALSE
