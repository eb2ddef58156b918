SPECIFICATION Spec
CHECK_DEADLOCK FALSE
CONSTANTS
    None = None
    c1 = c1
    c2 = c2
    c3 = c3
    k1 = k1
    k2 = k2
    p1 = p1
    p2 = p2
    Calls = {c1, c2, c3}
    Keys = {k1, k2}
    Processes = {p1, p2}
    Key <- KeyOfCall
    At <- ProcessOfCall
    Shapes = {"explicit", "external", "address"}
    Known = Known
    MaxErrors = 1
    MaxSweeps = 1
    MaxExpiries = 1
INVARIANTS
    OneRequestPerKey
    RepliesAreReal
    Decryptable
    AddressedToItsCustomer
    NoStrayCustomers
    LosersFindTheWinner

    
