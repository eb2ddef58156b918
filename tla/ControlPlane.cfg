SPECIFICATION Spec
CONSTANTS
    None = None
    j1 = j1
    j2 = j2
    j3 = j3
    j4 = j4
    j5 = j5
    a = a
    b = b
    c1 = c1
    c2 = c2
    p1 = p1
    p2 = p2
    n1 = n1
    n2 = n2
    v1 = v1
    v2 = v2
    Jobs = {j1, j2, j3, j4, j5}
    Tenants = {a, b}
    Certs = {c1, c2}
    Processes = {p1, p2}
    Values = {a, b, n1, n2, v1, v2}
    Scenarios <- AllScenarios
    MaxStops = 1
INVARIANTS
    CertsPointHome
    DisabledStaysOff
    RegisteredIsMapped
    CreatedOnce
    ActiveIsUsable
    KeyDiesFirst
    PeppersAgree
CHECK_DEADLOCK FALSE
