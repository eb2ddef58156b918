SPECIFICATION FairSpec
CHECK_DEADLOCK FALSE
CONSTANTS
    None = None
    q1 = q1
    q2 = q2
    p1 = p1
    Requests = {q1, q2}
    Providers = {p1}
    Services = {"otp", "sms"}
    MaxFaults = 2
INVARIANTS
    Accounted
    
PROPERTIES
    BuffersDrain
