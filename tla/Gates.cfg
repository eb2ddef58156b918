SPECIFICATION Spec
CHECK_DEADLOCK FALSE
CONSTANTS
    None = None
    Minute = 1
    Day = 4
    MAX_GAP_SEARCH = 2
    Rows = {r1, r2}
    Tasks = {t1, t2}
    Quotas <- MCQuotas
    Overrides <- MCOverrides
    Policies <- MCPolicies
    Settings <- MCSettings
    Jitters = {1}
    Horizon = 4
    MaxPasses = 3
    MaxEvents = 1
SYMMETRY Symmetry
INVARIANTS
    
    DeferredToTheNextDay
    PutOffPastQuietHours
