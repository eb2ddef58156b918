SPECIFICATION FairSpec
CONSTANTS
    sms = sms
    email = email
    p1 = p1
    p2 = p2
    c1 = c1
    r1 = r1
    r2 = r2
    glob = glob
    pair = pair
    camp = camp
    plat = plat
    away = away
    blast = blast
    None = None
    Garbage = Garbage
    Row <- RowOf
    Reaches <- ReachesTenant
    Of <- OfRequest
    Producers = {p1, p2}
    Campaigns = {c1}
    Channels = {sms}
    Switches = {glob, camp}
    Platform = {}
    Requests = {r1}
    BatchLimit = 2
    Refreshing = {"dispatcher"}
    Limit <- CrashAndSkip
PROPERTIES
    ClaimsHonourSwitches
    ReleasedRowsFlow
