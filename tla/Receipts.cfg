SPECIFICATION FairSpec
CONSTANTS
    None = None
    r1 = r1
    ref1 = ref1
    d1 = d1
    delivered = delivered
    bounced = bounced
    jp = jp
    jr = jr
    Requests = {r1}
    RefOf <- RefOfRequest
    Dest <- DestOfRequest
    Posts = {delivered, bounced}
    Ref <- RefOfPost
    Type <- TypeOfPost
    At <- TimeOfPost
    Jobs = {jp, jr}
    Work <- WorkOfJob
    Cap = 2
    Limit <- OneOfEach
INVARIANTS
    NeverLost
    StatusBacked
    FinalIsFurthest
    BouncesListed
PROPERTIES
    ReceiptsSettle
