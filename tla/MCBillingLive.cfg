SPECIFICATION FairSpec
CONSTANTS
    Requests = {r1}
    Amounts = {1, 2}
    Kinds <- FallbackKinds
    TrustQuota = 0
    TokenUnlimited = TRUE
    InitQuota = 1
    InitGift = 1
    InitToken = 1
    MaxCredited = 0
PROPERTIES
    RefundCompletes
    OpeningTerminates
CHECK_DEADLOCK FALSE
