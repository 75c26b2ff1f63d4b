SPECIFICATION Spec
CONSTANTS
    Requests = {r1, r2}
    Amounts = {0, 2}
    Kinds <- EveryKind
    TrustQuota = 2
    TokenUnlimited = FALSE
    InitQuota = 3
    InitGift = 1
    InitToken = 4
    MaxCredited = 2
SYMMETRY Symmetry
INVARIANTS
    TypeOK
    SessionInv
    MoneyConserved
    RefundSplitFits
    TokenMatchesFunding
    NothingLeftHeld
    ForcedHoldsEstimate
PROPERTIES
    WalletLedger
    GiftLedger
    TokenLedger
CHECK_DEADLOCK FALSE
