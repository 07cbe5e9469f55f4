SPECIFICATION FairSpec
CONSTANTS
    Requests <- TwoRequests
    Infos <- AllInfos
    Actuals = {0, 3}
    Targets = {3}
    InitWallet = 5
    InitToken = 6
    TokenUnlimited = FALSE
    TrustQuota = 4
    HasSub = TRUE
    SubTotal = 4
    AllowOverflow = TRUE
    Fallible = {"query", "wallet", "token", "sub", "ack", "crash"}
    MaxFaults = 2
INVARIANTS
    TypeOK
    ChargedWhatIsHeld
    Books
    LossBounded
    SubWithinTotal
PROPERTIES
    ChargesAreFinal
    EveryRequestEnds
    RefundCompletes
