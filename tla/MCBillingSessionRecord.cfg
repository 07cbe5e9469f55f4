SPECIFICATION Spec
CONSTANTS
    Requests <- TwoRequests
    Infos <- SubscriptionInfos
    Actuals = {0, 2, 3}
    Targets = {3}
    InitWallet = 5
    InitToken = 6
    TokenUnlimited = FALSE
    TrustQuota = 4
    HasSub = TRUE
    SubTotal = 4
    AllowOverflow = TRUE
    Fallible = {"record"}
    MaxFaults = 1
INVARIANT RefundIdempotent
