-------------------------- MODULE BillingSession --------------------------
(***************************************************************************)
(* The billing life cycle of relay requests (service/billing_session.go,   *)
(* service/funding_source.go): a request reserves quota from its token and *)
(* from one funding source (the user's wallet or the user's subscription), *)
(* is relayed upstream, and is then settled at its actual cost or refunded *)
(* by a goroutine.  Every SQL statement or transaction is one step, so the *)
(* requests of one user interleave between the statements.  All requests   *)
(* share one user, one token and at most one subscription, the case in     *)
(* which they contend; Redis and the batch updater are off.                *)
(***************************************************************************)
EXTENDS Integers, FiniteSets, Functions

CONSTANTS
    Requests,        \* relay requests of the user
    Infos,           \* what a request brings: preference, estimate, kind
    Actuals,         \* actual costs the upstream usage may lead to
    Targets,         \* targets Reserve may be called with
    InitWallet,      \* users.quota before the requests
    InitToken,       \* tokens.remain_quota before the requests
    TokenUnlimited,  \* tokens.unlimited_quota
    TrustQuota,      \* common.GetTrustQuota()
    HasSub,          \* the user has an active subscription
    SubTotal,        \* its amount_total, 0 for unlimited
    AllowOverflow,   \* its allow_wallet_overflow
    Fallible,        \* classes of statements that may fail
    MaxFaults        \* bound on failed statements and crashes

Prefs == {"subscription_only", "wallet_only", "wallet_first", "subscription_first"}
FaultClasses == {"query", "wallet", "token", "sub", "record", "ack", "crash"}
InfoType == [pref: Prefs, pre: Int, playground: BOOLEAN, force: BOOLEAN]

ASSUME ConstantsAssumption ==
    /\ IsFiniteSet(Requests)
    /\ Infos \subseteq InfoType
    /\ Actuals \subseteq Nat
    /\ Targets \subseteq Nat
    /\ InitWallet \in Int
    /\ InitToken \in Int
    /\ TokenUnlimited \in BOOLEAN
    /\ TrustQuota \in Nat
    /\ HasSub \in BOOLEAN
    /\ SubTotal \in Nat
    /\ AllowOverflow \in BOOLEAN
    /\ Fallible \subseteq FaultClasses
    /\ MaxFaults \in Nat

MaxAttempts == 3     \* refundWithRetry

VARIABLES
    wallet,          \* users.quota
    tokenRemain,     \* tokens.remain_quota
    tokenStatus,     \* tokens.status
    subUsed,         \* user_subscriptions.amount_used
    record,          \* subscription_pre_consume_records.status per request
    pc,              \* where the goroutine of the request is
    info,            \* the request (fixed)
    tokenQuota,      \* "token_quota" of the gin context, read at authentication
    amount,          \* effectiveQuota of preConsume, or delta of Reserve
    s,               \* the BillingSession of the request
    actual,          \* actualQuota passed to Settle
    attempts,        \* attempts of refundWithRetry
    faults,          \* number of failed statements and crashes so far
    faulty,          \* requests that met one of them
    fundCharged,     \* history: net amount r's statements took from its funding
    tokenCharged     \* history: net amount r's statements took from the token

db == <<wallet, tokenRemain, tokenStatus, subUsed, record>>
hist == <<fundCharged, tokenCharged>>
fault == <<faults, faulty>>
vars == <<db, pc, info, tokenQuota, amount, s, actual, attempts, fault, hist>>

NewSession(f) ==
    [funding |-> f, preConsumed |-> 0, tokenConsumed |-> 0, extraReserved |-> 0,
     walletConsumed |-> 0, subPre |-> 0, trusted |-> FALSE,
     fundingSettled |-> FALSE, settled |-> FALSE, refunded |-> FALSE]

SessionType ==
    [funding: {"none", "wallet", "subscription"}, preConsumed: Nat,
     tokenConsumed: Nat, extraReserved: Nat, walletConsumed: Nat, subPre: Nat,
     trusted: BOOLEAN, fundingSettled: BOOLEAN, settled: BOOLEAN, refunded: BOOLEAN]

PreparePCs == {"auth", "select", "walletCheck", "token", "tokenDec", "fund",
               "overflow", "rollbackInsufficient", "rollbackError"}
ActivePCs == {"active", "resFund", "resToken", "resTokenDec", "resRollback"}
SettlePCs == {"settleFund", "settleToken"}
RefundPCs == {"refFund", "refRecord", "refExtra", "refToken"}
Terminal == {"done", "rejected", "crashed"}
PCs == PreparePCs \cup ActivePCs \cup SettlePCs \cup RefundPCs \cup Terminal

Init ==
    /\ wallet = InitWallet
    /\ tokenRemain = InitToken
    /\ tokenStatus = "enabled"
    /\ subUsed = 0
    /\ record = [r \in Requests |-> "none"]
    /\ pc = [r \in Requests |-> "auth"]
    /\ info \in [Requests -> Infos]
    /\ tokenQuota = [r \in Requests |-> 0]
    /\ amount = [r \in Requests |-> 0]
    /\ s = [r \in Requests |-> NewSession("none")]
    /\ actual = [r \in Requests |-> 0]
    /\ attempts = [r \in Requests |-> 0]
    /\ faults = 0
    /\ faulty = {}
    /\ fundCharged = [r \in Requests |-> 0]
    /\ tokenCharged = [r \in Requests |-> 0]

----------------------------------------------------------------------------
(* Control and statements *)

Goto(r, l) == pc' = [pc EXCEPT ![r] = l]
Session(r, new) == s' = [s EXCEPT ![r] = new]

\* A statement of class c fails; the code only sees the error.
Fails(r, c) ==
    /\ c \in Fallible
    /\ faults < MaxFaults
    /\ faults' = faults + 1
    /\ faulty' = faulty \cup {r}

\* DecreaseUserQuota(d) for d >= 0, IncreaseUserQuota(-d) for d < 0.
TakeWallet(r, d) ==
    /\ wallet' = wallet - d
    /\ fundCharged' = [fundCharged EXCEPT ![r] = @ + d]
    /\ UNCHANGED <<subUsed, record>>

\* The value PostConsumeUserSubscriptionDelta would store.
SubAfter(d) == IF subUsed + d < 0 THEN 0 ELSE subUsed + d

\* Mutant: PostConsumeUserSubscriptionDelta without the check of amount_total.
SubFitsUnchecked(d) == d \in Int

SubFits(d) == SubTotal > 0 => SubAfter(d) <= SubTotal

\* PostConsumeUserSubscriptionDelta(d) when it commits; where amount_used stops
\* at 0, only what left the row counts as given back.
TakeSub(r, d) ==
    /\ SubFits(d)
    /\ subUsed' = SubAfter(d)
    /\ fundCharged' = [fundCharged EXCEPT ![r] = @ + (SubAfter(d) - subUsed)]
    /\ UNCHANGED <<wallet, record>>

\* DecreaseTokenQuota(d) for d >= 0, IncreaseTokenQuota(-d) for d < 0.
TakeToken(r, d) ==
    /\ tokenRemain' = tokenRemain - d
    /\ tokenCharged' = [tokenCharged EXCEPT ![r] = @ + d]

funds == <<wallet, subUsed, record, fundCharged>>
token == <<tokenRemain, tokenCharged>>
rest == <<info, tokenQuota, actual, attempts, tokenStatus>>

\* The check of PreConsumeTokenQuota, on the value of remain_quota it reads.
TokenEnough(q) == TokenUnlimited \/ tokenRemain >= q

IsSub(r) == s[r].funding = "subscription"

----------------------------------------------------------------------------
(* Authentication and NewBillingSession *)

\* ValidateUserToken reads the token and, finding it used up, stores the
\* status Exhausted; SetupContextForToken keeps the quota it read.  The
\* playground runs under a temporary token that is never validated.
Authenticate(r) ==
    /\ pc[r] = "auth"
    /\ IF info[r].playground
       THEN /\ Goto(r, "select")
            /\ UNCHANGED <<tokenQuota, tokenStatus>>
       ELSE IF tokenStatus = "exhausted" \/ (~TokenUnlimited /\ tokenRemain <= 0)
       THEN /\ Goto(r, "rejected")
            /\ tokenStatus' = "exhausted"
            /\ UNCHANGED tokenQuota
       ELSE /\ Goto(r, "select")
            /\ tokenQuota' = [tokenQuota EXCEPT ![r] = IF TokenUnlimited THEN 0 ELSE tokenRemain]
            /\ UNCHANGED tokenStatus
    /\ UNCHANGED <<funds, token, info, amount, s, actual, attempts, fault>>

\* subConsume of trySubscription: a subscription is charged at least 1.
SubConsume(r) == IF info[r].pre <= 0 THEN 1 ELSE info[r].pre

TrySubscription(r) ==
    /\ Session(r, NewSession("subscription"))
    /\ amount' = [amount EXCEPT ![r] = SubConsume(r)]
    /\ Goto(r, "token")

\* Mutant: PreConsumeBilling without the test for a negative estimate.
SelectFundingUnchecked(r) ==
    /\ pc[r] = "select"
    /\ \/ info[r].pref \in {"subscription_only", "subscription_first"} /\ TrySubscription(r)
       \/ info[r].pref \in {"wallet_only", "wallet_first"}
          /\ Goto(r, "walletCheck") /\ UNCHANGED <<s, amount>>
    /\ UNCHANGED <<funds, token, rest, fault>>

\* PreConsumeBilling and the switch of NewBillingSession.
SelectFunding(r) ==
    /\ pc[r] = "select"
    /\ \/ /\ info[r].pre < 0
          /\ Goto(r, "rejected")
          /\ UNCHANGED <<s, amount>>
       \/ /\ info[r].pre >= 0
          /\ \/ info[r].pref = "subscription_only"
             \/ info[r].pref = "subscription_first" /\ HasSub
          /\ TrySubscription(r)
       \/ /\ info[r].pre >= 0
          /\ \/ info[r].pref \in {"wallet_only", "wallet_first"}
             \/ info[r].pref = "subscription_first" /\ ~HasSub
          /\ Goto(r, "walletCheck")
          /\ UNCHANGED <<s, amount>>
    /\ UNCHANGED <<funds, token, rest, fault>>

\* shouldTrust, q being the wallet quota tryWallet has just read.
ShouldTrust(r, q) ==
    /\ ~info[r].force
    /\ TrustQuota > 0
    /\ \/ TokenUnlimited /\ ~info[r].playground
       \/ tokenQuota[r] > TrustQuota
    /\ q > TrustQuota

\* tryWallet up to preConsume: GetUserQuota, the two checks, the trust bypass.
WalletCheck(r) ==
    /\ pc[r] = "walletCheck"
    /\ \/ /\ wallet > 0
          /\ wallet >= info[r].pre
          /\ Session(r, [NewSession("wallet") EXCEPT !.trusted = ShouldTrust(r, wallet)])
          /\ amount' = [amount EXCEPT ![r] =
                            IF ShouldTrust(r, wallet) THEN 0 ELSE info[r].pre]
          /\ Goto(r, "token")
       \/ /\ wallet <= 0 \/ wallet < info[r].pre
          /\ IF info[r].pref = "wallet_first"
             THEN TrySubscription(r)
             ELSE Goto(r, "rejected") /\ UNCHANGED <<s, amount>>
    /\ UNCHANGED <<funds, token, rest, fault>>

\* UserActiveSubscriptionsAllowWalletOverflow, after the subscription fell short.
Overflow(r) ==
    /\ pc[r] = "overflow"
    /\ Goto(r, IF AllowOverflow THEN "walletCheck" ELSE "rejected")
    /\ UNCHANGED <<funds, token, rest, fault, s, amount>>

\* A read of NewBillingSession or PreConsumeTokenQuota fails: turned away.
QueryFails(r) ==
    /\ \/ pc[r] \in {"walletCheck", "overflow"}
       \/ pc[r] = "token" /\ amount[r] > 0 /\ ~info[r].playground
       \/ pc[r] = "select" /\ info[r].pre >= 0 /\ info[r].pref = "subscription_first"
    /\ Fails(r, "query")
    /\ Goto(r, "rejected")
    /\ UNCHANGED <<funds, token, rest, s, amount>>

----------------------------------------------------------------------------
(* preConsume: token first, then the funding source *)

\* PreConsumeTokenQuota up to its check; the playground has no token to take
\* from but is booked as if it had.
CheckToken(r) ==
    /\ pc[r] = "token"
    /\ \/ /\ amount[r] = 0
          /\ Goto(r, "fund")
          /\ UNCHANGED s
       \/ /\ amount[r] > 0 /\ info[r].playground
          /\ Session(r, [s[r] EXCEPT !.tokenConsumed = amount[r]])
          /\ Goto(r, "fund")
       \/ /\ amount[r] > 0 /\ ~info[r].playground
          /\ Goto(r, IF TokenEnough(amount[r]) THEN "tokenDec" ELSE "rejected")
          /\ UNCHANGED s
    /\ UNCHANGED <<funds, token, rest, fault, amount>>

\* The UPDATE of DecreaseTokenQuota inside PreConsumeTokenQuota.
DecreaseToken(r) ==
    /\ pc[r] = "tokenDec"
    /\ \/ /\ TakeToken(r, amount[r])
          /\ Session(r, [s[r] EXCEPT !.tokenConsumed = amount[r]])
          /\ Goto(r, "fund")
          /\ UNCHANGED fault
       \/ /\ Fails(r, "token")
          /\ Goto(r, "rejected")
          /\ UNCHANGED <<token, s>>
    /\ UNCHANGED <<funds, rest, amount>>

\* Mutant: wallet_first falls back once more, to the wallet.
AfterFailureAny(r, insufficient) ==
    IF IsSub(r) /\ insufficient THEN "overflow" ELSE "rejected"

\* Where NewBillingSession goes once preConsume has failed: a subscription that
\* is used up may overflow into the wallet.
AfterFailure(r, insufficient) ==
    IF IsSub(r) /\ insufficient /\ info[r].pref = "subscription_first"
    THEN "overflow" ELSE "rejected"

\* Mutant: preConsume returns the error without backing out the token.
FundingFailedKeepsToken(r, insufficient) ==
    /\ Goto(r, AfterFailure(r, insufficient))
    /\ UNCHANGED <<funds, s>>

\* preConsume has failed at the funding source: back out the token first.
FundingFailed(r, insufficient) ==
    /\ Goto(r, IF s[r].tokenConsumed > 0 /\ ~info[r].playground
               THEN IF insufficient THEN "rollbackInsufficient" ELSE "rollbackError"
               ELSE AfterFailure(r, insufficient))
    /\ UNCHANGED <<funds, s>>

\* WalletFunding.PreConsume.
PreConsumeWallet(r) ==
    /\ pc[r] = "fund" /\ ~IsSub(r)
    /\ \/ /\ TakeWallet(r, amount[r])
          /\ Session(r, [s[r] EXCEPT !.walletConsumed = amount[r], !.preConsumed = amount[r]])
          /\ Goto(r, "active")
          /\ UNCHANGED fault
       \/ /\ amount[r] > 0
          /\ Fails(r, "wallet")
          /\ FundingFailed(r, FALSE)
    /\ UNCHANGED <<token, rest, amount>>

\* SubscriptionFunding.PreConsume: the transaction PreConsumeUserSubscription
\* finds room, creates the idempotency record and books the amount.  A failing
\* query for the user's subscriptions is reported as "no active subscription",
\* so it may overflow into the wallet; any other failure may not.
PreConsumeSub(r) ==
    /\ pc[r] = "fund" /\ IsSub(r)
    /\ \/ /\ HasSub
          /\ SubTotal > 0 => SubTotal - subUsed >= amount[r]
          /\ subUsed' = subUsed + amount[r]
          /\ record' = [record EXCEPT ![r] = "consumed"]
          /\ fundCharged' = [fundCharged EXCEPT ![r] = @ + amount[r]]
          /\ Session(r, [s[r] EXCEPT !.subPre = amount[r], !.preConsumed = amount[r]])
          /\ Goto(r, "active")
          /\ UNCHANGED <<wallet, fault>>
       \/ /\ \/ ~HasSub
             \/ SubTotal > 0 /\ SubTotal - subUsed < amount[r]
          /\ FundingFailed(r, TRUE)
          /\ UNCHANGED fault
       \/ /\ Fails(r, "sub")
          /\ FundingFailed(r, TRUE) \/ FundingFailed(r, FALSE)
    /\ UNCHANGED <<token, rest, amount>>

\* IncreaseTokenQuota backs out the token; its failure is only logged.
RollbackToken(r) ==
    /\ pc[r] \in {"rollbackInsufficient", "rollbackError"}
    /\ \/ TakeToken(r, -s[r].tokenConsumed) /\ UNCHANGED fault
       \/ Fails(r, "token") /\ UNCHANGED token
    /\ Session(r, [s[r] EXCEPT !.tokenConsumed = 0])
    /\ Goto(r, AfterFailure(r, pc[r] = "rollbackInsufficient"))
    /\ UNCHANGED <<funds, rest, amount>>
----------------------------------------------------------------------------
(* Reserve: more quota before the request is sent on *)

\* Reserve up to its first statement.  Bound: one raise per request.
Reserve(r) ==
    /\ pc[r] = "active"
    /\ ~s[r].trusted
    /\ s[r].extraReserved = 0
    /\ \E t \in Targets :
          /\ t > s[r].preConsumed
          /\ amount' = [amount EXCEPT ![r] = t - s[r].preConsumed]
    /\ Goto(r, "resFund")
    /\ UNCHANGED <<funds, token, rest, fault, s>>

\* reserveFunding: a subscription without room, or a failed statement, ends
\* Reserve with nothing reserved.
ReserveFunding(r) ==
    /\ pc[r] = "resFund"
    /\ \/ /\ ~IsSub(r)
          /\ TakeWallet(r, amount[r])
          /\ Session(r, [s[r] EXCEPT !.walletConsumed = @ + amount[r]])
          /\ Goto(r, "resToken")
          /\ UNCHANGED fault
       \/ /\ IsSub(r)
          /\ TakeSub(r, amount[r])
          /\ Goto(r, "resToken")
          /\ UNCHANGED <<fault, s>>
       \/ /\ \/ IsSub(r) /\ ~SubFits(amount[r]) /\ UNCHANGED fault
             \/ Fails(r, IF IsSub(r) THEN "sub" ELSE "wallet")
          /\ Goto(r, "active")
          /\ UNCHANGED <<funds, s>>
    /\ UNCHANGED <<token, rest, amount>>

Reserved(r) ==
    Session(r, [s[r] EXCEPT !.preConsumed = @ + amount[r],
                            !.tokenConsumed = @ + amount[r],
                            !.extraReserved = @ + amount[r]])

\* reserveToken up to the check of PreConsumeTokenQuota.
ReserveToken(r) ==
    /\ pc[r] = "resToken"
    /\ \/ /\ info[r].playground
          /\ Reserved(r)
          /\ Goto(r, "active")
          /\ UNCHANGED fault
       \/ /\ ~info[r].playground
          /\ Goto(r, IF TokenEnough(amount[r]) THEN "resTokenDec" ELSE "resRollback")
          /\ UNCHANGED <<s, fault>>
       \/ /\ ~info[r].playground
          /\ Fails(r, "query")
          /\ Goto(r, "resRollback")
          /\ UNCHANGED s
    /\ UNCHANGED <<funds, token, rest, amount>>

ReserveTokenDecrease(r) ==
    /\ pc[r] = "resTokenDec"
    /\ \/ /\ TakeToken(r, amount[r])
          /\ Reserved(r)
          /\ Goto(r, "active")
          /\ UNCHANGED fault
       \/ /\ Fails(r, "token")
          /\ Goto(r, "resRollback")
          /\ UNCHANGED <<token, s>>
    /\ UNCHANGED <<funds, rest, amount>>

\* rollbackFundingReserve; a failure is only logged.
RollbackFundingReserve(r) ==
    /\ pc[r] = "resRollback"
    /\ \/ /\ ~IsSub(r)
          /\ TakeWallet(r, -amount[r])
          /\ Session(r, [s[r] EXCEPT !.walletConsumed = @ - amount[r]])
          /\ UNCHANGED fault
       \/ /\ IsSub(r)
          /\ TakeSub(r, -amount[r])
          /\ UNCHANGED <<fault, s>>
       \/ /\ Fails(r, IF IsSub(r) THEN "sub" ELSE "wallet")
          /\ UNCHANGED <<funds, s>>
    /\ Goto(r, "active")
    /\ UNCHANGED <<token, rest, amount>>

----------------------------------------------------------------------------
(* Settle *)

\* The upstream call succeeded: Settle up to its first statement.
Settle(r) ==
    /\ pc[r] = "active"
    /\ \E a \in Actuals :
          /\ actual' = [actual EXCEPT ![r] = a]
          /\ IF a = s[r].preConsumed
             THEN Session(r, [s[r] EXCEPT !.settled = TRUE]) /\ Goto(r, "done")
             ELSE Goto(r, "settleFund") /\ UNCHANGED s
    /\ UNCHANGED <<funds, token, fault, amount, info, tokenQuota, attempts, tokenStatus>>

\* Mutant: the actual cost is charged on top of the reservation.
DeltaFull(r) == actual[r]

Delta(r) == actual[r] - s[r].preConsumed

\* funding.Settle(delta); the caller only logs its error, so nothing follows.
SettleFunding(r) ==
    /\ pc[r] = "settleFund"
    /\ \/ /\ IF IsSub(r) THEN TakeSub(r, Delta(r)) ELSE TakeWallet(r, Delta(r))
          /\ Session(r, [s[r] EXCEPT !.fundingSettled = TRUE,
                                     !.settled = info[r].playground])
          /\ Goto(r, IF info[r].playground THEN "done" ELSE "settleToken")
          /\ UNCHANGED fault
       \/ /\ \/ IsSub(r) /\ ~SubFits(Delta(r)) /\ UNCHANGED fault
             \/ Fails(r, IF IsSub(r) THEN "sub" ELSE "wallet")
          /\ Goto(r, "done")
          /\ UNCHANGED <<funds, s>>
    /\ UNCHANGED <<token, rest, amount>>

\* The token follows; even when its statement fails the session is settled.
SettleToken(r) ==
    /\ pc[r] = "settleToken"
    /\ \/ TakeToken(r, Delta(r)) /\ UNCHANGED fault
       \/ Fails(r, "token") /\ UNCHANGED token
    /\ Session(r, [s[r] EXCEPT !.settled = TRUE])
    /\ Goto(r, "done")
    /\ UNCHANGED <<funds, rest, amount>>

----------------------------------------------------------------------------
(* Refund *)

\* needsRefundLocked.
NeedsRefund(r) ==
    /\ ~s[r].settled /\ ~s[r].refunded /\ ~s[r].fundingSettled
    /\ s[r].tokenConsumed > 0 \/ s[r].subPre > 0

\* Mutant: the deferred Refund runs whatever the outcome was.
RefundAlways(r) ==
    /\ pc[r] \in {"active", "done"}
    /\ ~s[r].refunded
    /\ Session(r, [s[r] EXCEPT !.refunded = TRUE])
    /\ Goto(r, "refFund")
    /\ UNCHANGED <<funds, token, rest, fault, amount>>

\* The upstream call failed for good: Refund up to starting its goroutine.
Refund(r) ==
    /\ pc[r] = "active"
    /\ IF NeedsRefund(r)
       THEN /\ Session(r, [s[r] EXCEPT !.refunded = TRUE])
            /\ Goto(r, "refFund")
       ELSE UNCHANGED s /\ Goto(r, "done")
    /\ UNCHANGED <<funds, token, rest, fault, amount>>

\* WalletFunding.Refund, tried once.
RefundWallet(r) ==
    /\ pc[r] = "refFund" /\ ~IsSub(r)
    /\ \/ TakeWallet(r, -s[r].walletConsumed) /\ UNCHANGED fault
       \/ s[r].walletConsumed > 0 /\ Fails(r, "wallet") /\ UNCHANGED funds
    /\ Goto(r, "refToken")
    /\ UNCHANGED <<token, rest, amount, s>>

\* refundWithRetry after a failed attempt.
Retry(r) ==
    /\ attempts' = [attempts EXCEPT ![r] = @ + 1]
    /\ Goto(r, IF attempts[r] + 1 < MaxAttempts THEN "refFund" ELSE "refExtra")

\* Mutant: the status of the record is not looked at.
RefundSubUnguarded(r) ==
    /\ pc[r] = "refFund" /\ IsSub(r)
    /\ TakeSub(r, -s[r].subPre)
    /\ Goto(r, "refRecord")
    /\ UNCHANGED <<token, s, amount, info, tokenQuota, actual, tokenStatus, fault, attempts>>

\* RefundSubscriptionPreConsume up to PostConsumeUserSubscriptionDelta, which
\* commits a transaction of its own.
RefundSub(r) ==
    /\ pc[r] = "refFund" /\ IsSub(r)
    /\ \/ /\ record[r] = "consumed"
          /\ TakeSub(r, -s[r].subPre)
          /\ Goto(r, "refRecord")
          /\ UNCHANGED <<fault, attempts>>
       \/ /\ record[r] = "refunded"
          /\ Goto(r, "refExtra")
          /\ UNCHANGED <<funds, fault, attempts>>
       \/ /\ Fails(r, "sub")
          /\ Retry(r)
          /\ UNCHANGED funds
    /\ UNCHANGED <<token, s, amount, info, tokenQuota, actual, tokenStatus>>

\* The rest of RefundSubscriptionPreConsume: the record is saved, or the outer
\* transaction fails and leaves it as it was, or it commits and the answer of
\* the database is lost ("ack").
RefundRecord(r) ==
    /\ pc[r] = "refRecord"
    /\ \/ /\ record' = [record EXCEPT ![r] = "refunded"]
          /\ Goto(r, "refExtra")
          /\ UNCHANGED <<fault, attempts>>
       \/ /\ \/ Fails(r, "record") /\ UNCHANGED record
             \/ Fails(r, "ack") /\ record' = [record EXCEPT ![r] = "refunded"]
          /\ Retry(r)
    /\ UNCHANGED <<wallet, subUsed, fundCharged, token, s, amount, info, tokenQuota,
                   actual, tokenStatus>>

\* Mutant: what Reserve added is forgotten.
RefundExtraForgotten(r) ==
    /\ pc[r] = "refExtra"
    /\ Goto(r, "refToken")
    /\ UNCHANGED <<funds, token, rest, fault, amount, s>>

\* The subscription gives back what Reserve added.
RefundExtra(r) ==
    /\ pc[r] = "refExtra"
    /\ \/ s[r].extraReserved > 0 /\ TakeSub(r, -s[r].extraReserved) /\ UNCHANGED fault
       \/ s[r].extraReserved > 0 /\ Fails(r, "sub") /\ UNCHANGED funds
       \/ s[r].extraReserved = 0 /\ UNCHANGED <<funds, fault>>
    /\ Goto(r, "refToken")
    /\ UNCHANGED <<token, rest, amount, s>>

RefundToken(r) ==
    /\ pc[r] = "refToken"
    /\ IF s[r].tokenConsumed > 0 /\ ~info[r].playground
       THEN \/ TakeToken(r, -s[r].tokenConsumed) /\ UNCHANGED fault
            \/ Fails(r, "token") /\ UNCHANGED token
       ELSE UNCHANGED <<token, fault>>
    /\ Goto(r, "done")
    /\ UNCHANGED <<funds, rest, amount, s>>

----------------------------------------------------------------------------

\* The process is killed: nothing on restart looks for open reservations.
Crash(r) ==
    /\ pc[r] \notin Terminal
    /\ Fails(r, "crash")
    /\ Goto(r, "crashed")
    /\ UNCHANGED <<funds, token, rest, amount, s>>

PreConsumeStep(r) ==
    \/ Authenticate(r) \/ SelectFunding(r) \/ WalletCheck(r) \/ Overflow(r)
    \/ QueryFails(r) \/ CheckToken(r) \/ DecreaseToken(r) \/ PreConsumeWallet(r)
    \/ PreConsumeSub(r) \/ RollbackToken(r)

ReserveStep(r) ==
    \/ Reserve(r) \/ ReserveFunding(r) \/ ReserveToken(r)
    \/ ReserveTokenDecrease(r) \/ RollbackFundingReserve(r)

SettleStep(r) == Settle(r) \/ SettleFunding(r) \/ SettleToken(r)

RefundStep(r) ==
    \/ Refund(r) \/ RefundWallet(r) \/ RefundSub(r) \/ RefundRecord(r)
    \/ RefundExtra(r) \/ RefundToken(r)

Step(r) == PreConsumeStep(r) \/ ReserveStep(r) \/ SettleStep(r) \/ RefundStep(r)

\* Every request is over.
Finished ==
    /\ \A r \in Requests : pc[r] \in Terminal
    /\ UNCHANGED vars

Next == (\E r \in Requests : Step(r) \/ Crash(r)) \/ Finished

Spec == Init /\ [][Next]_vars

\* Every goroutine goes on running (handlers have timeouts, statements return),
\* and a handler that raises its reservation does not do so for ever: the upstream
\* call is made and its outcome settled or refunded.
FairSpec ==
    /\ Spec
    /\ \A r \in Requests : WF_vars(Step(r)) /\ SF_vars(Settle(r) \/ Refund(r))

----------------------------------------------------------------------------
(* Properties *)

TypeOK ==
    /\ wallet \in Int
    /\ tokenRemain \in Int
    /\ tokenStatus \in {"enabled", "exhausted"}
    /\ subUsed \in Nat
    /\ record \in [Requests -> {"none", "consumed", "refunded"}]
    /\ pc \in [Requests -> PCs]
    /\ info \in [Requests -> Infos]
    /\ tokenQuota \in [Requests -> Int]
    /\ amount \in [Requests -> Nat]
    /\ s \in [Requests -> SessionType]
    /\ actual \in [Requests -> Nat]
    /\ attempts \in [Requests -> 0..MaxAttempts]
    /\ faults \in 0..MaxFaults
    /\ faulty \subseteq Requests
    /\ fundCharged \in [Requests -> Int]
    /\ tokenCharged \in [Requests -> Int]

\* What the state of request r says it is taking from its funding source.
FundHeld(r) ==
    CASE pc[r] \in PreparePCs \cup {"rejected", "refToken"} -> 0
      [] pc[r] \in {"active", "resFund", "settleFund", "refFund"} -> s[r].preConsumed
      [] pc[r] \in {"resToken", "resTokenDec", "resRollback"} -> s[r].preConsumed + amount[r]
      [] pc[r] \in {"refRecord", "refExtra"} -> s[r].extraReserved
      [] pc[r] = "settleToken" -> actual[r]
      [] pc[r] \in {"done", "crashed"} ->
            IF s[r].settled THEN actual[r]
            ELSE IF s[r].refunded THEN 0 ELSE s[r].preConsumed

\* What it says it is taking from the token.
TokenHeld(r) ==
    IF info[r].playground \/ pc[r] \in PreparePCs \ {"fund", "rollbackInsufficient", "rollbackError"}
                          \/ pc[r] = "rejected"
    THEN 0
    ELSE IF pc[r] \in {"done", "crashed"}
    THEN IF s[r].settled THEN actual[r]
         ELSE IF s[r].refunded THEN 0 ELSE s[r].tokenConsumed
    ELSE s[r].tokenConsumed

\* A request none of whose statements failed has at every moment taken from its
\* funding source and from the token exactly what its session stands for: the
\* reservation while it runs, the actual cost once settled, nothing once it is
\* turned away or refunded.  Settle, Refund, Reserve and the two rollbacks each
\* move both accounts in separate statements; no path may skip or repeat one.
ChargedWhatIsHeld ==
    \A r \in Requests \ faulty :
        /\ fundCharged[r] = FundHeld(r)
        /\ tokenCharged[r] = TokenHeld(r)

\* The shared rows agree with what the requests hold: nothing a request took is
\* lost and nothing is counted twice, however the statements of several requests
\* interleave on the same user, token and subscription rows; in particular the
\* clamp of amount_used at 0 never swallows a part of a refund.
Books ==
    faulty = {} =>
        /\ wallet = InitWallet
                      - SumFunction([r \in Requests |-> IF IsSub(r) THEN 0 ELSE FundHeld(r)])
        /\ subUsed = SumFunction([r \in Requests |-> IF IsSub(r) THEN FundHeld(r) ELSE 0])
        /\ tokenRemain = InitToken - SumFunction([r \in Requests |-> TokenHeld(r)])

\* What a request served without a refund has paid at least.
Paid(r) == IF actual[r] < s[r].preConsumed THEN actual[r] ELSE s[r].preConsumed

\* What failed statements and crashes can cost the operator is bounded: a request
\* never gets back more than it paid; one whose funding was settled has paid its
\* actual cost; and one served without that has still paid its reservation, or
\* its cost if that is less.  The difference is really lost: when the raise at
\* settlement fails, or amount_total refuses it, Settle returns an error its
\* callers only log, and a trusted request has then paid nothing.
LossBounded ==
    \A r \in Requests :
        /\ fundCharged[r] >= 0 /\ tokenCharged[r] >= 0
        /\ s[r].settled => fundCharged[r] >= actual[r]
        /\ ~s[r].refunded =>
              /\ fundCharged[r] >= Paid(r)
              /\ ~info[r].playground => tokenCharged[r] >= Paid(r)

\* Concurrent requests never take more from the subscription than its total:
\* every statement checks and books under the lock of the row.
SubWithinTotal == SubTotal > 0 => subUsed <= SubTotal

\* Money moves for a request only while it is under way: once Settle has
\* completed, or the request is over, no step, its own or another request's,
\* changes what it was charged (Refund after Settle is the case that must not
\* happen), and a session that is refunded is never settled.
ChargesAreFinal ==
    [][\A r \in Requests :
          /\ s[r].settled \/ pc[r] \in Terminal =>
                 /\ fundCharged'[r] = fundCharged[r]
                 /\ tokenCharged'[r] = tokenCharged[r]
          /\ ~(s'[r].refunded /\ (s'[r].settled \/ s'[r].fundingSettled))]_vars

\* Every request is brought to an end, whatever falls back on what: the
\* preferences never send it from subscription to wallet and back for ever and
\* the retries of the refund are bounded.
EveryRequestEnds == \A r \in Requests : <>(pc[r] \in Terminal)

\* A failed request whose statements all work gets its reservation back.
RefundCompletes ==
    \A r \in Requests :
        pc[r] = "refFund" ~> \/ pc[r] = "done" /\ fundCharged[r] = 0 /\ tokenCharged[r] = 0
                            \/ r \in faulty

\* Refunding a pre-consumed subscription by request id is idempotent, as
\* RefundSubscriptionPreConsume and WalletFunding.Refund say: its retries never
\* give back more than the request took.
RefundIdempotent == \A r \in Requests : fundCharged[r] >= 0

----------------------------------------------------------------------------
(* The inductive invariant *)

RollbackPCs == {"rollbackInsufficient", "rollbackError"}
RaisedPCs == {"resToken", "resTokenDec", "resRollback"}

Open(r) == ~s[r].settled /\ ~s[r].refunded /\ ~s[r].fundingSettled

\* What the session of r records at each point of its life.
SessionInv(r) ==
    /\ pc[r] \in PreparePCs \ {"auth", "select"} => info[r].pre >= 0
    /\ pc[r] \in PreparePCs \cup ActivePCs \cup {"settleFund"} => Open(r)
    /\ pc[r] \in {"token", "tokenDec", "fund"} \cup RollbackPCs =>
          /\ s[r].preConsumed = 0 /\ s[r].walletConsumed = 0
          /\ s[r].subPre = 0 /\ s[r].extraReserved = 0
    /\ pc[r] \in {"token", "tokenDec"} => s[r].tokenConsumed = 0
    /\ pc[r] = "fund" => s[r].tokenConsumed = amount[r]
    /\ pc[r] \in {"tokenDec", "resTokenDec", "settleToken"} \cup RollbackPCs => ~info[r].playground
    /\ pc[r] \in ActivePCs \cup SettlePCs \cup RefundPCs =>
          /\ s[r].tokenConsumed = s[r].preConsumed
          /\ IsSub(r) => s[r].preConsumed = s[r].subPre + s[r].extraReserved
    /\ pc[r] = "settleToken" => ~s[r].settled /\ ~s[r].refunded /\ s[r].fundingSettled
    /\ pc[r] \in RefundPCs => ~s[r].settled /\ s[r].refunded /\ ~s[r].fundingSettled
    /\ pc[r] \in {"refRecord", "refExtra"} => IsSub(r)
    /\ ~IsSub(r) /\ pc[r] \in {"active", "resFund", "settleFund", "refFund"} =>
          /\ s[r].walletConsumed >= s[r].preConsumed
          /\ r \notin faulty => s[r].walletConsumed = s[r].preConsumed
    /\ ~IsSub(r) /\ pc[r] \in RaisedPCs =>
          /\ s[r].walletConsumed >= s[r].preConsumed + amount[r]
          /\ r \notin faulty => s[r].walletConsumed = s[r].preConsumed + amount[r]
    /\ pc[r] \notin RefundPCs \cup Terminal => attempts[r] = 0
    /\ pc[r] \in {"refFund", "refRecord"} => attempts[r] < MaxAttempts
    /\ pc[r] \in Terminal => ~(s[r].refunded /\ (s[r].settled \/ s[r].fundingSettled))
    /\ pc[r] = "crashed" => r \in faulty
    /\ record[r] = "refunded" /\ r \notin faulty => pc[r] \in {"refExtra", "refToken", "done"}

\* No refund can have been applied twice: marking a pre-consume record does not
\* fail, or nothing has failed so far.
Sound == faulty = {} \/ "record" \notin Fallible

IInv ==
    /\ TypeOK
    /\ \A r \in Requests : SessionInv(r)
    /\ Sound => ChargedWhatIsHeld

\* What r has paid at least, whatever failed, as long as Sound holds: the amount
\* the next statement may give back is still there.
ChargeFloor(r) ==
    /\ fundCharged[r] >= 0 /\ tokenCharged[r] >= 0
    /\ ~info[r].playground
       /\ pc[r] \in {"fund"} \cup RollbackPCs \cup ActivePCs \cup SettlePCs \cup RefundPCs =>
          tokenCharged[r] >= s[r].tokenConsumed
    /\ ~IsSub(r) /\ pc[r] \in ActivePCs \cup {"settleFund", "refFund"} =>
          fundCharged[r] >= s[r].walletConsumed
    /\ IsSub(r) /\ pc[r] \in {"active", "resFund", "settleFund"} =>
          fundCharged[r] >= s[r].preConsumed
    /\ IsSub(r) /\ pc[r] \in RaisedPCs => fundCharged[r] >= s[r].preConsumed + amount[r]
    /\ IsSub(r) /\ pc[r] = "refFund" /\ record[r] = "consumed" =>
          fundCharged[r] >= s[r].preConsumed
    /\ IsSub(r) /\ pc[r] \in {"refFund", "refRecord", "refExtra"} =>
          fundCharged[r] >= s[r].extraReserved
    /\ pc[r] = "settleToken" \/ s[r].settled => fundCharged[r] >= actual[r]

\* A request that is not refunded has paid for its reservation or its cost.
PaidFloor(r) ==
    /\ pc[r] \in PreparePCs \cup {"rejected"} => s[r].preConsumed = 0
    /\ ~s[r].refunded =>
          /\ fundCharged[r] >= Paid(r)
          /\ ~info[r].playground => tokenCharged[r] >= Paid(r)

FloorInv == \A r \in Requests : ChargeFloor(r) /\ PaidFloor(r)

\* What the statements of each request took from the wallet, and from the
\* subscription.
WalletShare == [r \in Requests |-> IF IsSub(r) THEN 0 ELSE fundCharged[r]]
SubShare == [r \in Requests |-> IF IsSub(r) THEN fundCharged[r] ELSE 0]

\* The subscription row is the sum of what the requests took, even where a
\* refund was applied twice, and a request changes its source only while it has
\* taken nothing.
RowInv ==
    /\ subUsed = SumFunction(SubShare)
    /\ \A r \in Requests : pc[r] \in PreparePCs => fundCharged[r] = 0

\* The whole inductive invariant.  With RowInv and the floor, the clamp of
\* amount_used at 0 is never reached, which ChargedWhatIsHeld needs.
BillingInv ==
    /\ IInv
    /\ Sound => FloorInv
    /\ RowInv
=============================================================================
