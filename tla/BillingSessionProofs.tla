----------------------- MODULE BillingSessionProofs -----------------------
(***************************************************************************)
(* Proofs about BillingSession, for any number of requests, any quotas and *)
(* any set of statements that may fail.                                    *)
(***************************************************************************)
EXTENDS BillingSession, FiniteSetTheorems, TLAPS

\* The labels the actions go to are labels.
LEMMA PCFacts ==
    {"select", "walletCheck", "token", "tokenDec", "fund", "overflow", "rollbackInsufficient",
     "rollbackError", "active", "resFund", "resToken", "resTokenDec", "resRollback",
     "settleFund", "settleToken", "refFund", "refRecord", "refExtra", "refToken",
     "done", "rejected", "crashed"} \subseteq PCs
  BY DEF PCs, PreparePCs, ActivePCs, SettlePCs, RefundPCs, Terminal

\* The fields of a request and of its session have their types.
FieldsTyped(r) ==
    /\ info[r].pre \in Int /\ info[r].playground \in BOOLEAN
    /\ s[r] \in SessionType
    /\ s[r].preConsumed \in Nat /\ s[r].tokenConsumed \in Nat
    /\ s[r].extraReserved \in Nat /\ s[r].walletConsumed \in Nat
    /\ s[r].subPre \in Nat

\* The fields of a typed request are typed.
LEMMA FieldTypes ==
    ASSUME NEW r \in Requests, TypeOK
    PROVE  FieldsTyped(r)
<1>1. info[r] \in InfoType /\ s[r] \in SessionType
  BY ConstantsAssumption DEF TypeOK
<1>2. QED
  BY <1>1 DEF InfoType, SessionType, FieldsTyped

\* The updates the code makes to a session keep it a session.
LEMMA SessionUpdates ==
    ASSUME NEW x \in SessionType, NEW n \in Nat, NEW m \in Nat, NEW k \in Nat,
           NEW b \in BOOLEAN
    PROVE  /\ [x EXCEPT !.tokenConsumed = n] \in SessionType
           /\ [x EXCEPT !.walletConsumed = n] \in SessionType
           /\ [x EXCEPT !.walletConsumed = n, !.preConsumed = n] \in SessionType
           /\ [x EXCEPT !.subPre = n, !.preConsumed = n] \in SessionType
           /\ [x EXCEPT !.preConsumed = n, !.tokenConsumed = m, !.extraReserved = k] \in SessionType
           /\ [x EXCEPT !.settled = TRUE] \in SessionType
           /\ [x EXCEPT !.refunded = TRUE] \in SessionType
           /\ [x EXCEPT !.fundingSettled = TRUE, !.settled = b] \in SessionType
  BY DEF SessionType

\* A fresh session is a session.
LEMMA NewSessions ==
    ASSUME NEW f \in {"none", "wallet", "subscription"}, NEW b \in BOOLEAN
    PROVE  NewSession(f) \in SessionType /\ [NewSession(f) EXCEPT !.trusted = b] \in SessionType
  BY DEF NewSession, SessionType

\* Replacing the session of one request keeps the types.
LEMMA SessionTyped ==
    ASSUME NEW r \in Requests, TypeOK, NEW x \in SessionType, Session(r, x)
    PROVE  s' \in [Requests -> SessionType]
  BY DEF TypeOK, Session

\* The fields of a session the invariant speaks of.
SessionIs(y, funding, pre, tok, ext, wal, sub, settled, refunded, fundingSettled) ==
    /\ y.funding = funding /\ y.preConsumed = pre /\ y.tokenConsumed = tok
    /\ y.extraReserved = ext /\ y.walletConsumed = wal /\ y.subPre = sub
    /\ y.settled = settled /\ y.refunded = refunded /\ y.fundingSettled = fundingSettled

\* The part of the invariant that is about one request.
RequestOK(r) ==
    /\ SessionInv(r)
    /\ Sound /\ r \notin faulty =>
          fundCharged[r] = FundHeld(r) /\ tokenCharged[r] = TokenHeld(r)

\* The subscription row holds at least what request r took from it.
Covers(r) == IsSub(r) => subUsed >= fundCharged[r]

\* A step of request r leaves every other request as it was.
Frame(r) ==
    /\ faulty \subseteq faulty'
    /\ \A q \in Requests \ {r} :
        /\ pc'[q] = pc[q] /\ info'[q] = info[q] /\ amount'[q] = amount[q]
        /\ s'[q] = s[q] /\ actual'[q] = actual[q] /\ attempts'[q] = attempts[q]
        /\ fundCharged'[q] = fundCharged[q] /\ tokenCharged'[q] = tokenCharged[q]
        /\ record'[q] = record[q] /\ (q \in faulty' <=> q \in faulty)

\* The invariant is about one request at a time: what the session state machine
\* does to its own request is all that has to be looked at.
LEMMA FrameLemma ==
    ASSUME NEW r \in Requests, IInv, Frame(r), TypeOK', RequestOK(r)'
    PROVE  IInv'
<1>1. ASSUME NEW q \in Requests PROVE RequestOK(q)'
  <2>1. CASE q = r
    BY <2>1
  <2>2. CASE q # r
    <3>1. RequestOK(q)
      BY DEF IInv, RequestOK, ChargedWhatIsHeld
    <3>2. /\ pc'[q] = pc[q] /\ info'[q] = info[q] /\ amount'[q] = amount[q]
          /\ s'[q] = s[q] /\ actual'[q] = actual[q] /\ attempts'[q] = attempts[q]
          /\ fundCharged'[q] = fundCharged[q] /\ tokenCharged'[q] = tokenCharged[q]
          /\ record'[q] = record[q] /\ (q \in faulty' <=> q \in faulty)
      BY <2>2 DEF Frame
    <3>3. SessionInv(q)'
      BY <3>1, <3>2 DEF RequestOK, SessionInv, Open, IsSub
    <3>4. FundHeld(q)' = FundHeld(q) /\ TokenHeld(q)' = TokenHeld(q)
      BY <3>2 DEF FundHeld, TokenHeld
    <3>5. Sound' => Sound
      BY DEF Frame, Sound
    <3>6. QED
      BY <3>1, <3>2, <3>3, <3>4, <3>5 DEF RequestOK
  <2>3. QED
    BY <2>1, <2>2
<1>2. QED
  BY <1>1 DEF IInv, RequestOK, ChargedWhatIsHeld

----------------------------------------------------------------------------
(* Types: what a statement does to the rows it touches *)

FundsOK ==
    /\ wallet \in Int /\ subUsed \in Nat
    /\ record \in [Requests -> {"none", "consumed", "refunded"}]
    /\ fundCharged \in [Requests -> Int]
TokenOK == tokenRemain \in Int /\ tokenCharged \in [Requests -> Int]
FaultOK == faults \in 0..MaxFaults /\ faulty \subseteq Requests
PcOK == pc \in [Requests -> PCs]
DataOK ==
    /\ tokenStatus \in {"enabled", "exhausted"}
    /\ info \in [Requests -> Infos]
    /\ tokenQuota \in [Requests -> Int]
    /\ amount \in [Requests -> Nat]
    /\ s \in [Requests -> SessionType]
    /\ actual \in [Requests -> Nat]
    /\ attempts \in [Requests -> 0..MaxAttempts]

\* A jump keeps pc typed.
LEMMA GotoTyped ==
    ASSUME NEW r \in Requests, NEW l \in PCs, TypeOK, Goto(r, l)
    PROVE  PcOK'
  BY DEF TypeOK, Goto, PcOK

\* A failed statement stays within the bound on faults.
LEMMA FailsTyped ==
    ASSUME NEW r \in Requests, NEW c, TypeOK, Fails(r, c)
    PROVE  FaultOK'
  BY ConstantsAssumption DEF TypeOK, Fails, FaultOK

\* A statement on the wallet keeps the funds typed.
LEMMA TakeWalletTyped ==
    ASSUME NEW r \in Requests, NEW d \in Int, TypeOK, TakeWallet(r, d)
    PROVE  FundsOK'
  BY DEF TypeOK, TakeWallet, FundsOK

\* A subscription transaction keeps the funds typed; amount_used is clamped at 0.
LEMMA TakeSubTyped ==
    ASSUME NEW r \in Requests, NEW d \in Int, TypeOK, TakeSub(r, d)
    PROVE  FundsOK'
  BY DEF TypeOK, TakeSub, SubAfter, FundsOK

\* Where the row covers a subscription transaction, all of it is charged.
LEMMA TakenExact ==
    ASSUME NEW r \in Requests, NEW d \in Int, TypeOK, subUsed + d >= 0, TakeSub(r, d)
    PROVE  /\ fundCharged' = [fundCharged EXCEPT ![r] = fundCharged[r] + d]
           /\ fundCharged'[r] = fundCharged[r] + d
           /\ record' = record
<1>1. SubAfter(d) - subUsed = d
  BY DEF SubAfter, TypeOK
<1>2. QED
  BY <1>1 DEF TakeSub, TypeOK

\* A statement on the token keeps it typed.
LEMMA TakeTokenTyped ==
    ASSUME NEW r \in Requests, NEW d \in Int, TypeOK, TakeToken(r, d)
    PROVE  TokenOK'
  BY DEF TypeOK, TakeToken, TokenOK

\* What no statement touches keeps its type.
LEMMA UntouchedTyped ==
    ASSUME TypeOK
    PROVE  /\ UNCHANGED funds => FundsOK'
           /\ UNCHANGED token => TokenOK'
           /\ UNCHANGED fault => FaultOK'
  BY DEF TypeOK, funds, token, fault, FundsOK, TokenOK, FaultOK

\* The parts make up TypeOK.
LEMMA TypeParts ==
    ASSUME FundsOK', TokenOK', FaultOK', PcOK', DataOK'
    PROVE  TypeOK'
  BY DEF TypeOK, FundsOK, TokenOK, FaultOK, PcOK, DataOK

----------------------------------------------------------------------------
(* One lemma per action *)

\* Authenticate preserves the invariant and the other requests.
LEMMA AuthenticateOK ==
    ASSUME NEW r \in Requests, IInv, Authenticate(r)
    PROVE  IInv' /\ Frame(r)
<1> USE DEF Authenticate
<1>1. TypeOK /\ RequestOK(r) /\ FieldsTyped(r)
  BY FieldTypes DEF IInv, RequestOK, ChargedWhatIsHeld
<1>2. s' \in [Requests -> SessionType]
  BY <1>1 DEF TypeOK
<1>3. TypeOK'
  <2>1. FundsOK' /\ TokenOK' /\ FaultOK' /\ PcOK'
    BY <1>1, GotoTyped, PCFacts, UntouchedTyped DEF TypeOK, FieldsTyped
  <2>2. DataOK'
    BY <1>1, <1>2 DEF TypeOK, DataOK, rest, FieldsTyped
  <2>3. QED
    BY <2>1, <2>2, TypeParts
<1> USE DEF Session, Goto, funds, rest, token, fault
<1>4. Frame(r)
  BY <1>1 DEF TypeOK, Frame
<1>5. RequestOK(r)'
  BY <1>1, <1>2 DEF TypeOK, SessionType, RequestOK, Sound, SessionInv, FundHeld, TokenHeld,
     PreparePCs, ActivePCs, SettlePCs, RefundPCs, Terminal, RollbackPCs, RaisedPCs, Open, IsSub
<1>6. QED
  BY <1>3, <1>4, <1>5, FrameLemma

\* SelectFunding preserves the invariant and the other requests.
LEMMA SelectFundingOK ==
    ASSUME NEW r \in Requests, IInv, SelectFunding(r)
    PROVE  IInv' /\ Frame(r)
<1> USE DEF SelectFunding, TrySubscription, SubConsume
<1>1. TypeOK /\ RequestOK(r) /\ FieldsTyped(r)
  BY FieldTypes DEF IInv, RequestOK, ChargedWhatIsHeld
<1>2. s' \in [Requests -> SessionType]
  BY <1>1, NewSessions, SessionTyped DEF TypeOK, FieldsTyped
<1>3. TypeOK'
  <2>1. FundsOK' /\ TokenOK' /\ FaultOK' /\ PcOK'
    BY <1>1, GotoTyped, PCFacts, UntouchedTyped DEF TypeOK, FieldsTyped
  <2>2. DataOK'
    BY <1>1, <1>2 DEF TypeOK, DataOK, rest, FieldsTyped
  <2>3. QED
    BY <2>1, <2>2, TypeParts
<1> USE DEF NewSession, Session, Goto, funds, rest, token, fault
<1>4. Frame(r)
  BY <1>1 DEF TypeOK, Frame
<1>5. RequestOK(r)'
  BY <1>1, <1>2 DEF TypeOK, SessionType, RequestOK, Sound, SessionInv, FundHeld, TokenHeld,
     PreparePCs, ActivePCs, SettlePCs, RefundPCs, Terminal, RollbackPCs, RaisedPCs, Open, IsSub
<1>6. QED
  BY <1>3, <1>4, <1>5, FrameLemma

\* WalletCheck preserves the invariant and the other requests.
LEMMA WalletCheckOK ==
    ASSUME NEW r \in Requests, IInv, WalletCheck(r)
    PROVE  IInv' /\ Frame(r)
<1> USE DEF WalletCheck, TrySubscription, SubConsume
<1>1. TypeOK /\ RequestOK(r) /\ FieldsTyped(r)
  BY FieldTypes DEF IInv, RequestOK, ChargedWhatIsHeld
<1>2. s' \in [Requests -> SessionType]
  BY <1>1, NewSessions, SessionTyped DEF ShouldTrust, TypeOK, FieldsTyped
<1>3. TypeOK'
  <2>1. FundsOK' /\ TokenOK' /\ FaultOK' /\ PcOK'
    BY <1>1, GotoTyped, PCFacts, UntouchedTyped DEF TypeOK, FieldsTyped
  <2>2. DataOK'
    BY <1>1, <1>2 DEF TypeOK, DataOK, rest, FieldsTyped, RequestOK, SessionInv, PreparePCs
  <2>3. QED
    BY <2>1, <2>2, TypeParts
<1> USE DEF NewSession, Session, Goto, funds, rest, token, fault
<1>4. Frame(r)
  BY <1>1 DEF TypeOK, Frame
<1>5. RequestOK(r)'
  <2>1. CASE pc'[r] = "token"
    <3>1. \/ s'[r] = NewSession("subscription")
          \/ \E b \in BOOLEAN : s'[r] = [NewSession("wallet") EXCEPT !.trusted = b]
      BY <1>1, <2>1 DEF TypeOK, ShouldTrust
    <3>2. SessionIs(s'[r], s'[r].funding, 0, 0, 0, 0, 0, FALSE, FALSE, FALSE)
      <4>1. CASE s'[r] = NewSession("subscription")
        BY <4>1 DEF NewSession, SessionIs
      <4>2. CASE \E b \in BOOLEAN : s'[r] = [NewSession("wallet") EXCEPT !.trusted = b]
        BY <4>2 DEF NewSession, SessionIs
      <4>3. QED
        BY <3>1, <4>1, <4>2
    <3> HIDE DEF Session
    <3>3. QED
      BY <1>1, <2>1, <3>2 DEF TypeOK, FieldsTyped, RequestOK, Sound, SessionInv, FundHeld, TokenHeld, SessionIs,
         PreparePCs, ActivePCs, SettlePCs, RefundPCs, Terminal, RollbackPCs, RaisedPCs, Open, IsSub
  <2>2. CASE pc'[r] # "token"
    BY <1>1, <2>2 DEF TypeOK, SessionType, FieldsTyped, RequestOK, Sound, SessionInv, FundHeld, TokenHeld,
         PreparePCs, ActivePCs, SettlePCs, RefundPCs, Terminal, RollbackPCs, RaisedPCs, Open, IsSub
  <2>3. QED
    BY <2>1, <2>2
<1>6. QED
  BY <1>3, <1>4, <1>5, FrameLemma

\* Overflow preserves the invariant and the other requests.
LEMMA OverflowOK ==
    ASSUME NEW r \in Requests, IInv, Overflow(r)
    PROVE  IInv' /\ Frame(r)
<1> USE DEF Overflow
<1>1. TypeOK /\ RequestOK(r) /\ FieldsTyped(r)
  BY FieldTypes DEF IInv, RequestOK, ChargedWhatIsHeld
<1>2. s' \in [Requests -> SessionType]
  BY <1>1 DEF TypeOK
<1>3. TypeOK'
  <2>1. FundsOK' /\ TokenOK' /\ FaultOK' /\ PcOK'
    BY <1>1, GotoTyped, PCFacts, UntouchedTyped DEF TypeOK, FieldsTyped
  <2>2. DataOK'
    BY <1>1, <1>2 DEF TypeOK, DataOK, rest, FieldsTyped
  <2>3. QED
    BY <2>1, <2>2, TypeParts
<1> USE DEF Session, Goto, funds, rest, token, fault
<1>4. Frame(r)
  BY <1>1 DEF TypeOK, Frame
<1>5. RequestOK(r)'
  BY <1>1, <1>2 DEF TypeOK, SessionType, RequestOK, Sound, SessionInv, FundHeld, TokenHeld,
     PreparePCs, ActivePCs, SettlePCs, RefundPCs, Terminal, RollbackPCs, RaisedPCs, Open, IsSub
<1>6. QED
  BY <1>3, <1>4, <1>5, FrameLemma

\* QueryFails preserves the invariant and the other requests.
LEMMA QueryFailsOK ==
    ASSUME NEW r \in Requests, IInv, QueryFails(r)
    PROVE  IInv' /\ Frame(r)
<1> USE DEF QueryFails
<1>1. TypeOK /\ RequestOK(r) /\ FieldsTyped(r)
  BY FieldTypes DEF IInv, RequestOK, ChargedWhatIsHeld
<1>2. s' \in [Requests -> SessionType]
  BY <1>1 DEF TypeOK
<1>3. TypeOK'
  <2>1. FundsOK' /\ TokenOK' /\ FaultOK' /\ PcOK'
    BY <1>1, FailsTyped, GotoTyped, PCFacts, UntouchedTyped DEF TypeOK, FieldsTyped
  <2>2. DataOK'
    BY <1>1, <1>2 DEF TypeOK, DataOK, rest, FieldsTyped
  <2>3. QED
    BY <2>1, <2>2, TypeParts
<1> USE DEF Fails, Session, Goto, funds, rest, token, fault
<1>4. Frame(r)
  BY <1>1 DEF TypeOK, Frame
<1>5. RequestOK(r)'
  BY <1>1, <1>2 DEF TypeOK, SessionType, RequestOK, Sound, SessionInv, FundHeld, TokenHeld,
     PreparePCs, ActivePCs, SettlePCs, RefundPCs, Terminal, RollbackPCs, RaisedPCs, Open, IsSub
<1>6. QED
  BY <1>3, <1>4, <1>5, FrameLemma

\* CheckToken preserves the invariant and the other requests.
LEMMA CheckTokenOK ==
    ASSUME NEW r \in Requests, IInv, CheckToken(r)
    PROVE  IInv' /\ Frame(r)
<1> USE DEF CheckToken
<1>1. TypeOK /\ RequestOK(r) /\ FieldsTyped(r)
  BY FieldTypes DEF IInv, RequestOK, ChargedWhatIsHeld
<1>2. s' \in [Requests -> SessionType]
  BY <1>1, SessionUpdates, SessionTyped DEF TypeOK, FieldsTyped
<1>3. TypeOK'
  <2>1. FundsOK' /\ TokenOK' /\ FaultOK' /\ PcOK'
    BY <1>1, GotoTyped, PCFacts, UntouchedTyped DEF TypeOK, FieldsTyped
  <2>2. DataOK'
    BY <1>1, <1>2 DEF TypeOK, DataOK, rest, FieldsTyped
  <2>3. QED
    BY <2>1, <2>2, TypeParts
<1> USE DEF Session, Goto, funds, rest, token, fault
<1>4. Frame(r)
  BY <1>1 DEF TypeOK, Frame
<1>5. RequestOK(r)'
  BY <1>1, <1>2 DEF TypeOK, SessionType, RequestOK, Sound, SessionInv, FundHeld, TokenHeld,
     PreparePCs, ActivePCs, SettlePCs, RefundPCs, Terminal, RollbackPCs, RaisedPCs, Open, IsSub
<1>6. QED
  BY <1>3, <1>4, <1>5, FrameLemma

\* DecreaseToken preserves the invariant and the other requests.
LEMMA DecreaseTokenOK ==
    ASSUME NEW r \in Requests, IInv, DecreaseToken(r)
    PROVE  IInv' /\ Frame(r)
<1> USE DEF DecreaseToken
<1>1. TypeOK /\ RequestOK(r) /\ FieldsTyped(r)
  BY FieldTypes DEF IInv, RequestOK, ChargedWhatIsHeld
<1>2. s' \in [Requests -> SessionType]
  BY <1>1, SessionUpdates, SessionTyped DEF TypeOK, FieldsTyped
<1>3. TypeOK'
  <2>1. FundsOK' /\ TokenOK' /\ FaultOK' /\ PcOK'
    BY <1>1, TakeTokenTyped, FailsTyped, GotoTyped, PCFacts, UntouchedTyped DEF TypeOK, FieldsTyped
  <2>2. DataOK'
    BY <1>1, <1>2 DEF TypeOK, DataOK, rest, FieldsTyped
  <2>3. QED
    BY <2>1, <2>2, TypeParts
<1> USE DEF TakeToken, Fails, Session, Goto, funds, rest, token, fault
<1>4. Frame(r)
  BY <1>1 DEF TypeOK, Frame
<1>5. RequestOK(r)'
  BY <1>1, <1>2 DEF TypeOK, SessionType, RequestOK, Sound, SessionInv, FundHeld, TokenHeld,
     PreparePCs, ActivePCs, SettlePCs, RefundPCs, Terminal, RollbackPCs, RaisedPCs, Open, IsSub
<1>6. QED
  BY <1>3, <1>4, <1>5, FrameLemma

\* PreConsumeWallet preserves the invariant and the other requests.
LEMMA PreConsumeWalletOK ==
    ASSUME NEW r \in Requests, IInv, PreConsumeWallet(r)
    PROVE  IInv' /\ Frame(r)
<1> USE DEF PreConsumeWallet, FundingFailed, AfterFailure
<1>1. TypeOK /\ RequestOK(r) /\ FieldsTyped(r)
  BY FieldTypes DEF IInv, RequestOK, ChargedWhatIsHeld
<1>2. s' \in [Requests -> SessionType]
  BY <1>1, SessionUpdates, SessionTyped DEF TypeOK, FieldsTyped
<1>3. TypeOK'
  <2>1. FundsOK' /\ TokenOK' /\ FaultOK' /\ PcOK'
    BY <1>1, TakeWalletTyped, FailsTyped, GotoTyped, PCFacts, UntouchedTyped DEF TypeOK, FieldsTyped
  <2>2. DataOK'
    BY <1>1, <1>2 DEF TypeOK, DataOK, rest, FieldsTyped
  <2>3. QED
    BY <2>1, <2>2, TypeParts
<1> USE DEF TakeWallet, Fails, Session, Goto, funds, rest, token, fault
<1>4. Frame(r)
  BY <1>1 DEF TypeOK, Frame
<1>5. RequestOK(r)'
  <2>1. CASE pc'[r] = "active"
    <3>1. s'[r] = [s[r] EXCEPT !.walletConsumed = amount[r], !.preConsumed = amount[r]]
      BY <1>1, <2>1 DEF TypeOK
    <3>2. SessionIs(s'[r], s[r].funding, amount[r], s[r].tokenConsumed,
                    s[r].extraReserved, amount[r], s[r].subPre,
                    s[r].settled, s[r].refunded, s[r].fundingSettled)
      <4> HIDE DEF PreConsumeWallet, TakeWallet, Session, Goto
      <4>1. s[r] \in SessionType
        BY <1>1 DEF FieldsTyped
      <4>2. QED
        BY <3>1, <4>1 DEF SessionType, SessionIs
    <3> HIDE DEF Session
    <3>3. QED
      BY <1>1, <2>1, <3>2 DEF TypeOK, FieldsTyped, RequestOK, Sound, SessionInv, FundHeld, TokenHeld, SessionIs,
         PreparePCs, ActivePCs, SettlePCs, RefundPCs, Terminal, RollbackPCs, RaisedPCs, Open, IsSub
  <2>2. CASE pc'[r] # "active"
    BY <1>1, <2>2 DEF TypeOK, SessionType, FieldsTyped, RequestOK, Sound, SessionInv, FundHeld, TokenHeld,
         PreparePCs, ActivePCs, SettlePCs, RefundPCs, Terminal, RollbackPCs, RaisedPCs, Open, IsSub
  <2>3. QED
    BY <2>1, <2>2
<1>6. QED
  BY <1>3, <1>4, <1>5, FrameLemma

\* PreConsumeSub preserves the invariant and the other requests.
LEMMA PreConsumeSubOK ==
    ASSUME NEW r \in Requests, IInv, PreConsumeSub(r)
    PROVE  IInv' /\ Frame(r)
<1> USE DEF PreConsumeSub, FundingFailed, AfterFailure
<1>1. TypeOK /\ RequestOK(r) /\ FieldsTyped(r)
  BY FieldTypes DEF IInv, RequestOK, ChargedWhatIsHeld
<1>2. s' \in [Requests -> SessionType]
  BY <1>1, SessionUpdates, SessionTyped DEF TypeOK, FieldsTyped
<1>3. TypeOK'
  <2>1. FundsOK' /\ TokenOK' /\ FaultOK' /\ PcOK'
    BY <1>1, FailsTyped, GotoTyped, PCFacts, UntouchedTyped DEF TypeOK, FieldsTyped, FundsOK
  <2>2. DataOK'
    BY <1>1, <1>2 DEF TypeOK, DataOK, rest, FieldsTyped
  <2>3. QED
    BY <2>1, <2>2, TypeParts
<1> USE DEF Fails, Session, Goto, funds, rest, token, fault
<1>4. Frame(r)
  BY <1>1 DEF TypeOK, Frame
<1>5. RequestOK(r)'
  <2>1. CASE pc'[r] = "active"
    <3>1. s'[r] = [s[r] EXCEPT !.subPre = amount[r], !.preConsumed = amount[r]]
      BY <1>1, <2>1 DEF TypeOK
    <3>2. SessionIs(s'[r], s[r].funding, amount[r], s[r].tokenConsumed,
                    s[r].extraReserved, s[r].walletConsumed, amount[r],
                    s[r].settled, s[r].refunded, s[r].fundingSettled)
      <4> HIDE DEF PreConsumeSub, Session, Goto
      <4>1. s[r] \in SessionType
        BY <1>1 DEF FieldsTyped
      <4>2. QED
        BY <3>1, <4>1 DEF SessionType, SessionIs
    <3> HIDE DEF Session
    <3>3. QED
      BY <1>1, <2>1, <3>2 DEF TypeOK, FieldsTyped, RequestOK, Sound, SessionInv, FundHeld, TokenHeld, SessionIs,
         PreparePCs, ActivePCs, SettlePCs, RefundPCs, Terminal, RollbackPCs, RaisedPCs, Open, IsSub
  <2>2. CASE pc'[r] # "active"
    BY <1>1, <2>2 DEF TypeOK, SessionType, FieldsTyped, RequestOK, Sound, SessionInv, FundHeld, TokenHeld,
         PreparePCs, ActivePCs, SettlePCs, RefundPCs, Terminal, RollbackPCs, RaisedPCs, Open, IsSub
  <2>3. QED
    BY <2>1, <2>2
<1>6. QED
  BY <1>3, <1>4, <1>5, FrameLemma

\* RollbackToken preserves the invariant and the other requests.
LEMMA RollbackTokenOK ==
    ASSUME NEW r \in Requests, IInv, RollbackToken(r)
    PROVE  IInv' /\ Frame(r)
<1> USE DEF RollbackToken, AfterFailure
<1>1. TypeOK /\ RequestOK(r) /\ FieldsTyped(r)
  BY FieldTypes DEF IInv, RequestOK, ChargedWhatIsHeld
<1>2. s' \in [Requests -> SessionType]
  BY <1>1, SessionUpdates, SessionTyped DEF TypeOK, FieldsTyped
<1>3. TypeOK'
  <2>1. FundsOK' /\ TokenOK' /\ FaultOK' /\ PcOK'
    BY <1>1, TakeTokenTyped, FailsTyped, GotoTyped, PCFacts, UntouchedTyped DEF TypeOK, FieldsTyped
  <2>2. DataOK'
    BY <1>1, <1>2 DEF TypeOK, DataOK, rest, FieldsTyped
  <2>3. QED
    BY <2>1, <2>2, TypeParts
<1> USE DEF TakeToken, Fails, Session, Goto, funds, rest, token, fault
<1>4. Frame(r)
  BY <1>1 DEF TypeOK, Frame
<1>5. RequestOK(r)'
  BY <1>1, <1>2 DEF TypeOK, SessionType, RequestOK, Sound, SessionInv, FundHeld, TokenHeld,
     PreparePCs, ActivePCs, SettlePCs, RefundPCs, Terminal, RollbackPCs, RaisedPCs, Open, IsSub
<1>6. QED
  BY <1>3, <1>4, <1>5, FrameLemma

\* Reserve preserves the invariant and the other requests.
LEMMA ReserveOK ==
    ASSUME NEW r \in Requests, IInv, Reserve(r)
    PROVE  IInv' /\ Frame(r)
<1> USE DEF Reserve
<1>1. TypeOK /\ RequestOK(r) /\ FieldsTyped(r)
  BY FieldTypes DEF IInv, RequestOK, ChargedWhatIsHeld
<1>2. s' \in [Requests -> SessionType]
  BY <1>1 DEF TypeOK
<1>3. TypeOK'
  <2>1. FundsOK' /\ TokenOK' /\ FaultOK' /\ PcOK'
    BY <1>1, GotoTyped, PCFacts, UntouchedTyped DEF TypeOK, FieldsTyped
  <2>2. DataOK'
    BY <1>1, <1>2, ConstantsAssumption DEF TypeOK, DataOK, rest, FieldsTyped
  <2>3. QED
    BY <2>1, <2>2, TypeParts
<1> USE DEF Session, Goto, funds, rest, token, fault
<1>4. Frame(r)
  BY <1>1 DEF TypeOK, Frame
<1>5. RequestOK(r)'
  BY <1>1, <1>2 DEF TypeOK, SessionType, RequestOK, Sound, SessionInv, FundHeld, TokenHeld,
     PreparePCs, ActivePCs, SettlePCs, RefundPCs, Terminal, RollbackPCs, RaisedPCs, Open, IsSub
<1>6. QED
  BY <1>3, <1>4, <1>5, FrameLemma

\* ReserveFunding preserves the invariant and the other requests.
LEMMA ReserveFundingOK ==
    ASSUME NEW r \in Requests, IInv, ReserveFunding(r)
    PROVE  IInv' /\ Frame(r)
<1> USE DEF ReserveFunding
<1>1. TypeOK /\ RequestOK(r) /\ FieldsTyped(r)
  BY FieldTypes DEF IInv, RequestOK, ChargedWhatIsHeld
<1>2. s' \in [Requests -> SessionType]
  <2>1. s[r].walletConsumed + amount[r] \in Nat
    BY <1>1 DEF TypeOK, FieldsTyped
  <2>2. [s[r] EXCEPT !.walletConsumed = s[r].walletConsumed + amount[r]] \in SessionType
    BY <1>1, <2>1, SessionUpdates DEF FieldsTyped
  <2>3. QED
    BY <1>1, <2>2, SessionTyped DEF TypeOK, FieldsTyped
<1>3. TypeOK'
  <2>1. FundsOK' /\ TokenOK' /\ FaultOK' /\ PcOK'
    BY <1>1, TakeWalletTyped, TakeSubTyped, FailsTyped, GotoTyped, PCFacts, UntouchedTyped DEF TypeOK, FieldsTyped
  <2>2. DataOK'
    BY <1>1, <1>2 DEF TypeOK, DataOK, rest, FieldsTyped
  <2>3. QED
    BY <2>1, <2>2, TypeParts
<1> USE DEF TakeWallet, TakeSub, Fails, Session, Goto, funds, rest, token, fault
<1>4. Frame(r)
  BY <1>1 DEF TypeOK, Frame
<1>5. RequestOK(r)'
  <2>1. CASE IsSub(r)
    <3>1. amount[r] \in Nat /\ subUsed + amount[r] >= 0 /\ fundCharged[r] \in Int
      BY <1>1 DEF TypeOK
    <3>2. /\ s' = s /\ pc[r] = "resFund" /\ record' = record
          /\ amount' = amount /\ info' = info /\ attempts' = attempts /\ actual' = actual
          /\ tokenCharged' = tokenCharged
          /\ \/ pc'[r] = "resToken" /\ TakeSub(r, amount[r]) /\ faulty' = faulty
             \/ pc'[r] = "active" /\ fundCharged' = fundCharged
                /\ (faulty' = faulty \/ r \in faulty')
      BY <1>1, <2>1 DEF TypeOK
    <3> HIDE DEF ReserveFunding, TakeSub
    <3>3. TakeSub(r, amount[r]) => fundCharged'[r] = fundCharged[r] + amount[r]
      BY <1>1, <3>1, TakenExact
    <3>4. QED
      BY <1>1, <2>1, <3>1, <3>2, <3>3 DEF FieldsTyped, RequestOK, Sound, SessionInv, FundHeld, TokenHeld,
         PreparePCs, ActivePCs, SettlePCs, RefundPCs, Terminal, RollbackPCs, RaisedPCs, Open, IsSub
  <2>2. CASE ~IsSub(r) /\ pc'[r] = "resToken"
    <3>1. s'[r] = [s[r] EXCEPT !.walletConsumed = s[r].walletConsumed + amount[r]]
      BY <1>1, <2>2 DEF TypeOK
    <3>2. SessionIs(s'[r], s[r].funding, s[r].preConsumed, s[r].tokenConsumed,
                    s[r].extraReserved, s[r].walletConsumed + amount[r], s[r].subPre,
                    s[r].settled, s[r].refunded, s[r].fundingSettled)
      <4> HIDE DEF ReserveFunding, Session, Goto
      <4>1. s[r] \in SessionType
        BY <1>1 DEF FieldsTyped
      <4>2. QED
        BY <3>1, <4>1 DEF SessionType, SessionIs
    <3>3. /\ pc[r] = "resFund" /\ record' = record /\ faulty' = faulty
          /\ amount' = amount /\ info' = info /\ attempts' = attempts /\ actual' = actual
          /\ tokenCharged' = tokenCharged /\ fundCharged'[r] = fundCharged[r] + amount[r]
      BY <1>1, <2>2 DEF TypeOK
    <3> HIDE DEF ReserveFunding, Session
    <3>4. QED
      BY <1>1, <2>2, <3>2, <3>3 DEF TypeOK, FieldsTyped, RequestOK, Sound, SessionInv, FundHeld, TokenHeld,
         SessionIs, PreparePCs, ActivePCs, SettlePCs, RefundPCs, Terminal, RollbackPCs, RaisedPCs, Open, IsSub
  <2>3. CASE ~IsSub(r) /\ pc'[r] # "resToken"
    BY <1>1, <1>2, <2>3 DEF TypeOK, SessionType, RequestOK, Sound, SessionInv, FundHeld, TokenHeld,
       PreparePCs, ActivePCs, SettlePCs, RefundPCs, Terminal, RollbackPCs, RaisedPCs, Open, IsSub
  <2>4. QED
    BY <2>1, <2>2, <2>3
<1>6. QED
  BY <1>3, <1>4, <1>5, FrameLemma

\* ReserveToken preserves the invariant and the other requests.
LEMMA ReserveTokenOK ==
    ASSUME NEW r \in Requests, IInv, ReserveToken(r)
    PROVE  IInv' /\ Frame(r)
<1> USE DEF ReserveToken, Reserved
<1>1. TypeOK /\ RequestOK(r) /\ FieldsTyped(r)
  BY FieldTypes DEF IInv, RequestOK, ChargedWhatIsHeld
<1>2. s' \in [Requests -> SessionType]
  <2>1. /\ s[r].preConsumed + amount[r] \in Nat
        /\ s[r].tokenConsumed + amount[r] \in Nat
        /\ s[r].extraReserved + amount[r] \in Nat
    BY <1>1 DEF TypeOK, FieldsTyped
  <2>2. [s[r] EXCEPT !.preConsumed = s[r].preConsumed + amount[r],
                     !.tokenConsumed = s[r].tokenConsumed + amount[r],
                     !.extraReserved = s[r].extraReserved + amount[r]] \in SessionType
    BY <1>1, <2>1, SessionUpdates DEF FieldsTyped
  <2>3. QED
    BY <1>1, <2>2, SessionTyped DEF TypeOK, FieldsTyped
<1>3. TypeOK'
  <2>1. FundsOK' /\ TokenOK' /\ FaultOK' /\ PcOK'
    BY <1>1, FailsTyped, GotoTyped, PCFacts, UntouchedTyped DEF TypeOK, FieldsTyped
  <2>2. DataOK'
    BY <1>1, <1>2 DEF TypeOK, DataOK, rest, FieldsTyped
  <2>3. QED
    BY <2>1, <2>2, TypeParts
<1> USE DEF Fails, Session, Goto, funds, rest, token, fault
<1>4. Frame(r)
  BY <1>1 DEF TypeOK, Frame
<1>5. RequestOK(r)'
  <2>1. CASE info[r].playground
    <3>1. s'[r] = [s[r] EXCEPT !.preConsumed = s[r].preConsumed + amount[r],
                            !.tokenConsumed = s[r].tokenConsumed + amount[r],
                            !.extraReserved = s[r].extraReserved + amount[r]]
      BY <1>1, <2>1 DEF TypeOK
    <3>2. SessionIs(s'[r], s[r].funding, s[r].preConsumed + amount[r], s[r].tokenConsumed + amount[r],
                    s[r].extraReserved + amount[r], s[r].walletConsumed, s[r].subPre,
                    s[r].settled, s[r].refunded, s[r].fundingSettled)
      <4> HIDE DEF ReserveToken, Reserved, Session, Goto
      <4>1. s[r] \in SessionType
        BY <1>1 DEF FieldsTyped
      <4>2. QED
        BY <3>1, <4>1 DEF SessionType, SessionIs
    <3> HIDE DEF Session
    <3>3. QED
      BY <1>1, <2>1, <3>2 DEF TypeOK, FieldsTyped, RequestOK, Sound, SessionInv, FundHeld, TokenHeld, SessionIs,
         PreparePCs, ActivePCs, SettlePCs, RefundPCs, Terminal, RollbackPCs, RaisedPCs, Open, IsSub
  <2>2. CASE ~info[r].playground
    BY <1>1, <2>2 DEF TypeOK, SessionType, FieldsTyped, RequestOK, Sound, SessionInv, FundHeld, TokenHeld,
         PreparePCs, ActivePCs, SettlePCs, RefundPCs, Terminal, RollbackPCs, RaisedPCs, Open, IsSub
  <2>3. QED
    BY <2>1, <2>2
<1>6. QED
  BY <1>3, <1>4, <1>5, FrameLemma

\* ReserveTokenDecrease preserves the invariant and the other requests.
LEMMA ReserveTokenDecreaseOK ==
    ASSUME NEW r \in Requests, IInv, ReserveTokenDecrease(r)
    PROVE  IInv' /\ Frame(r)
<1> USE DEF ReserveTokenDecrease, Reserved
<1>1. TypeOK /\ RequestOK(r) /\ FieldsTyped(r)
  BY FieldTypes DEF IInv, RequestOK, ChargedWhatIsHeld
<1>2. s' \in [Requests -> SessionType]
  <2>1. /\ s[r].preConsumed + amount[r] \in Nat
        /\ s[r].tokenConsumed + amount[r] \in Nat
        /\ s[r].extraReserved + amount[r] \in Nat
    BY <1>1 DEF TypeOK, FieldsTyped
  <2>2. [s[r] EXCEPT !.preConsumed = s[r].preConsumed + amount[r],
                     !.tokenConsumed = s[r].tokenConsumed + amount[r],
                     !.extraReserved = s[r].extraReserved + amount[r]] \in SessionType
    BY <1>1, <2>1, SessionUpdates DEF FieldsTyped
  <2>3. QED
    BY <1>1, <2>2, SessionTyped DEF TypeOK, FieldsTyped
<1>3. TypeOK'
  <2>1. FundsOK' /\ TokenOK' /\ FaultOK' /\ PcOK'
    BY <1>1, TakeTokenTyped, FailsTyped, GotoTyped, PCFacts, UntouchedTyped DEF TypeOK, FieldsTyped
  <2>2. DataOK'
    BY <1>1, <1>2 DEF TypeOK, DataOK, rest, FieldsTyped
  <2>3. QED
    BY <2>1, <2>2, TypeParts
<1> USE DEF TakeToken, Fails, Session, Goto, funds, rest, token, fault
<1>4. Frame(r)
  BY <1>1 DEF TypeOK, Frame
<1>5. RequestOK(r)'
  <2>1. CASE pc'[r] = "active"
    <3>1. s'[r] = [s[r] EXCEPT !.preConsumed = s[r].preConsumed + amount[r],
                            !.tokenConsumed = s[r].tokenConsumed + amount[r],
                            !.extraReserved = s[r].extraReserved + amount[r]]
      BY <1>1, <2>1 DEF TypeOK
    <3>2. SessionIs(s'[r], s[r].funding, s[r].preConsumed + amount[r], s[r].tokenConsumed + amount[r],
                    s[r].extraReserved + amount[r], s[r].walletConsumed, s[r].subPre,
                    s[r].settled, s[r].refunded, s[r].fundingSettled)
      <4> HIDE DEF ReserveTokenDecrease, Reserved, Session, Goto
      <4>1. s[r] \in SessionType
        BY <1>1 DEF FieldsTyped
      <4>2. QED
        BY <3>1, <4>1 DEF SessionType, SessionIs
    <3> HIDE DEF Session
    <3>3. QED
      BY <1>1, <2>1, <3>2 DEF TypeOK, FieldsTyped, RequestOK, Sound, SessionInv, FundHeld, TokenHeld, SessionIs,
         PreparePCs, ActivePCs, SettlePCs, RefundPCs, Terminal, RollbackPCs, RaisedPCs, Open, IsSub
  <2>2. CASE pc'[r] # "active"
    BY <1>1, <2>2 DEF TypeOK, SessionType, FieldsTyped, RequestOK, Sound, SessionInv, FundHeld, TokenHeld,
         PreparePCs, ActivePCs, SettlePCs, RefundPCs, Terminal, RollbackPCs, RaisedPCs, Open, IsSub
  <2>3. QED
    BY <2>1, <2>2
<1>6. QED
  BY <1>3, <1>4, <1>5, FrameLemma

\* RollbackFundingReserve preserves the invariant and the other requests.
LEMMA RollbackFundingReserveOK ==
    ASSUME NEW r \in Requests, IInv, Sound => Covers(r), RollbackFundingReserve(r)
    PROVE  IInv' /\ Frame(r)
<1> USE DEF RollbackFundingReserve
<1>1. TypeOK /\ RequestOK(r) /\ FieldsTyped(r)
  BY FieldTypes DEF IInv, RequestOK, ChargedWhatIsHeld
<1>2. s' \in [Requests -> SessionType]
  <2>1. ~IsSub(r) => s[r].walletConsumed - amount[r] \in Nat
    BY <1>1 DEF TypeOK, FieldsTyped, RequestOK, SessionInv, RaisedPCs
  <2>2. ~IsSub(r) => [s[r] EXCEPT !.walletConsumed = s[r].walletConsumed - amount[r]] \in SessionType
    BY <1>1, <2>1, SessionUpdates DEF FieldsTyped
  <2>3. QED
    BY <1>1, <2>2, SessionTyped DEF TypeOK, FieldsTyped
<1>3. TypeOK'
  <2>1. FundsOK' /\ TokenOK' /\ FaultOK' /\ PcOK'
    BY <1>1, TakeWalletTyped, TakeSubTyped, FailsTyped, GotoTyped, PCFacts, UntouchedTyped DEF TypeOK, FieldsTyped
  <2>2. DataOK'
    BY <1>1, <1>2 DEF TypeOK, DataOK, rest, FieldsTyped
  <2>3. QED
    BY <2>1, <2>2, TypeParts
<1> USE DEF TakeWallet, TakeSub, Fails, Session, Goto, funds, rest, token, fault
<1>4. Frame(r)
  BY <1>1 DEF TypeOK, Frame
<1>5. RequestOK(r)'
  <2>1. CASE IsSub(r)
    <3>1. ASSUME TakeSub(r, -amount[r]), Sound, r \notin faulty
          PROVE  fundCharged'[r] = fundCharged[r] - amount[r]
      <4>1. fundCharged[r] >= amount[r] /\ amount[r] \in Nat /\ fundCharged[r] \in Int
        BY <1>1, <3>1 DEF RequestOK, FundHeld, TypeOK, FieldsTyped, PreparePCs
      <4>2. subUsed + (-amount[r]) >= 0 /\ -amount[r] \in Int
        BY <1>1, <2>1, <3>1, <4>1 DEF Covers, TypeOK
      <4> HIDE DEF TakeSub
      <4>3. fundCharged'[r] = fundCharged[r] + (-amount[r])
        BY <1>1, <3>1, <4>2, TakenExact
      <4>4. QED
        BY <4>1, <4>3
    <3>2. /\ s' = s /\ pc'[r] = "active" /\ pc[r] = "resRollback"
          /\ amount' = amount /\ info' = info /\ attempts' = attempts /\ actual' = actual
          /\ tokenCharged' = tokenCharged /\ record' = record
          /\ r \notin faulty' => TakeSub(r, -amount[r]) /\ faulty' = faulty
      BY <1>1, <2>1 DEF TypeOK
    <3> HIDE DEF RollbackFundingReserve, TakeSub
    <3>3. QED
      BY <1>1, <2>1, <3>1, <3>2 DEF TypeOK, FieldsTyped, RequestOK, Sound, SessionInv, FundHeld, TokenHeld,
         PreparePCs, ActivePCs, SettlePCs, RefundPCs, Terminal, RollbackPCs, RaisedPCs, Open, IsSub
  <2>2. CASE ~IsSub(r)
    <3>1. /\ pc'[r] = "active" /\ pc[r] = "resRollback"
          /\ amount' = amount /\ info' = info /\ attempts' = attempts /\ actual' = actual
          /\ tokenCharged' = tokenCharged /\ record' = record
      BY <1>1, <2>2 DEF TypeOK
    <3>2. \/ /\ s'[r] = [s[r] EXCEPT !.walletConsumed = s[r].walletConsumed - amount[r]]
             /\ fundCharged'[r] = fundCharged[r] - amount[r] /\ faulty' = faulty
          \/ /\ s'[r] = s[r] /\ fundCharged'[r] = fundCharged[r]
             /\ r \in faulty'
      BY <1>1, <2>2 DEF TypeOK
    <3>3. s'[r].walletConsumed >= s'[r].preConsumed
          /\ (r \notin faulty' => s'[r].walletConsumed = s'[r].preConsumed)
      BY <1>1, <2>2, <3>1, <3>2 DEF TypeOK, FieldsTyped, SessionType, RequestOK, SessionInv, RaisedPCs
    <3>4. /\ s'[r].funding = s[r].funding /\ s'[r].preConsumed = s[r].preConsumed
          /\ s'[r].tokenConsumed = s[r].tokenConsumed
          /\ s'[r].extraReserved = s[r].extraReserved /\ s'[r].subPre = s[r].subPre
          /\ s'[r].settled = s[r].settled /\ s'[r].refunded = s[r].refunded
          /\ s'[r].fundingSettled = s[r].fundingSettled
          /\ amount[r] \in Nat /\ fundCharged[r] \in Int
      BY <1>1, <3>2 DEF TypeOK, FieldsTyped, SessionType
    <3>5. IsSub(r)' <=> IsSub(r)
      BY <3>4 DEF IsSub
    <3> HIDE DEF RollbackFundingReserve, TakeWallet
    <3>6. SessionInv(r)'
      <4>1. /\ Open(r)' /\ s'[r].tokenConsumed = s'[r].preConsumed /\ attempts'[r] = 0
            /\ record'[r] = "refunded" => r \in faulty
        BY <1>1, <3>1, <3>4 DEF RequestOK, SessionInv, Open, ActivePCs, RefundPCs, Terminal
      <4>2. faulty \subseteq faulty'
        BY <1>1 DEF RollbackFundingReserve
      <4>3. QED
        BY <2>2, <3>1, <3>3, <3>5, <4>1, <4>2 DEF SessionInv,
           PreparePCs, ActivePCs, SettlePCs, RefundPCs, Terminal, RollbackPCs, RaisedPCs
    <3>7. Sound' /\ r \notin faulty' => fundCharged'[r] = FundHeld(r)' /\ tokenCharged'[r] = TokenHeld(r)'
      BY <1>1, <2>2, <3>1, <3>2, <3>4, <3>5 DEF FieldsTyped, RequestOK, Sound, FundHeld, TokenHeld,
         PreparePCs, ActivePCs, SettlePCs, RefundPCs, Terminal, RollbackPCs, RaisedPCs
    <3>8. QED
      BY <3>6, <3>7 DEF RequestOK
  <2>3. QED
    BY <2>1, <2>2
<1>6. QED
  BY <1>3, <1>4, <1>5, FrameLemma

\* Settle preserves the invariant and the other requests.
LEMMA SettleOK ==
    ASSUME NEW r \in Requests, IInv, Settle(r)
    PROVE  IInv' /\ Frame(r)
<1> USE DEF Settle
<1>1. TypeOK /\ RequestOK(r) /\ FieldsTyped(r)
  BY FieldTypes DEF IInv, RequestOK, ChargedWhatIsHeld
<1>2. s' \in [Requests -> SessionType]
  BY <1>1, SessionUpdates, SessionTyped DEF TypeOK, FieldsTyped
<1>3. TypeOK'
  <2>1. FundsOK' /\ TokenOK' /\ FaultOK' /\ PcOK'
    BY <1>1, GotoTyped, PCFacts, UntouchedTyped DEF TypeOK, FieldsTyped
  <2>2. DataOK'
    BY <1>1, <1>2, ConstantsAssumption DEF TypeOK, DataOK, rest, FieldsTyped
  <2>3. QED
    BY <2>1, <2>2, TypeParts
<1> USE DEF Session, Goto, funds, rest, token, fault
<1>4. Frame(r)
  BY <1>1 DEF TypeOK, Frame
<1>5. RequestOK(r)'
  BY <1>1, <1>2 DEF TypeOK, SessionType, RequestOK, Sound, SessionInv, FundHeld, TokenHeld,
     PreparePCs, ActivePCs, SettlePCs, RefundPCs, Terminal, RollbackPCs, RaisedPCs, Open, IsSub
<1>6. QED
  BY <1>3, <1>4, <1>5, FrameLemma

\* SettleFunding preserves the invariant and the other requests.
LEMMA SettleFundingOK ==
    ASSUME NEW r \in Requests, IInv, Sound => Covers(r), SettleFunding(r)
    PROVE  IInv' /\ Frame(r)
<1> USE DEF SettleFunding, Delta
<1>1. TypeOK /\ RequestOK(r) /\ FieldsTyped(r)
  BY FieldTypes DEF IInv, RequestOK, ChargedWhatIsHeld
<1>2. s' \in [Requests -> SessionType]
  BY <1>1, SessionUpdates, SessionTyped DEF TypeOK, FieldsTyped
<1>3. TypeOK'
  <2>1. FundsOK' /\ TokenOK' /\ FaultOK' /\ PcOK'
    BY <1>1, TakeWalletTyped, TakeSubTyped, FailsTyped, GotoTyped, PCFacts, UntouchedTyped DEF TypeOK, FieldsTyped
  <2>2. DataOK'
    BY <1>1, <1>2 DEF TypeOK, DataOK, rest, FieldsTyped
  <2>3. QED
    BY <2>1, <2>2, TypeParts
<1> USE DEF TakeWallet, TakeSub, Fails, Session, Goto, funds, rest, token, fault
<1>4. Frame(r)
  BY <1>1 DEF TypeOK, Frame
<1>5. RequestOK(r)'
  <2>1. CASE /\ IF IsSub(r) THEN TakeSub(r, Delta(r)) ELSE TakeWallet(r, Delta(r))
            /\ Session(r, [s[r] EXCEPT !.fundingSettled = TRUE, !.settled = info[r].playground])
            /\ Goto(r, IF info[r].playground THEN "done" ELSE "settleToken")
            /\ UNCHANGED fault
    <3>1. s'[r] = [s[r] EXCEPT !.fundingSettled = TRUE, !.settled = info[r].playground]
      BY <1>1, <2>1 DEF TypeOK
    <3>2. SessionIs(s'[r], s[r].funding, s[r].preConsumed, s[r].tokenConsumed,
                    s[r].extraReserved, s[r].walletConsumed, s[r].subPre,
                    info[r].playground, s[r].refunded, TRUE)
      <4> HIDE DEF SettleFunding, Session, Goto
      <4>1. s[r] \in SessionType
        BY <1>1 DEF FieldsTyped
      <4>2. QED
        BY <3>1, <4>1 DEF SessionType, SessionIs
    <3>3. ASSUME Sound, r \notin faulty
          PROVE  fundCharged'[r] = actual[r]
      <4>1. /\ fundCharged[r] = s[r].preConsumed /\ actual[r] \in Nat /\ s[r].preConsumed \in Nat
            /\ fundCharged[r] \in Int /\ Delta(r) \in Int
        BY <1>1, <3>3 DEF RequestOK, FundHeld, TypeOK, FieldsTyped, PreparePCs
      <4>2. CASE ~IsSub(r)
        BY <1>1, <2>1, <4>1, <4>2 DEF TypeOK
      <4>3. CASE IsSub(r)
        <5>1. subUsed + Delta(r) >= 0
          BY <1>1, <3>3, <4>1, <4>3 DEF Covers, TypeOK
        <5> HIDE DEF TakeSub, Delta
        <5>2. fundCharged'[r] = fundCharged[r] + Delta(r)
          BY <1>1, <2>1, <4>1, <4>3, <5>1, TakenExact
        <5>3. QED
          BY <4>1, <5>2 DEF Delta
      <4>4. QED
        BY <4>2, <4>3
    <3>4. /\ record' = record /\ faulty' = faulty /\ tokenCharged' = tokenCharged
          /\ amount' = amount /\ info' = info /\ attempts' = attempts /\ actual' = actual
          /\ pc'[r] = (IF info[r].playground THEN "done" ELSE "settleToken")
          /\ pc[r] = "settleFund"
      BY <1>1, <2>1 DEF TypeOK
    <3> HIDE DEF Session, SettleFunding, TakeSub, TakeWallet
    <3>5. QED
      BY <1>1, <3>2, <3>3, <3>4 DEF TypeOK, FieldsTyped, RequestOK, Sound, SessionInv, FundHeld, TokenHeld,
         SessionIs, PreparePCs, ActivePCs, SettlePCs, RefundPCs, Terminal, RollbackPCs, RaisedPCs, Open,
         IsSub
  <2>2. CASE Goto(r, "done") /\ UNCHANGED <<funds, s>> /\ (UNCHANGED fault \/ \E c : Fails(r, c))
    BY <1>1, <2>2 DEF TypeOK, SessionType, FieldsTyped, RequestOK, Sound, SessionInv, FundHeld, TokenHeld,
         PreparePCs, ActivePCs, SettlePCs, RefundPCs, Terminal, RollbackPCs, RaisedPCs, Open, IsSub
  <2>3. QED
    BY <2>1, <2>2
<1>6. QED
  BY <1>3, <1>4, <1>5, FrameLemma

\* SettleToken preserves the invariant and the other requests.
LEMMA SettleTokenOK ==
    ASSUME NEW r \in Requests, IInv, SettleToken(r)
    PROVE  IInv' /\ Frame(r)
<1> USE DEF SettleToken, Delta
<1>1. TypeOK /\ RequestOK(r) /\ FieldsTyped(r)
  BY FieldTypes DEF IInv, RequestOK, ChargedWhatIsHeld
<1>2. s' \in [Requests -> SessionType]
  BY <1>1, SessionUpdates, SessionTyped DEF TypeOK, FieldsTyped
<1>3. TypeOK'
  <2>1. FundsOK' /\ TokenOK' /\ FaultOK' /\ PcOK'
    BY <1>1, TakeTokenTyped, FailsTyped, GotoTyped, PCFacts, UntouchedTyped DEF TypeOK, FieldsTyped
  <2>2. DataOK'
    BY <1>1, <1>2 DEF TypeOK, DataOK, rest, FieldsTyped
  <2>3. QED
    BY <2>1, <2>2, TypeParts
<1> USE DEF TakeToken, Fails, Session, Goto, funds, rest, token, fault
<1>4. Frame(r)
  BY <1>1 DEF TypeOK, Frame
<1>5. RequestOK(r)'
  BY <1>1, <1>2 DEF TypeOK, SessionType, RequestOK, Sound, SessionInv, FundHeld, TokenHeld,
     PreparePCs, ActivePCs, SettlePCs, RefundPCs, Terminal, RollbackPCs, RaisedPCs, Open, IsSub
<1>6. QED
  BY <1>3, <1>4, <1>5, FrameLemma

\* Refund preserves the invariant and the other requests.
LEMMA RefundOK ==
    ASSUME NEW r \in Requests, IInv, Refund(r)
    PROVE  IInv' /\ Frame(r)
<1> USE DEF Refund, NeedsRefund
<1>1. TypeOK /\ RequestOK(r) /\ FieldsTyped(r)
  BY FieldTypes DEF IInv, RequestOK, ChargedWhatIsHeld
<1>2. s' \in [Requests -> SessionType]
  BY <1>1, SessionUpdates, SessionTyped DEF TypeOK, FieldsTyped
<1>3. TypeOK'
  <2>1. FundsOK' /\ TokenOK' /\ FaultOK' /\ PcOK'
    BY <1>1, GotoTyped, PCFacts, UntouchedTyped DEF TypeOK, FieldsTyped
  <2>2. DataOK'
    BY <1>1, <1>2 DEF TypeOK, DataOK, rest, FieldsTyped
  <2>3. QED
    BY <2>1, <2>2, TypeParts
<1> USE DEF Session, Goto, funds, rest, token, fault
<1>4. Frame(r)
  BY <1>1 DEF TypeOK, Frame
<1>5. RequestOK(r)'
  <2>1. CASE NeedsRefund(r)
    <3>1. s'[r] = [s[r] EXCEPT !.refunded = TRUE]
      BY <1>1, <2>1 DEF TypeOK
    <3>2. SessionIs(s'[r], s[r].funding, s[r].preConsumed, s[r].tokenConsumed,
                    s[r].extraReserved, s[r].walletConsumed, s[r].subPre,
                    s[r].settled, TRUE, s[r].fundingSettled)
      <4> HIDE DEF Refund, Session, Goto
      <4>1. s[r] \in SessionType
        BY <1>1 DEF FieldsTyped
      <4>2. QED
        BY <3>1, <4>1 DEF SessionType, SessionIs
    <3>3. pc[r] = "active" /\ pc'[r] = "refFund" /\ UNCHANGED <<funds, token, rest, fault, amount>>
      BY <1>1, <2>1 DEF TypeOK
    <3> HIDE DEF Refund, NeedsRefund, Session, Goto
    <3>4. QED
      BY <1>1, <3>2, <3>3 DEF TypeOK, FieldsTyped, RequestOK, Sound, SessionInv, FundHeld, TokenHeld, SessionIs,
         PreparePCs, ActivePCs, SettlePCs, RefundPCs, Terminal, RollbackPCs, RaisedPCs, Open, IsSub, MaxAttempts
  <2>2. CASE ~NeedsRefund(r)
    BY <1>1, <2>2 DEF TypeOK, SessionType, FieldsTyped, RequestOK, Sound, SessionInv, FundHeld, TokenHeld,
         PreparePCs, ActivePCs, SettlePCs, RefundPCs, Terminal, RollbackPCs, RaisedPCs, Open, IsSub
  <2>3. QED
    BY <2>1, <2>2
<1>6. QED
  BY <1>3, <1>4, <1>5, FrameLemma

\* RefundWallet preserves the invariant and the other requests.
LEMMA RefundWalletOK ==
    ASSUME NEW r \in Requests, IInv, RefundWallet(r)
    PROVE  IInv' /\ Frame(r)
<1> USE DEF RefundWallet
<1>1. TypeOK /\ RequestOK(r) /\ FieldsTyped(r)
  BY FieldTypes DEF IInv, RequestOK, ChargedWhatIsHeld
<1>2. s' \in [Requests -> SessionType]
  BY <1>1 DEF TypeOK
<1>3. TypeOK'
  <2>1. FundsOK' /\ TokenOK' /\ FaultOK' /\ PcOK'
    BY <1>1, TakeWalletTyped, FailsTyped, GotoTyped, PCFacts, UntouchedTyped DEF TypeOK, FieldsTyped
  <2>2. DataOK'
    BY <1>1, <1>2 DEF TypeOK, DataOK, rest, FieldsTyped
  <2>3. QED
    BY <2>1, <2>2, TypeParts
<1> USE DEF TakeWallet, Fails, Session, Goto, funds, rest, token, fault
<1>4. Frame(r)
  BY <1>1 DEF TypeOK, Frame
<1>5. RequestOK(r)'
  BY <1>1, <1>2 DEF TypeOK, SessionType, RequestOK, Sound, SessionInv, FundHeld, TokenHeld,
     PreparePCs, ActivePCs, SettlePCs, RefundPCs, Terminal, RollbackPCs, RaisedPCs, Open, IsSub
<1>6. QED
  BY <1>3, <1>4, <1>5, FrameLemma

\* RefundSub preserves the invariant and the other requests.
LEMMA RefundSubOK ==
    ASSUME NEW r \in Requests, IInv, Sound => Covers(r), RefundSub(r)
    PROVE  IInv' /\ Frame(r)
<1> USE DEF RefundSub, Retry
<1>1. TypeOK /\ RequestOK(r) /\ FieldsTyped(r)
  BY FieldTypes DEF IInv, RequestOK, ChargedWhatIsHeld
<1>2. s' \in [Requests -> SessionType]
  BY <1>1 DEF TypeOK
<1>3. TypeOK'
  <2>1. FundsOK' /\ TokenOK' /\ FaultOK' /\ PcOK'
    BY <1>1, TakeSubTyped, FailsTyped, GotoTyped, PCFacts, UntouchedTyped DEF TypeOK, FieldsTyped
  <2>2. DataOK'
    BY <1>1, <1>2 DEF TypeOK, DataOK, FieldsTyped, RequestOK, SessionInv, MaxAttempts
  <2>3. QED
    BY <2>1, <2>2, TypeParts
<1> USE DEF TakeSub, Fails, Session, Goto, funds, rest, token, fault
<1>4. Frame(r)
  BY <1>1 DEF TypeOK, Frame
<1>5. RequestOK(r)'
  <2>1. CASE r \in faulty'
    BY <1>1, <2>1 DEF TypeOK, SessionType, FieldsTyped, RequestOK, Sound, SessionInv, FundHeld, TokenHeld,
         PreparePCs, ActivePCs, SettlePCs, RefundPCs, Terminal, RollbackPCs, RaisedPCs, Open, IsSub
  <2>2. CASE r \notin faulty'
    <3>1. ASSUME TakeSub(r, -s[r].subPre), Sound
          PROVE  fundCharged'[r] = s[r].extraReserved
      <4>1. /\ fundCharged[r] = s[r].subPre + s[r].extraReserved
            /\ s[r].subPre \in Nat /\ s[r].extraReserved \in Nat /\ -s[r].subPre \in Int
        BY <1>1, <2>2, <3>1 DEF RequestOK, FundHeld, SessionInv, RefundPCs, FieldsTyped, PreparePCs
      <4>2. subUsed + (-s[r].subPre) >= 0
        BY <1>1, <3>1, <4>1 DEF Covers, TypeOK
      <4> HIDE DEF TakeSub
      <4>3. fundCharged'[r] = fundCharged[r] + (-s[r].subPre)
        BY <1>1, <3>1, <4>1, <4>2, TakenExact
      <4>4. QED
        BY <4>1, <4>3
    <3>2. /\ s' = s /\ pc[r] = "refFund" /\ IsSub(r) /\ faulty' = faulty
          /\ amount' = amount /\ info' = info /\ attempts' = attempts /\ actual' = actual
          /\ tokenCharged' = tokenCharged /\ record' = record
          /\ \/ pc'[r] = "refRecord" /\ TakeSub(r, -s[r].subPre) /\ record[r] = "consumed"
             \/ pc'[r] = "refExtra" /\ record[r] = "refunded"
      BY <1>1, <2>2 DEF TypeOK
    <3> HIDE DEF RefundSub, TakeSub
    <3>3. QED
      BY <1>1, <2>2, <3>1, <3>2 DEF TypeOK, FieldsTyped, RequestOK, Sound, SessionInv, FundHeld, TokenHeld,
         PreparePCs, ActivePCs, SettlePCs, RefundPCs, Terminal, RollbackPCs, RaisedPCs, Open, IsSub
  <2>3. QED
    BY <2>1, <2>2
<1>6. QED
  BY <1>3, <1>4, <1>5, FrameLemma

\* RefundRecord preserves the invariant and the other requests.
LEMMA RefundRecordOK ==
    ASSUME NEW r \in Requests, IInv, RefundRecord(r)
    PROVE  IInv' /\ Frame(r)
<1> USE DEF RefundRecord, Retry
<1>1. TypeOK /\ RequestOK(r) /\ FieldsTyped(r)
  BY FieldTypes DEF IInv, RequestOK, ChargedWhatIsHeld
<1>2. s' \in [Requests -> SessionType]
  BY <1>1 DEF TypeOK
<1>3. TypeOK'
  <2>1. FundsOK' /\ TokenOK' /\ FaultOK' /\ PcOK'
    BY <1>1, FailsTyped, GotoTyped, PCFacts, UntouchedTyped DEF TypeOK, FieldsTyped, FundsOK
  <2>2. DataOK'
    BY <1>1, <1>2 DEF TypeOK, DataOK, FieldsTyped, RequestOK, SessionInv, MaxAttempts
  <2>3. QED
    BY <2>1, <2>2, TypeParts
<1> USE DEF Fails, Session, Goto, funds, rest, token, fault
<1>4. Frame(r)
  BY <1>1 DEF TypeOK, Frame
<1>5. RequestOK(r)'
  BY <1>1, <1>2 DEF TypeOK, SessionType, RequestOK, Sound, SessionInv, FundHeld, TokenHeld,
     PreparePCs, ActivePCs, SettlePCs, RefundPCs, Terminal, RollbackPCs, RaisedPCs, Open, IsSub
<1>6. QED
  BY <1>3, <1>4, <1>5, FrameLemma

\* RefundExtra preserves the invariant and the other requests.
LEMMA RefundExtraOK ==
    ASSUME NEW r \in Requests, IInv, Sound => Covers(r), RefundExtra(r)
    PROVE  IInv' /\ Frame(r)
<1> USE DEF RefundExtra
<1>1. TypeOK /\ RequestOK(r) /\ FieldsTyped(r)
  BY FieldTypes DEF IInv, RequestOK, ChargedWhatIsHeld
<1>2. s' \in [Requests -> SessionType]
  BY <1>1 DEF TypeOK
<1>3. TypeOK'
  <2>1. FundsOK' /\ TokenOK' /\ FaultOK' /\ PcOK'
    BY <1>1, TakeSubTyped, FailsTyped, GotoTyped, PCFacts, UntouchedTyped DEF TypeOK, FieldsTyped
  <2>2. DataOK'
    BY <1>1, <1>2 DEF TypeOK, DataOK, rest, FieldsTyped
  <2>3. QED
    BY <2>1, <2>2, TypeParts
<1> USE DEF TakeSub, Fails, Session, Goto, funds, rest, token, fault
<1>4. Frame(r)
  BY <1>1 DEF TypeOK, Frame
<1>5. RequestOK(r)'
  <2>1. ASSUME TakeSub(r, -s[r].extraReserved), Sound, r \notin faulty
        PROVE  fundCharged'[r] = 0
    <3>1. /\ fundCharged[r] = s[r].extraReserved /\ s[r].extraReserved \in Nat
          /\ -s[r].extraReserved \in Int /\ IsSub(r)
      BY <1>1, <2>1 DEF RequestOK, FundHeld, SessionInv, FieldsTyped, PreparePCs
    <3>2. subUsed + (-s[r].extraReserved) >= 0
      BY <1>1, <2>1, <3>1 DEF Covers, TypeOK
    <3> HIDE DEF TakeSub
    <3>3. fundCharged'[r] = fundCharged[r] + (-s[r].extraReserved)
      BY <1>1, <2>1, <3>1, <3>2, TakenExact
    <3>4. QED
      BY <3>1, <3>3
  <2>2. /\ s' = s /\ pc[r] = "refExtra" /\ pc'[r] = "refToken"
        /\ amount' = amount /\ info' = info /\ attempts' = attempts /\ actual' = actual
        /\ tokenCharged' = tokenCharged /\ record' = record
        /\ r \notin faulty' =>
              /\ faulty' = faulty
              /\ \/ TakeSub(r, -s[r].extraReserved)
                 \/ s[r].extraReserved = 0 /\ fundCharged' = fundCharged
    BY <1>1 DEF TypeOK
  <2> HIDE DEF RefundExtra, TakeSub
  <2>3. QED
    BY <1>1, <2>1, <2>2 DEF TypeOK, FieldsTyped, RequestOK, Sound, SessionInv, FundHeld, TokenHeld,
       PreparePCs, ActivePCs, SettlePCs, RefundPCs, Terminal, RollbackPCs, RaisedPCs, Open, IsSub
<1>6. QED
  BY <1>3, <1>4, <1>5, FrameLemma

\* RefundToken preserves the invariant and the other requests.
LEMMA RefundTokenOK ==
    ASSUME NEW r \in Requests, IInv, RefundToken(r)
    PROVE  IInv' /\ Frame(r)
<1> USE DEF RefundToken
<1>1. TypeOK /\ RequestOK(r) /\ FieldsTyped(r)
  BY FieldTypes DEF IInv, RequestOK, ChargedWhatIsHeld
<1>2. s' \in [Requests -> SessionType]
  BY <1>1 DEF TypeOK
<1>3. TypeOK'
  <2>1. FundsOK' /\ TokenOK' /\ FaultOK' /\ PcOK'
    BY <1>1, TakeTokenTyped, FailsTyped, GotoTyped, PCFacts, UntouchedTyped DEF TypeOK, FieldsTyped
  <2>2. DataOK'
    BY <1>1, <1>2 DEF TypeOK, DataOK, rest, FieldsTyped
  <2>3. QED
    BY <2>1, <2>2, TypeParts
<1> USE DEF TakeToken, Fails, Session, Goto, funds, rest, token, fault
<1>4. Frame(r)
  BY <1>1 DEF TypeOK, Frame
<1>5. RequestOK(r)'
  BY <1>1, <1>2 DEF TypeOK, SessionType, RequestOK, Sound, SessionInv, FundHeld, TokenHeld,
     PreparePCs, ActivePCs, SettlePCs, RefundPCs, Terminal, RollbackPCs, RaisedPCs, Open, IsSub
<1>6. QED
  BY <1>3, <1>4, <1>5, FrameLemma

\* Crash preserves the invariant and the other requests.
LEMMA CrashOK ==
    ASSUME NEW r \in Requests, IInv, Crash(r)
    PROVE  IInv' /\ Frame(r)
<1> USE DEF Crash
<1>1. TypeOK /\ RequestOK(r) /\ FieldsTyped(r)
  BY FieldTypes DEF IInv, RequestOK, ChargedWhatIsHeld
<1>2. s' \in [Requests -> SessionType]
  BY <1>1 DEF TypeOK
<1>3. TypeOK'
  <2>1. FundsOK' /\ TokenOK' /\ FaultOK' /\ PcOK'
    BY <1>1, FailsTyped, GotoTyped, PCFacts, UntouchedTyped DEF TypeOK, FieldsTyped
  <2>2. DataOK'
    BY <1>1, <1>2 DEF TypeOK, DataOK, rest, FieldsTyped
  <2>3. QED
    BY <2>1, <2>2, TypeParts
<1> USE DEF Fails, Session, Goto, funds, rest, token, fault
<1>4. Frame(r)
  BY <1>1 DEF TypeOK, Frame
<1>5. RequestOK(r)'
  <2>1. pc'[r] = "crashed" /\ r \in faulty' /\ s'[r] = s[r] /\ info'[r] = info[r]
    BY <1>1 DEF TypeOK
  <2>2. ~(s[r].refunded /\ (s[r].settled \/ s[r].fundingSettled))
    BY <1>1 DEF RequestOK, SessionInv, TypeOK, PCs, PreparePCs, ActivePCs, SettlePCs, RefundPCs,
       Terminal, Open
  <2>3. QED
    BY <2>1, <2>2 DEF RequestOK, SessionInv, PreparePCs, ActivePCs, SettlePCs, RefundPCs,
       Terminal, RollbackPCs, RaisedPCs
<1>6. QED
  BY <1>3, <1>4, <1>5, FrameLemma

----------------------------------------------------------------------------
(* The part about single requests *)

\* The invariant holds before any request runs.
LEMMA InitOK == Init => IInv
<1> SUFFICES ASSUME Init PROVE IInv
  OBVIOUS
<1>1. NewSession("none") \in SessionType
  BY NewSessions
<1>2. TypeOK
  BY <1>1, ConstantsAssumption DEF Init, TypeOK, PCs, PreparePCs, MaxAttempts
<1>3. ASSUME NEW r \in Requests PROVE SessionInv(r) /\ FundHeld(r) = 0 /\ TokenHeld(r) = 0
  <2>1. pc[r] = "auth" /\ s[r] = NewSession("none") /\ attempts[r] = 0 /\ record[r] = "none"
    BY DEF Init
  <2>2. QED
    BY <2>1 DEF SessionInv, FundHeld, TokenHeld, NewSession, Open, IsSub, PreparePCs, ActivePCs,
       SettlePCs, RefundPCs, Terminal, RollbackPCs, RaisedPCs, MaxAttempts
<1>4. QED
  BY <1>2, <1>3 DEF IInv, ChargedWhatIsHeld, Init

\* Every step of a request, and its crash, preserves the invariant and the other requests.
LEMMA StepOK ==
    ASSUME NEW r \in Requests, IInv, Sound => Covers(r), Step(r) \/ Crash(r)
    PROVE  IInv' /\ Frame(r)
<1>1. CASE PreConsumeStep(r)
  BY <1>1, AuthenticateOK, SelectFundingOK, WalletCheckOK, OverflowOK, QueryFailsOK,
     CheckTokenOK, DecreaseTokenOK, PreConsumeWalletOK, PreConsumeSubOK, RollbackTokenOK
     DEF PreConsumeStep
<1>2. CASE ReserveStep(r)
  BY <1>2, ReserveOK, ReserveFundingOK, ReserveTokenOK, ReserveTokenDecreaseOK,
     RollbackFundingReserveOK DEF ReserveStep
<1>3. CASE SettleStep(r)
  BY <1>3, SettleOK, SettleFundingOK, SettleTokenOK DEF SettleStep
<1>4. CASE RefundStep(r)
  BY <1>4, RefundOK, RefundWalletOK, RefundSubOK, RefundRecordOK, RefundExtraOK, RefundTokenOK
     DEF RefundStep
<1>5. CASE Crash(r)
  BY <1>5, CrashOK
<1>6. QED
  BY <1>1, <1>2, <1>3, <1>4, <1>5 DEF Step

\* Stuttering preserves the invariant.
LEMMA StutterOK ==
    ASSUME IInv, UNCHANGED vars
    PROVE  IInv'
<1>1. TypeOK'
  BY DEF IInv, TypeOK, vars, db, fault, hist
<1>2. ASSUME NEW r \in Requests PROVE RequestOK(r)'
  <2>1. SessionInv(r)'
    BY DEF IInv, SessionInv, Open, IsSub, vars, db, fault, hist
  <2>2. FundHeld(r)' = FundHeld(r) /\ TokenHeld(r)' = TokenHeld(r)
    BY DEF FundHeld, TokenHeld, vars
  <2>3. QED
    BY <2>1, <2>2 DEF IInv, ChargedWhatIsHeld, RequestOK, Sound, vars, hist, fault
<1>3. QED
  BY <1>1, <1>2 DEF IInv, RequestOK, ChargedWhatIsHeld

----------------------------------------------------------------------------
(* What a request has paid at least *)

\* The session of a request after an assignment to some of its fields.
LEMMA SessionFields ==
    ASSUME NEW r \in Requests, TypeOK, NEW n, NEW m, NEW k, NEW b
    PROVE  /\ Session(r, NewSession("subscription")) =>
                SessionIs(s'[r], "subscription", 0, 0, 0, 0, 0, FALSE, FALSE, FALSE)
           /\ Session(r, [NewSession("wallet") EXCEPT !.trusted = b]) =>
                SessionIs(s'[r], "wallet", 0, 0, 0, 0, 0, FALSE, FALSE, FALSE)
           /\ Session(r, [s[r] EXCEPT !.walletConsumed = n, !.preConsumed = n]) =>
                SessionIs(s'[r], s[r].funding, n, s[r].tokenConsumed, s[r].extraReserved, n,
                          s[r].subPre, s[r].settled, s[r].refunded, s[r].fundingSettled)
           /\ Session(r, [s[r] EXCEPT !.subPre = n, !.preConsumed = n]) =>
                SessionIs(s'[r], s[r].funding, n, s[r].tokenConsumed, s[r].extraReserved,
                          s[r].walletConsumed, n, s[r].settled, s[r].refunded, s[r].fundingSettled)
           /\ Session(r, [s[r] EXCEPT !.walletConsumed = n]) =>
                SessionIs(s'[r], s[r].funding, s[r].preConsumed, s[r].tokenConsumed,
                          s[r].extraReserved, n, s[r].subPre, s[r].settled, s[r].refunded,
                          s[r].fundingSettled)
           /\ Session(r, [s[r] EXCEPT !.preConsumed = n, !.tokenConsumed = m, !.extraReserved = k]) =>
                SessionIs(s'[r], s[r].funding, n, m, k, s[r].walletConsumed, s[r].subPre,
                          s[r].settled, s[r].refunded, s[r].fundingSettled)
           /\ Session(r, [s[r] EXCEPT !.refunded = TRUE]) =>
                SessionIs(s'[r], s[r].funding, s[r].preConsumed, s[r].tokenConsumed,
                          s[r].extraReserved, s[r].walletConsumed, s[r].subPre, s[r].settled, TRUE,
                          s[r].fundingSettled)
           /\ Session(r, [s[r] EXCEPT !.fundingSettled = TRUE, !.settled = b]) =>
                SessionIs(s'[r], s[r].funding, s[r].preConsumed, s[r].tokenConsumed,
                          s[r].extraReserved, s[r].walletConsumed, s[r].subPre, b, s[r].refunded,
                          TRUE)
           /\ UNCHANGED s =>
                SessionIs(s'[r], s[r].funding, s[r].preConsumed, s[r].tokenConsumed,
                          s[r].extraReserved, s[r].walletConsumed, s[r].subPre, s[r].settled,
                          s[r].refunded, s[r].fundingSettled)
<1>1. s \in [Requests -> SessionType] /\ s[r] \in SessionType
  BY DEF TypeOK
<1>2. ASSUME NEW x, Session(r, x)
      PROVE  s'[r] = x
  BY <1>1, <1>2 DEF Session
<1>3. ASSUME Session(r, NewSession("subscription"))
      PROVE   SessionIs(s'[r], "subscription", 0, 0, 0, 0, 0, FALSE, FALSE, FALSE)
  <2>1. s'[r] = NewSession("subscription")
    BY <1>2, <1>3, Zenon
  <2>2. QED
    BY <1>1, <2>1 DEF SessionIs, SessionType, NewSession
<1>4. ASSUME Session(r, [NewSession("wallet") EXCEPT !.trusted = b])
      PROVE   SessionIs(s'[r], "wallet", 0, 0, 0, 0, 0, FALSE, FALSE, FALSE)
  <2>1. s'[r] = [NewSession("wallet") EXCEPT !.trusted = b]
    BY <1>2, <1>4, Zenon
  <2>2. QED
    BY <1>1, <2>1 DEF SessionIs, SessionType, NewSession
<1>5. ASSUME Session(r, [s[r] EXCEPT !.walletConsumed = n, !.preConsumed = n])
      PROVE   SessionIs(s'[r], s[r].funding, n, s[r].tokenConsumed, s[r].extraReserved, n,
                       s[r].subPre, s[r].settled, s[r].refunded, s[r].fundingSettled)
  <2>1. s'[r] = [s[r] EXCEPT !.walletConsumed = n, !.preConsumed = n]
    BY <1>2, <1>5, Zenon
  <2>2. QED
    BY <1>1, <2>1 DEF SessionIs, SessionType
<1>6. ASSUME Session(r, [s[r] EXCEPT !.subPre = n, !.preConsumed = n])
      PROVE   SessionIs(s'[r], s[r].funding, n, s[r].tokenConsumed, s[r].extraReserved,
                       s[r].walletConsumed, n, s[r].settled, s[r].refunded, s[r].fundingSettled)
  <2>1. s'[r] = [s[r] EXCEPT !.subPre = n, !.preConsumed = n]
    BY <1>2, <1>6, Zenon
  <2>2. QED
    BY <1>1, <2>1 DEF SessionIs, SessionType
<1>7. ASSUME Session(r, [s[r] EXCEPT !.walletConsumed = n])
      PROVE   SessionIs(s'[r], s[r].funding, s[r].preConsumed, s[r].tokenConsumed,
                       s[r].extraReserved, n, s[r].subPre, s[r].settled, s[r].refunded,
                       s[r].fundingSettled)
  <2>1. s'[r] = [s[r] EXCEPT !.walletConsumed = n]
    BY <1>2, <1>7, Zenon
  <2>2. QED
    BY <1>1, <2>1 DEF SessionIs, SessionType
<1>8. ASSUME Session(r, [s[r] EXCEPT !.preConsumed = n, !.tokenConsumed = m, !.extraReserved = k])
      PROVE   SessionIs(s'[r], s[r].funding, n, m, k, s[r].walletConsumed, s[r].subPre,
                       s[r].settled, s[r].refunded, s[r].fundingSettled)
  <2>1. s'[r] = [s[r] EXCEPT !.preConsumed = n, !.tokenConsumed = m, !.extraReserved = k]
    BY <1>2, <1>8, Zenon
  <2>2. QED
    BY <1>1, <2>1 DEF SessionIs, SessionType
<1>9. ASSUME Session(r, [s[r] EXCEPT !.refunded = TRUE])
      PROVE   SessionIs(s'[r], s[r].funding, s[r].preConsumed, s[r].tokenConsumed,
                       s[r].extraReserved, s[r].walletConsumed, s[r].subPre, s[r].settled, TRUE,
                       s[r].fundingSettled)
  <2>1. s'[r] = [s[r] EXCEPT !.refunded = TRUE]
    BY <1>2, <1>9, Zenon
  <2>2. QED
    BY <1>1, <2>1 DEF SessionIs, SessionType
<1>10. ASSUME Session(r, [s[r] EXCEPT !.fundingSettled = TRUE, !.settled = b])
      PROVE   SessionIs(s'[r], s[r].funding, s[r].preConsumed, s[r].tokenConsumed,
                       s[r].extraReserved, s[r].walletConsumed, s[r].subPre, b, s[r].refunded, TRUE)
  <2>1. s'[r] = [s[r] EXCEPT !.fundingSettled = TRUE, !.settled = b]
    BY <1>2, <1>10, Zenon
  <2>2. QED
    BY <1>1, <2>1 DEF SessionIs, SessionType
<1>11. ASSUME UNCHANGED s
      PROVE   SessionIs(s'[r], s[r].funding, s[r].preConsumed, s[r].tokenConsumed,
                       s[r].extraReserved, s[r].walletConsumed, s[r].subPre, s[r].settled,
                       s[r].refunded, s[r].fundingSettled)
  BY <1>11 DEF SessionIs
<1>12. QED
  BY <1>3, <1>4, <1>5, <1>6, <1>7, <1>8, <1>9, <1>10, <1>11, Zenon

\* Before anything is reserved, and after the end, the floor is zero.
LEMMA FloorZero ==
    ASSUME NEW r \in Requests, fundCharged'[r] >= 0, tokenCharged'[r] >= 0,
           pc'[r] \in {"select", "walletCheck", "token", "tokenDec", "overflow", "rejected", "done",
                       "crashed"},
           s'[r].settled => fundCharged'[r] >= actual'[r]
    PROVE  ChargeFloor(r)'
  BY DEF ChargeFloor, ActivePCs, SettlePCs, RefundPCs, RollbackPCs, RaisedPCs

\* Authenticate keeps the floor under the charges of its request.
LEMMA AuthenticateFloor ==
    ASSUME NEW r \in Requests, IInv, ChargeFloor(r), Authenticate(r)
    PROVE  ChargeFloor(r)'
<1>1. TypeOK /\ SessionInv(r) /\ FieldsTyped(r)
  BY FieldTypes DEF IInv
<1>2. QED
  BY <1>1 DEF TypeOK, FieldsTyped, SessionType, Authenticate, Fails, Session, Goto, funds, rest, token, fault,
     ChargeFloor, SessionInv, PreparePCs, ActivePCs, SettlePCs, RefundPCs, Terminal, RollbackPCs,
     RaisedPCs, Open, IsSub

\* SelectFunding keeps the floor under the charges of its request.
LEMMA SelectFundingFloor ==
    ASSUME NEW r \in Requests, IInv, ChargeFloor(r), SelectFunding(r)
    PROVE  ChargeFloor(r)'
<1>1. TypeOK /\ SessionInv(r) /\ FieldsTyped(r)
  BY FieldTypes DEF IInv
<1>2. /\ fundCharged' = fundCharged /\ tokenCharged' = tokenCharged
      /\ pc'[r] \in {"rejected", "token", "walletCheck"} /\ pc[r] = "select"
      /\ Session(r, NewSession("subscription")) \/ UNCHANGED s
  BY <1>1 DEF TypeOK, SelectFunding, TrySubscription, Goto, funds, token
<1>3. ~s'[r].settled
  BY <1>1, <1>2, SessionFields DEF SessionIs, SessionInv, Open, PreparePCs
<1>4. QED
  BY <1>2, <1>3, FloorZero DEF ChargeFloor

\* WalletCheck keeps the floor under the charges of its request.
LEMMA WalletCheckFloor ==
    ASSUME NEW r \in Requests, IInv, ChargeFloor(r), WalletCheck(r)
    PROVE  ChargeFloor(r)'
<1>1. TypeOK /\ SessionInv(r) /\ FieldsTyped(r)
  BY FieldTypes DEF IInv
<1>2. /\ fundCharged' = fundCharged /\ tokenCharged' = tokenCharged
      /\ pc'[r] \in {"rejected", "token"} /\ pc[r] = "walletCheck"
  BY <1>1 DEF TypeOK, WalletCheck, TrySubscription, Goto, funds, token
<1>3. \/ Session(r, NewSession("subscription")) \/ UNCHANGED s
      \/ \E b : Session(r, [NewSession("wallet") EXCEPT !.trusted = b])
  BY Zenon DEF WalletCheck, TrySubscription
<1>4. ~s'[r].settled
  BY <1>1, <1>2, <1>3, SessionFields DEF SessionIs, SessionInv, Open, PreparePCs
<1>5. QED
  BY <1>2, <1>4, FloorZero DEF ChargeFloor

\* Overflow keeps the floor under the charges of its request.
LEMMA OverflowFloor ==
    ASSUME NEW r \in Requests, IInv, ChargeFloor(r), Overflow(r)
    PROVE  ChargeFloor(r)'
<1>1. TypeOK /\ SessionInv(r) /\ FieldsTyped(r)
  BY FieldTypes DEF IInv
<1>2. QED
  BY <1>1 DEF TypeOK, FieldsTyped, SessionType, Overflow, Fails, Session, Goto, funds, rest, token, fault,
     ChargeFloor, SessionInv, PreparePCs, ActivePCs, SettlePCs, RefundPCs, Terminal, RollbackPCs,
     RaisedPCs, Open, IsSub

\* QueryFails keeps the floor under the charges of its request.
LEMMA QueryFailsFloor ==
    ASSUME NEW r \in Requests, IInv, ChargeFloor(r), QueryFails(r)
    PROVE  ChargeFloor(r)'
<1>1. TypeOK /\ SessionInv(r) /\ FieldsTyped(r)
  BY FieldTypes DEF IInv
<1>2. QED
  BY <1>1 DEF TypeOK, FieldsTyped, SessionType, QueryFails, Fails, Session, Goto, funds, rest, token, fault,
     ChargeFloor, SessionInv, PreparePCs, ActivePCs, SettlePCs, RefundPCs, Terminal, RollbackPCs,
     RaisedPCs, Open, IsSub

\* CheckToken keeps the floor under the charges of its request.
LEMMA CheckTokenFloor ==
    ASSUME NEW r \in Requests, IInv, ChargeFloor(r), CheckToken(r)
    PROVE  ChargeFloor(r)'
<1>1. TypeOK /\ SessionInv(r) /\ FieldsTyped(r)
  BY FieldTypes DEF IInv
<1>2. QED
  BY <1>1 DEF TypeOK, FieldsTyped, SessionType, CheckToken, Fails, Session, Goto, funds, rest, token, fault,
     ChargeFloor, SessionInv, PreparePCs, ActivePCs, SettlePCs, RefundPCs, Terminal, RollbackPCs,
     RaisedPCs, Open, IsSub

\* DecreaseToken keeps the floor under the charges of its request.
LEMMA DecreaseTokenFloor ==
    ASSUME NEW r \in Requests, IInv, ChargeFloor(r), DecreaseToken(r)
    PROVE  ChargeFloor(r)'
<1>1. TypeOK /\ SessionInv(r) /\ FieldsTyped(r)
  BY FieldTypes DEF IInv
<1>2. QED
  BY <1>1 DEF TypeOK, FieldsTyped, SessionType, DecreaseToken, TakeToken, Fails, Session, Goto, funds, rest, token, fault,
     ChargeFloor, SessionInv, PreparePCs, ActivePCs, SettlePCs, RefundPCs, Terminal, RollbackPCs,
     RaisedPCs, Open, IsSub

\* PreConsumeWallet keeps the floor under the charges of its request.
LEMMA PreConsumeWalletFloor ==
    ASSUME NEW r \in Requests, IInv, ChargeFloor(r), PreConsumeWallet(r)
    PROVE  ChargeFloor(r)'
<1>1. TypeOK /\ SessionInv(r) /\ FieldsTyped(r)
  BY FieldTypes DEF IInv
<1>2. CASE FundingFailed(r, FALSE)
  <2>1. /\ fundCharged' = fundCharged /\ tokenCharged' = tokenCharged /\ UNCHANGED s
        /\ pc'[r] \in {"rollbackInsufficient", "rollbackError", "overflow", "rejected"}
        /\ info' = info /\ pc[r] = "fund"
    BY <1>1, <1>2 DEF TypeOK, PreConsumeWallet, FundingFailed, AfterFailure, Goto, funds, token, rest
  <2>2. QED
    BY <1>1, <2>1 DEF ChargeFloor, SessionInv, ActivePCs, SettlePCs, RefundPCs, RollbackPCs,
       RaisedPCs, PreparePCs, Open, FieldsTyped, IsSub
<1>3. CASE /\ TakeWallet(r, amount[r]) /\ Goto(r, "active")
           /\ Session(r, [s[r] EXCEPT !.walletConsumed = amount[r], !.preConsumed = amount[r]])
  <2>1. /\ fundCharged'[r] = fundCharged[r] + amount[r] /\ tokenCharged' = tokenCharged
        /\ pc'[r] = "active" /\ info' = info /\ pc[r] = "fund" /\ ~IsSub(r)
        /\ amount[r] \in Nat /\ fundCharged[r] \in Int /\ tokenCharged[r] \in Int
    BY <1>1, <1>3 DEF TypeOK, PreConsumeWallet, TakeWallet, Goto, token, rest
  <2>2. SessionIs(s'[r], s[r].funding, amount[r], s[r].tokenConsumed, s[r].extraReserved,
                  amount[r], s[r].subPre, s[r].settled, s[r].refunded, s[r].fundingSettled)
    BY <1>1, <1>3, SessionFields
  <2>3. QED
    BY <1>1, <2>1, <2>2 DEF ChargeFloor, SessionIs, SessionInv, PreparePCs, ActivePCs, SettlePCs,
       RefundPCs, RollbackPCs, RaisedPCs, Open, IsSub, FieldsTyped
<1>4. QED
  BY <1>2, <1>3 DEF PreConsumeWallet

\* PreConsumeSub keeps the floor under the charges of its request.
LEMMA PreConsumeSubFloor ==
    ASSUME NEW r \in Requests, IInv, ChargeFloor(r), PreConsumeSub(r)
    PROVE  ChargeFloor(r)'
<1>1. TypeOK /\ SessionInv(r) /\ FieldsTyped(r)
  BY FieldTypes DEF IInv
<1>2. CASE FundingFailed(r, TRUE) \/ FundingFailed(r, FALSE)
  <2>1. /\ fundCharged' = fundCharged /\ tokenCharged' = tokenCharged /\ UNCHANGED s
        /\ pc'[r] \in {"rollbackInsufficient", "rollbackError", "overflow", "rejected"}
        /\ info' = info /\ pc[r] = "fund"
    BY <1>1, <1>2 DEF TypeOK, PreConsumeSub, FundingFailed, AfterFailure, Goto, funds, token, rest
  <2>2. QED
    BY <1>1, <2>1 DEF ChargeFloor, SessionInv, ActivePCs, SettlePCs, RefundPCs, RollbackPCs,
       RaisedPCs, PreparePCs, Open, FieldsTyped, IsSub
<1>3. CASE /\ fundCharged' = [fundCharged EXCEPT ![r] = @ + amount[r]] /\ Goto(r, "active")
           /\ Session(r, [s[r] EXCEPT !.subPre = amount[r], !.preConsumed = amount[r]])
  <2>1. /\ fundCharged'[r] = fundCharged[r] + amount[r] /\ tokenCharged' = tokenCharged
        /\ pc'[r] = "active" /\ info' = info /\ pc[r] = "fund" /\ IsSub(r)
        /\ amount[r] \in Nat /\ fundCharged[r] \in Int /\ tokenCharged[r] \in Int
    BY <1>1, <1>3 DEF TypeOK, PreConsumeSub, Goto, token, rest
  <2>2. SessionIs(s'[r], s[r].funding, amount[r], s[r].tokenConsumed, s[r].extraReserved,
                  s[r].walletConsumed, amount[r], s[r].settled, s[r].refunded, s[r].fundingSettled)
    BY <1>1, <1>3, SessionFields
  <2>3. QED
    BY <1>1, <2>1, <2>2 DEF ChargeFloor, SessionIs, SessionInv, PreparePCs, ActivePCs, SettlePCs,
       RefundPCs, RollbackPCs, RaisedPCs, Open, IsSub, FieldsTyped
<1>4. QED
  BY <1>2, <1>3 DEF PreConsumeSub

\* RollbackToken keeps the floor under the charges of its request.
LEMMA RollbackTokenFloor ==
    ASSUME NEW r \in Requests, IInv, ChargeFloor(r), RollbackToken(r)
    PROVE  ChargeFloor(r)'
<1>1. TypeOK /\ SessionInv(r) /\ FieldsTyped(r)
  BY FieldTypes DEF IInv
<1>2. QED
  BY <1>1 DEF TypeOK, FieldsTyped, SessionType, RollbackToken, TakeToken, AfterFailure, Fails, Session, Goto, funds, rest, token, fault,
     ChargeFloor, SessionInv, PreparePCs, ActivePCs, SettlePCs, RefundPCs, Terminal, RollbackPCs,
     RaisedPCs, Open, IsSub

\* Reserve keeps the floor under the charges of its request.
LEMMA ReserveFloor ==
    ASSUME NEW r \in Requests, IInv, ChargeFloor(r), Reserve(r)
    PROVE  ChargeFloor(r)'
<1>1. TypeOK /\ SessionInv(r) /\ FieldsTyped(r)
  BY FieldTypes DEF IInv
<1>2. QED
  BY <1>1 DEF TypeOK, FieldsTyped, SessionType, Reserve, Fails, Session, Goto, funds, rest, token, fault,
     ChargeFloor, SessionInv, PreparePCs, ActivePCs, SettlePCs, RefundPCs, Terminal, RollbackPCs,
     RaisedPCs, Open, IsSub

\* ReserveFunding keeps the floor under the charges of its request.
LEMMA ReserveFundingFloor ==
    ASSUME NEW r \in Requests, IInv, ChargeFloor(r), ReserveFunding(r)
    PROVE  ChargeFloor(r)'
<1>1. TypeOK /\ SessionInv(r) /\ FieldsTyped(r)
  BY FieldTypes DEF IInv
<1>2. /\ tokenCharged' = tokenCharged /\ info' = info /\ amount' = amount /\ actual' = actual
      /\ pc[r] = "resFund" /\ amount[r] \in Nat /\ fundCharged[r] \in Int /\ tokenCharged[r] \in Int
  BY <1>1 DEF TypeOK, ReserveFunding, token, rest
<1>3. CASE /\ ~IsSub(r) /\ TakeWallet(r, amount[r]) /\ Goto(r, "resToken")
           /\ Session(r, [s[r] EXCEPT !.walletConsumed = @ + amount[r]])
  <2>1. fundCharged'[r] = fundCharged[r] + amount[r] /\ pc'[r] = "resToken"
    BY <1>1, <1>3 DEF TypeOK, TakeWallet, Goto
  <2>2. SessionIs(s'[r], s[r].funding, s[r].preConsumed, s[r].tokenConsumed, s[r].extraReserved,
                  s[r].walletConsumed + amount[r], s[r].subPre, s[r].settled, s[r].refunded,
                  s[r].fundingSettled)
    BY <1>1, <1>3, SessionFields
  <2>3. QED
    BY <1>1, <1>2, <1>3, <2>1, <2>2 DEF ChargeFloor, SessionIs, SessionInv, PreparePCs, ActivePCs, SettlePCs,
       RefundPCs, RollbackPCs, RaisedPCs, Open, IsSub, FieldsTyped
<1>4. CASE IsSub(r) /\ TakeSub(r, amount[r]) /\ Goto(r, "resToken") /\ UNCHANGED s
  <2>1. fundCharged'[r] = fundCharged[r] + amount[r] /\ pc'[r] = "resToken"
    BY <1>1, <1>2, <1>4, TakenExact DEF TypeOK, Goto
  <2>2. QED
    BY <1>1, <1>2, <1>4, <2>1 DEF ChargeFloor, SessionIs, SessionInv, PreparePCs, ActivePCs, SettlePCs,
       RefundPCs, RollbackPCs, RaisedPCs, Open, IsSub, FieldsTyped
<1>5. CASE Goto(r, "active") /\ UNCHANGED <<funds, s>>
  <2>1. fundCharged'[r] = fundCharged[r] /\ pc'[r] = "active"
    BY <1>1, <1>5 DEF TypeOK, Goto, funds
  <2>2. QED
    BY <1>1, <1>2, <1>5, <2>1 DEF ChargeFloor, SessionIs, SessionInv, PreparePCs, ActivePCs, SettlePCs,
       RefundPCs, RollbackPCs, RaisedPCs, Open, IsSub, FieldsTyped
<1>6. QED
  BY <1>3, <1>4, <1>5 DEF ReserveFunding

\* ReserveToken keeps the floor under the charges of its request.
LEMMA ReserveTokenFloor ==
    ASSUME NEW r \in Requests, IInv, ChargeFloor(r), ReserveToken(r)
    PROVE  ChargeFloor(r)'
<1>1. TypeOK /\ SessionInv(r) /\ FieldsTyped(r)
  BY FieldTypes DEF IInv
<1>2. /\ fundCharged' = fundCharged /\ tokenCharged' = tokenCharged /\ info' = info
      /\ amount' = amount /\ actual' = actual
      /\ pc[r] = "resToken" /\ amount[r] \in Nat /\ fundCharged[r] \in Int /\ tokenCharged[r] \in Int
  BY <1>1 DEF TypeOK, ReserveToken, token, rest, funds
<1>3. CASE info[r].playground /\ Reserved(r) /\ Goto(r, "active")
  <2>1. pc'[r] = "active"
    BY <1>1, <1>3 DEF TypeOK, Goto
  <2>2. SessionIs(s'[r], s[r].funding, s[r].preConsumed + amount[r], s[r].tokenConsumed + amount[r],
                  s[r].extraReserved + amount[r], s[r].walletConsumed, s[r].subPre, s[r].settled,
                  s[r].refunded, s[r].fundingSettled)
    BY <1>1, <1>3, SessionFields DEF Reserved
  <2>3. QED
    BY <1>1, <1>2, <1>3, <2>1, <2>2 DEF ChargeFloor, SessionIs, SessionInv, PreparePCs, ActivePCs, SettlePCs,
       RefundPCs, RollbackPCs, RaisedPCs, Open, IsSub, FieldsTyped
<1>4. CASE (Goto(r, "resTokenDec") \/ Goto(r, "resRollback")) /\ UNCHANGED s
  <2>1. pc'[r] \in {"resTokenDec", "resRollback"}
    BY <1>1, <1>4 DEF TypeOK, Goto
  <2>2. QED
    BY <1>1, <1>2, <1>4, <2>1 DEF ChargeFloor, SessionIs, SessionInv, PreparePCs, ActivePCs, SettlePCs,
       RefundPCs, RollbackPCs, RaisedPCs, Open, IsSub, FieldsTyped
<1>5. QED
  BY <1>3, <1>4, Zenon DEF ReserveToken

\* ReserveTokenDecrease keeps the floor under the charges of its request.
LEMMA ReserveTokenDecreaseFloor ==
    ASSUME NEW r \in Requests, IInv, ChargeFloor(r), ReserveTokenDecrease(r)
    PROVE  ChargeFloor(r)'
<1>1. TypeOK /\ SessionInv(r) /\ FieldsTyped(r)
  BY FieldTypes DEF IInv
<1>2. /\ fundCharged' = fundCharged /\ info' = info /\ amount' = amount /\ actual' = actual
      /\ pc[r] = "resTokenDec" /\ amount[r] \in Nat /\ fundCharged[r] \in Int
      /\ tokenCharged[r] \in Int
  BY <1>1 DEF TypeOK, ReserveTokenDecrease, rest, funds
<1>3. CASE TakeToken(r, amount[r]) /\ Reserved(r) /\ Goto(r, "active")
  <2>1. pc'[r] = "active" /\ tokenCharged'[r] = tokenCharged[r] + amount[r]
    BY <1>1, <1>3 DEF TypeOK, Goto, TakeToken
  <2>2. SessionIs(s'[r], s[r].funding, s[r].preConsumed + amount[r], s[r].tokenConsumed + amount[r],
                  s[r].extraReserved + amount[r], s[r].walletConsumed, s[r].subPre, s[r].settled,
                  s[r].refunded, s[r].fundingSettled)
    BY <1>1, <1>3, SessionFields DEF Reserved
  <2>3. QED
    BY <1>1, <1>2, <1>3, <2>1, <2>2 DEF ChargeFloor, SessionIs, SessionInv, PreparePCs, ActivePCs, SettlePCs,
       RefundPCs, RollbackPCs, RaisedPCs, Open, IsSub, FieldsTyped
<1>4. CASE Goto(r, "resRollback") /\ UNCHANGED <<token, s>>
  <2>1. pc'[r] = "resRollback" /\ tokenCharged' = tokenCharged
    BY <1>1, <1>4 DEF TypeOK, Goto, token
  <2>2. QED
    BY <1>1, <1>2, <1>4, <2>1 DEF ChargeFloor, SessionIs, SessionInv, PreparePCs, ActivePCs, SettlePCs,
       RefundPCs, RollbackPCs, RaisedPCs, Open, IsSub, FieldsTyped
<1>5. QED
  BY <1>3, <1>4 DEF ReserveTokenDecrease

\* RollbackFundingReserve keeps the floor under the charges of its request.
LEMMA RollbackFundingReserveFloor ==
    ASSUME NEW r \in Requests, IInv, ChargeFloor(r), Covers(r), RollbackFundingReserve(r)
    PROVE  ChargeFloor(r)'
<1>1. TypeOK /\ SessionInv(r) /\ FieldsTyped(r)
  BY FieldTypes DEF IInv
<1>2. /\ tokenCharged' = tokenCharged /\ info' = info /\ amount' = amount /\ actual' = actual
      /\ pc[r] = "resRollback" /\ pc'[r] = "active" /\ amount[r] \in Nat
      /\ fundCharged[r] \in Int /\ tokenCharged[r] \in Int
  BY <1>1 DEF TypeOK, RollbackFundingReserve, token, rest, Goto
<1>3. CASE /\ ~IsSub(r) /\ TakeWallet(r, -amount[r])
           /\ Session(r, [s[r] EXCEPT !.walletConsumed = @ - amount[r]])
  <2>1. fundCharged'[r] = fundCharged[r] - amount[r]
    BY <1>1, <1>3 DEF TypeOK, TakeWallet
  <2>2. SessionIs(s'[r], s[r].funding, s[r].preConsumed, s[r].tokenConsumed, s[r].extraReserved,
                  s[r].walletConsumed - amount[r], s[r].subPre, s[r].settled, s[r].refunded,
                  s[r].fundingSettled)
    BY <1>1, <1>3, SessionFields
  <2>3. QED
    BY <1>1, <1>2, <1>3, <2>1, <2>2 DEF ChargeFloor, SessionIs, SessionInv, PreparePCs, ActivePCs, SettlePCs,
       RefundPCs, RollbackPCs, RaisedPCs, Open, IsSub, FieldsTyped
<1>4. CASE IsSub(r) /\ TakeSub(r, -amount[r]) /\ UNCHANGED s
  <2>1. fundCharged'[r] = fundCharged[r] - amount[r]
    <3>1. fundCharged[r] >= amount[r]
      BY <1>1, <1>2, <1>4 DEF ChargeFloor, RaisedPCs, FieldsTyped
    <3>2. subUsed + (-amount[r]) >= 0 /\ -amount[r] \in Int
      BY <1>1, <1>2, <1>4, <3>1 DEF Covers, TypeOK
    <3>3. fundCharged'[r] = fundCharged[r] + (-amount[r])
      BY <1>1, <1>4, <3>2, TakenExact
    <3>4. QED
      BY <1>2, <3>3
  <2>2. QED
    BY <1>1, <1>2, <1>4, <2>1 DEF ChargeFloor, SessionIs, SessionInv, PreparePCs, ActivePCs, SettlePCs,
       RefundPCs, RollbackPCs, RaisedPCs, Open, IsSub, FieldsTyped
<1>5. CASE UNCHANGED <<funds, s>>
  <2>1. fundCharged' = fundCharged
    BY <1>5 DEF funds
  <2>2. QED
    BY <1>1, <1>2, <1>5, <2>1 DEF ChargeFloor, SessionIs, SessionInv, PreparePCs, ActivePCs, SettlePCs,
       RefundPCs, RollbackPCs, RaisedPCs, Open, IsSub, FieldsTyped
<1>6. QED
  BY <1>3, <1>4, <1>5 DEF RollbackFundingReserve

\* Settle keeps the floor under the charges of its request.
LEMMA SettleFloor ==
    ASSUME NEW r \in Requests, IInv, ChargeFloor(r), Settle(r)
    PROVE  ChargeFloor(r)'
<1>1. TypeOK /\ SessionInv(r) /\ FieldsTyped(r)
  BY FieldTypes DEF IInv
<1>2. QED
  BY <1>1 DEF TypeOK, FieldsTyped, SessionType, Settle, Fails, Session, Goto, funds, rest, token, fault,
     ChargeFloor, SessionInv, PreparePCs, ActivePCs, SettlePCs, RefundPCs, Terminal, RollbackPCs,
     RaisedPCs, Open, IsSub

\* SettleFunding keeps the floor under the charges of its request.
LEMMA SettleFundingFloor ==
    ASSUME NEW r \in Requests, IInv, ChargeFloor(r), Covers(r), SettleFunding(r)
    PROVE  ChargeFloor(r)'
<1>1. TypeOK /\ SessionInv(r) /\ FieldsTyped(r)
  BY FieldTypes DEF IInv
<1>2. /\ tokenCharged' = tokenCharged /\ info' = info /\ amount' = amount /\ actual' = actual
      /\ pc[r] = "settleFund" /\ actual[r] \in Nat
      /\ fundCharged[r] \in Int /\ tokenCharged[r] \in Int
  BY <1>1 DEF TypeOK, SettleFunding, token, rest
<1>3. CASE /\ IF IsSub(r) THEN TakeSub(r, Delta(r)) ELSE TakeWallet(r, Delta(r))
           /\ Session(r, [s[r] EXCEPT !.fundingSettled = TRUE, !.settled = info[r].playground])
           /\ Goto(r, IF info[r].playground THEN "done" ELSE "settleToken")
  <2>1. /\ fundCharged'[r] = fundCharged[r] + actual[r] - s[r].preConsumed
        /\ pc'[r] \in {"done", "settleToken"}
    <3>1. /\ fundCharged[r] >= s[r].preConsumed /\ Delta(r) \in Int
          /\ Delta(r) = actual[r] - s[r].preConsumed /\ s[r].preConsumed \in Nat
      BY <1>1, <1>2 DEF ChargeFloor, SessionInv, IsSub, FieldsTyped, Delta, ActivePCs
    <3>2. CASE IsSub(r)
      <4>1. subUsed + Delta(r) >= 0
        BY <1>1, <1>2, <3>1, <3>2 DEF Covers, TypeOK
      <4>2. fundCharged'[r] = fundCharged[r] + Delta(r)
        BY <1>1, <1>3, <3>1, <3>2, <4>1, TakenExact
      <4>3. QED
        BY <1>1, <1>2, <1>3, <3>1, <4>2 DEF Goto, TypeOK
    <3>3. CASE ~IsSub(r)
      BY <1>1, <1>2, <1>3, <3>1, <3>3 DEF TypeOK, TakeWallet, Goto
    <3>4. QED
      BY <3>2, <3>3
  <2>2. SessionIs(s'[r], s[r].funding, s[r].preConsumed, s[r].tokenConsumed, s[r].extraReserved,
                  s[r].walletConsumed, s[r].subPre, info[r].playground, s[r].refunded, TRUE)
    BY <1>1, <1>3, SessionFields
  <2>3. fundCharged[r] >= s[r].preConsumed
    BY <1>1, <1>2 DEF ChargeFloor, SessionInv, IsSub, FieldsTyped
  <2>4. fundCharged'[r] >= actual'[r]
    BY <1>1, <1>2, <2>1, <2>3 DEF FieldsTyped
  <2>5. QED
    BY <1>1, <1>2, <2>1, <2>2, <2>4 DEF ChargeFloor, SessionIs, SessionInv, PreparePCs, ActivePCs, SettlePCs,
       RefundPCs, RollbackPCs, RaisedPCs, Open, IsSub, FieldsTyped
<1>4. CASE Goto(r, "done") /\ UNCHANGED <<funds, s>>
  <2>1. fundCharged' = fundCharged /\ pc'[r] = "done"
    BY <1>1, <1>4 DEF TypeOK, Goto, funds
  <2>2. QED
    BY <1>2, <1>4, <2>1, FloorZero DEF ChargeFloor
<1>5. QED
  BY <1>3, <1>4 DEF SettleFunding

\* SettleToken keeps the floor under the charges of its request.
LEMMA SettleTokenFloor ==
    ASSUME NEW r \in Requests, IInv, ChargeFloor(r), SettleToken(r)
    PROVE  ChargeFloor(r)'
<1>1. TypeOK /\ SessionInv(r) /\ FieldsTyped(r)
  BY FieldTypes DEF IInv
<1>2. QED
  BY <1>1 DEF TypeOK, FieldsTyped, SessionType, SettleToken, Delta, TakeToken, Fails, Session, Goto, funds, rest, token, fault,
     ChargeFloor, SessionInv, PreparePCs, ActivePCs, SettlePCs, RefundPCs, Terminal, RollbackPCs,
     RaisedPCs, Open, IsSub

\* Refund keeps the floor under the charges of its request.
LEMMA RefundFloor ==
    ASSUME NEW r \in Requests, IInv, ChargeFloor(r), Refund(r)
    PROVE  ChargeFloor(r)'
<1>1. TypeOK /\ SessionInv(r) /\ FieldsTyped(r)
  BY FieldTypes DEF IInv
<1>2. /\ fundCharged' = fundCharged /\ tokenCharged' = tokenCharged /\ info' = info
      /\ amount' = amount /\ actual' = actual /\ record' = record /\ pc[r] = "active"
      /\ fundCharged[r] \in Int /\ tokenCharged[r] \in Int
  BY <1>1 DEF TypeOK, Refund, token, rest, funds
<1>3. CASE Session(r, [s[r] EXCEPT !.refunded = TRUE]) /\ Goto(r, "refFund")
  <2>1. pc'[r] = "refFund"
    BY <1>1, <1>3 DEF TypeOK, Goto
  <2>2. SessionIs(s'[r], s[r].funding, s[r].preConsumed, s[r].tokenConsumed, s[r].extraReserved,
                  s[r].walletConsumed, s[r].subPre, s[r].settled, TRUE, s[r].fundingSettled)
    BY <1>1, <1>3, SessionFields
  <2>3. QED
    BY <1>1, <1>2, <2>1, <2>2 DEF ChargeFloor, SessionIs, SessionInv, PreparePCs, ActivePCs, SettlePCs,
       RefundPCs, RollbackPCs, RaisedPCs, Open, IsSub, FieldsTyped
<1>4. CASE UNCHANGED s /\ Goto(r, "done")
  <2>1. pc'[r] = "done"
    BY <1>1, <1>4 DEF TypeOK, Goto
  <2>2. QED
    BY <1>2, <1>4, <2>1, FloorZero DEF ChargeFloor
<1>5. QED
  BY <1>3, <1>4 DEF Refund

\* RefundWallet keeps the floor under the charges of its request.
LEMMA RefundWalletFloor ==
    ASSUME NEW r \in Requests, IInv, ChargeFloor(r), RefundWallet(r)
    PROVE  ChargeFloor(r)'
<1>1. TypeOK /\ SessionInv(r) /\ FieldsTyped(r)
  BY FieldTypes DEF IInv
<1>2. QED
  BY <1>1 DEF TypeOK, FieldsTyped, SessionType, RefundWallet, TakeWallet, Fails, Session, Goto, funds, rest, token, fault,
     ChargeFloor, SessionInv, PreparePCs, ActivePCs, SettlePCs, RefundPCs, Terminal, RollbackPCs,
     RaisedPCs, Open, IsSub

\* RefundSub keeps the floor under the charges of its request.
LEMMA RefundSubFloor ==
    ASSUME NEW r \in Requests, IInv, ChargeFloor(r), Covers(r), RefundSub(r)
    PROVE  ChargeFloor(r)'
<1>1. TypeOK /\ SessionInv(r) /\ FieldsTyped(r)
  BY FieldTypes DEF IInv
<1>2. ASSUME record[r] = "consumed", TakeSub(r, -s[r].subPre)
      PROVE  fundCharged'[r] = fundCharged[r] - s[r].subPre
  <2>1. /\ fundCharged[r] >= s[r].subPre /\ s[r].subPre \in Nat /\ -s[r].subPre \in Int
        /\ fundCharged[r] \in Int /\ IsSub(r)
    BY <1>1, <1>2 DEF RefundSub, ChargeFloor, SessionInv, RefundPCs, FieldsTyped, TypeOK
  <2>2. subUsed + (-s[r].subPre) >= 0
    BY <1>1, <2>1 DEF Covers, TypeOK
  <2>3. fundCharged'[r] = fundCharged[r] + (-s[r].subPre)
    BY <1>1, <1>2, <2>1, <2>2, TakenExact
  <2>4. QED
    BY <2>1, <2>3
<1>3. /\ s' = s /\ pc[r] = "refFund" /\ IsSub(r) /\ amount' = amount /\ info' = info
      /\ actual' = actual /\ tokenCharged' = tokenCharged /\ record' = record
      /\ \/ pc'[r] = "refRecord" /\ TakeSub(r, -s[r].subPre) /\ record[r] = "consumed"
         \/ pc'[r] \in {"refFund", "refExtra"} /\ fundCharged' = fundCharged
  BY <1>1 DEF RefundSub, Retry, TakeSub, Goto, funds, token, TypeOK
<1>4. QED
  BY <1>1, <1>2, <1>3 DEF TypeOK, FieldsTyped, ChargeFloor, SessionInv, PreparePCs,
     ActivePCs, SettlePCs, RefundPCs, Terminal, RollbackPCs, RaisedPCs, Open, IsSub

\* RefundRecord keeps the floor under the charges of its request.
LEMMA RefundRecordFloor ==
    ASSUME NEW r \in Requests, IInv, ChargeFloor(r), Sound', RefundRecord(r)
    PROVE  ChargeFloor(r)'
<1>1. TypeOK /\ SessionInv(r) /\ FieldsTyped(r)
  BY FieldTypes DEF IInv
<1>2. /\ s' = s /\ pc[r] = "refRecord" /\ amount' = amount /\ info' = info
      /\ actual' = actual /\ tokenCharged' = tokenCharged /\ fundCharged' = fundCharged
      /\ \/ pc'[r] \in {"refFund", "refExtra"} /\ record'[r] = "refunded"
         \/ Fails(r, "record")
  BY <1>1 DEF RefundRecord, Retry, Goto, token, TypeOK
<1>3. ~Fails(r, "record")
  BY DEF Fails, Sound
<1>4. QED
  BY <1>1, <1>2, <1>3 DEF TypeOK, FieldsTyped, ChargeFloor, SessionInv, PreparePCs,
     ActivePCs, SettlePCs, RefundPCs, Terminal, RollbackPCs, RaisedPCs, Open, IsSub

\* RefundExtra keeps the floor under the charges of its request.
LEMMA RefundExtraFloor ==
    ASSUME NEW r \in Requests, IInv, ChargeFloor(r), Covers(r), RefundExtra(r)
    PROVE  ChargeFloor(r)'
<1>1. TypeOK /\ SessionInv(r) /\ FieldsTyped(r)
  BY FieldTypes DEF IInv
<1>2. ASSUME TakeSub(r, -s[r].extraReserved)
      PROVE  fundCharged'[r] = fundCharged[r] - s[r].extraReserved
  <2>1. /\ fundCharged[r] >= s[r].extraReserved /\ s[r].extraReserved \in Nat
        /\ -s[r].extraReserved \in Int /\ fundCharged[r] \in Int /\ IsSub(r)
    BY <1>1 DEF RefundExtra, ChargeFloor, SessionInv, FieldsTyped, TypeOK
  <2>2. subUsed + (-s[r].extraReserved) >= 0
    BY <1>1, <2>1 DEF Covers, TypeOK
  <2>3. fundCharged'[r] = fundCharged[r] + (-s[r].extraReserved)
    BY <1>1, <1>2, <2>1, <2>2, TakenExact
  <2>4. QED
    BY <2>1, <2>3
<1>3. /\ s' = s /\ pc[r] = "refExtra" /\ pc'[r] = "refToken" /\ amount' = amount /\ info' = info
      /\ actual' = actual /\ tokenCharged' = tokenCharged /\ record' = record
      /\ TakeSub(r, -s[r].extraReserved) \/ fundCharged' = fundCharged
  BY <1>1 DEF RefundExtra, TakeSub, Goto, funds, token, rest, TypeOK
<1>4. QED
  BY <1>1, <1>2, <1>3 DEF TypeOK, FieldsTyped, ChargeFloor, SessionInv, PreparePCs,
     ActivePCs, SettlePCs, RefundPCs, Terminal, RollbackPCs, RaisedPCs, Open, IsSub

\* RefundToken keeps the floor under the charges of its request.
LEMMA RefundTokenFloor ==
    ASSUME NEW r \in Requests, IInv, ChargeFloor(r), RefundToken(r)
    PROVE  ChargeFloor(r)'
<1>1. TypeOK /\ SessionInv(r) /\ FieldsTyped(r)
  BY FieldTypes DEF IInv
<1>2. QED
  BY <1>1 DEF TypeOK, FieldsTyped, SessionType, RefundToken, TakeToken, Fails, Session, Goto, funds, rest, token, fault,
     ChargeFloor, SessionInv, PreparePCs, ActivePCs, SettlePCs, RefundPCs, Terminal, RollbackPCs,
     RaisedPCs, Open, IsSub

\* Crash keeps the floor under the charges of its request.
LEMMA CrashFloor ==
    ASSUME NEW r \in Requests, IInv, ChargeFloor(r), Crash(r)
    PROVE  ChargeFloor(r)'
<1>1. TypeOK /\ SessionInv(r) /\ FieldsTyped(r)
  BY FieldTypes DEF IInv
<1>2. QED
  BY <1>1 DEF TypeOK, FieldsTyped, SessionType, Crash, Fails, Session, Goto, funds, rest, token, fault,
     ChargeFloor, SessionInv, PreparePCs, ActivePCs, SettlePCs, RefundPCs, Terminal, RollbackPCs,
     RaisedPCs, Open, IsSub

\* A request's own step keeps the floor.
LEMMA StepFloor ==
    ASSUME NEW r \in Requests, IInv, ChargeFloor(r), Sound', Covers(r), Step(r) \/ Crash(r)
    PROVE  ChargeFloor(r)'
<1>1. CASE PreConsumeStep(r)
  BY <1>1, AuthenticateFloor, SelectFundingFloor, WalletCheckFloor, OverflowFloor, QueryFailsFloor,
     CheckTokenFloor, DecreaseTokenFloor, PreConsumeWalletFloor, PreConsumeSubFloor,
     RollbackTokenFloor DEF PreConsumeStep
<1>2. CASE ReserveStep(r)
  BY <1>2, ReserveFloor, ReserveFundingFloor, ReserveTokenFloor, ReserveTokenDecreaseFloor,
     RollbackFundingReserveFloor DEF ReserveStep
<1>3. CASE SettleStep(r)
  BY <1>3, SettleFloor, SettleFundingFloor, SettleTokenFloor DEF SettleStep
<1>4. CASE RefundStep(r)
  BY <1>4, RefundFloor, RefundWalletFloor, RefundSubFloor, RefundRecordFloor, RefundExtraFloor,
     RefundTokenFloor DEF RefundStep
<1>5. CASE Crash(r)
  BY <1>5, CrashFloor
<1>6. QED
  BY <1>1, <1>2, <1>3, <1>4, <1>5 DEF Step

\* Where the request is under way, the floor under its charges is what it has paid.
LEMMA UnderWayPaid ==
    ASSUME NEW r \in Requests, TypeOK', SessionInv(r)', ChargeFloor(r)',
           pc'[r] \in ActivePCs \cup SettlePCs
    PROVE  /\ fundCharged'[r] >= Paid(r)'
           /\ ~info'[r].playground => tokenCharged'[r] >= Paid(r)'
<1>1. s'[r] \in SessionType
  BY DEF TypeOK
<1>2. /\ actual'[r] \in Nat /\ s'[r].preConsumed \in Nat
      /\ s'[r].tokenConsumed = s'[r].preConsumed
      /\ fundCharged'[r] \in Int /\ tokenCharged'[r] \in Int /\ amount'[r] \in Nat
      /\ s'[r].walletConsumed \in Nat
  BY <1>1 DEF TypeOK, SessionType, SessionInv
<1>3. fundCharged'[r] >= s'[r].preConsumed \/ fundCharged'[r] >= actual'[r]
  BY <1>2 DEF ChargeFloor, SessionInv, ActivePCs, SettlePCs, RaisedPCs
<1>4. ~info'[r].playground => tokenCharged'[r] >= s'[r].preConsumed
  BY <1>2 DEF ChargeFloor
<1>5. QED
  BY <1>2, <1>3, <1>4 DEF Paid

\* Before the reservation nothing is recorded as reserved.
LEMMA PreConsumePaid ==
    ASSUME NEW r \in Requests, IInv, PaidFloor(r), PreConsumeStep(r)
    PROVE  pc'[r] = "active" \/ (pc'[r] \in PreparePCs \cup {"rejected"} /\ s'[r].preConsumed = 0)
<1>1. TypeOK /\ FieldsTyped(r) /\ s[r] \in SessionType /\ pc[r] \in PCs
  BY FieldTypes DEF IInv, TypeOK
<1>2. pc[r] \in PreparePCs
  BY DEF PreConsumeStep, Authenticate, SelectFunding, WalletCheck, Overflow, QueryFails, CheckToken,
     DecreaseToken, PreConsumeWallet, PreConsumeSub, RollbackToken, PreparePCs
<1>3. s[r].preConsumed = 0
  BY <1>2 DEF PaidFloor
<1>4. ASSUME NEW x, Session(r, x) PROVE s'[r] = x
  BY <1>1, <1>4 DEF Session, TypeOK
<1>5. ASSUME NEW l, Goto(r, l) PROVE pc'[r] = l
  BY <1>1, <1>5 DEF Goto, TypeOK
<1>6. ASSUME NEW n, NEW b
      PROVE  /\ [s[r] EXCEPT !.tokenConsumed = n].preConsumed = 0
             /\ NewSession("subscription").preConsumed = 0
             /\ [NewSession("wallet") EXCEPT !.trusted = b].preConsumed = 0
  BY <1>1, <1>3 DEF SessionType, NewSession
<1>7. ASSUME UNCHANGED s \/ (\E n : Session(r, [s[r] EXCEPT !.tokenConsumed = n]))
              \/ Session(r, NewSession("subscription"))
              \/ (\E b : Session(r, [NewSession("wallet") EXCEPT !.trusted = b]))
      PROVE  s'[r].preConsumed = 0
  <2>1. CASE UNCHANGED s
    BY <1>3, <2>1
  <2>2. CASE \E n : Session(r, [s[r] EXCEPT !.tokenConsumed = n])
    BY <1>4, <1>6, <2>2, Zenon
  <2>3. CASE Session(r, NewSession("subscription"))
    <3>1. s'[r] = NewSession("subscription")
      BY <1>4, <2>3, Zenon
    <3>2. QED
      BY <1>6, <3>1, Zenon
  <2>4. CASE \E b : Session(r, [NewSession("wallet") EXCEPT !.trusted = b])
    BY <1>4, <1>6, <2>4, Zenon
  <2>5. QED
    BY <1>7, <2>1, <2>2, <2>3, <2>4
<1>8. \/ pc'[r] = "active"
      \/ UNCHANGED s \/ (\E n : Session(r, [s[r] EXCEPT !.tokenConsumed = n]))
      \/ Session(r, NewSession("subscription"))
      \/ (\E b : Session(r, [NewSession("wallet") EXCEPT !.trusted = b]))
  BY <1>5, Zenon DEF PreConsumeStep, Authenticate, SelectFunding, WalletCheck, TrySubscription, Overflow,
     QueryFails, CheckToken, DecreaseToken, PreConsumeWallet, PreConsumeSub, FundingFailed, RollbackToken
<1>9. pc'[r] \in PreparePCs \cup {"rejected", "active"}
  BY <1>1 DEF PreConsumeStep, Authenticate, SelectFunding, WalletCheck, TrySubscription, Overflow,
     QueryFails, CheckToken, DecreaseToken, PreConsumeWallet, PreConsumeSub, FundingFailed, AfterFailure,
     RollbackToken, Goto, PreparePCs, TypeOK
<1>10. QED
  BY <1>7, <1>8, <1>9, Zenon

\* A request's own step keeps what it has paid.
LEMMA StepPaid ==
    ASSUME NEW r \in Requests, IInv, IInv', ChargeFloor(r), ChargeFloor(r)', PaidFloor(r),
           Step(r) \/ Crash(r)
    PROVE  PaidFloor(r)'
<1>1. /\ TypeOK /\ FieldsTyped(r) /\ SessionInv(r)
      /\ TypeOK' /\ SessionInv(r)' /\ pc'[r] \in PCs
      /\ actual'[r] \in Nat /\ fundCharged'[r] \in Int /\ tokenCharged'[r] \in Int
      /\ fundCharged'[r] >= 0 /\ tokenCharged'[r] >= 0
  BY FieldTypes DEF IInv, TypeOK, ChargeFloor
<1>2. CASE pc'[r] \in ActivePCs \cup SettlePCs
  <2>1. pc'[r] \notin PreparePCs \cup {"rejected"}
    BY <1>2 DEF ActivePCs, SettlePCs, PreparePCs
  <2>2. /\ fundCharged'[r] >= Paid(r)'
        /\ ~info'[r].playground => tokenCharged'[r] >= Paid(r)'
    BY <1>1, <1>2, UnderWayPaid
  <2>3. QED
    BY <2>1, <2>2 DEF PaidFloor
<1>3. CASE pc'[r] \in RefundPCs
  BY <1>1, <1>3 DEF PaidFloor, SessionInv, RefundPCs, PreparePCs
<1>4. CASE s'[r].preConsumed = 0
  BY <1>1, <1>4 DEF PaidFloor, Paid
<1>5. CASE PreConsumeStep(r)
  <2>1. pc'[r] = "active" => pc'[r] \in ActivePCs
    BY DEF ActivePCs
  <2>2. QED
    BY <1>2, <1>4, <1>5, <2>1, PreConsumePaid
<1>6. CASE ReserveStep(r)
  <2>1. pc'[r] \in ActivePCs
    BY <1>1, <1>6 DEF ReserveStep, Reserve, ReserveFunding, ReserveToken, ReserveTokenDecrease,
       RollbackFundingReserve, Goto, ActivePCs, TypeOK
  <2>2. QED
    BY <1>2, <2>1
<1>7. CASE SettleStep(r)
  <2>1. /\ pc[r] \in ActivePCs \cup SettlePCs /\ pc'[r] \in {"done", "settleFund", "settleToken"}
        /\ info' = info
    BY <1>1, <1>7 DEF SettleStep, Settle, SettleFunding, SettleToken, Goto, ActivePCs, SettlePCs, TypeOK,
       rest
  <2>2. CASE pc'[r] # "done"
    BY <1>2, <2>1, <2>2 DEF SettlePCs
  <2>3. CASE pc'[r] = "done"
    <3>1. /\ s'[r].preConsumed = s[r].preConsumed /\ s[r].preConsumed \in Nat
          /\ s[r].tokenConsumed = s[r].preConsumed
      <4>1. s[r] \in SessionType
        BY <1>1 DEF FieldsTyped
      <4>2. \/ UNCHANGED s \/ Session(r, [s[r] EXCEPT !.settled = TRUE])
            \/ Session(r, [s[r] EXCEPT !.fundingSettled = TRUE, !.settled = info[r].playground])
        BY <1>7, Zenon DEF SettleStep, Settle, SettleFunding, SettleToken
      <4>3. ASSUME NEW b
            PROVE  /\ [s[r] EXCEPT !.settled = TRUE].preConsumed = s[r].preConsumed
                   /\ [s[r] EXCEPT !.fundingSettled = TRUE, !.settled = b].preConsumed
                        = s[r].preConsumed
        BY <4>1 DEF SessionType
      <4>4. ASSUME NEW x, Session(r, x) PROVE s'[r] = x
        BY <1>1, <4>4 DEF Session, TypeOK
      <4>5. s'[r].preConsumed = s[r].preConsumed
        BY <4>2, <4>3, <4>4, Zenon
      <4>6. QED
        BY <1>1, <2>1, <4>5 DEF FieldsTyped, SessionInv
    <3>2. /\ fundCharged[r] \in Int /\ tokenCharged[r] \in Int /\ actual[r] \in Nat
          /\ ~info[r].playground => tokenCharged[r] >= s[r].preConsumed
      BY <1>1, <2>1, <3>1 DEF TypeOK, ChargeFloor
    <3>3. fundCharged'[r] >= s[r].preConsumed \/ fundCharged'[r] >= actual'[r]
      <4>1. CASE Settle(r)
        BY <1>1, <3>1, <3>2, <4>1 DEF Settle, funds, ChargeFloor, SessionInv, ActivePCs, FieldsTyped
      <4>2. CASE SettleFunding(r)
        <5>1. s'[r].settled \/ fundCharged' = fundCharged
          <6>1. CASE /\ Session(r, [s[r] EXCEPT !.fundingSettled = TRUE,
                                                 !.settled = info[r].playground])
                     /\ Goto(r, IF info[r].playground THEN "done" ELSE "settleToken")
            <7>1. info[r].playground
              BY <1>1, <2>3, <6>1 DEF Goto, TypeOK
            <7>2. SessionIs(s'[r], s[r].funding, s[r].preConsumed, s[r].tokenConsumed,
                            s[r].extraReserved, s[r].walletConsumed, s[r].subPre,
                            info[r].playground, s[r].refunded, TRUE)
              BY <1>1, <6>1, SessionFields
            <7>3. QED
              BY <7>1, <7>2 DEF SessionIs
          <6>2. CASE UNCHANGED funds
            BY <6>2 DEF funds
          <6>3. QED
            BY <4>2, <6>1, <6>2, Zenon DEF SettleFunding
        <5>2. pc[r] = "settleFund"
          BY <4>2 DEF SettleFunding
        <5>3. fundCharged[r] >= s[r].preConsumed
          BY <1>1, <3>1, <3>2, <5>2 DEF ChargeFloor, SessionInv, FieldsTyped
        <5>4. QED
          BY <5>1, <5>3 DEF ChargeFloor
      <4>3. CASE SettleToken(r)
        BY <4>3 DEF SettleToken, funds, rest, ChargeFloor
      <4>4. QED
        BY <1>7, <4>1, <4>2, <4>3 DEF SettleStep
    <3>4. ~info[r].playground =>
             tokenCharged'[r] >= s[r].preConsumed \/ tokenCharged'[r] >= actual'[r]
      <4>1. CASE UNCHANGED token
        BY <3>2, <4>1 DEF token
      <4>2. CASE TakeToken(r, Delta(r)) /\ actual' = actual
        <5>1. tokenCharged'[r] = tokenCharged[r] + actual[r] - s[r].preConsumed
          BY <1>1, <3>1, <3>2, <4>2 DEF TakeToken, Delta, TypeOK
        <5>2. QED
          BY <3>1, <3>2, <4>2, <5>1
      <4>3. QED
        BY <1>7, <4>1, <4>2 DEF SettleStep, Settle, SettleFunding, SettleToken, rest
    <3>5. QED
      BY <1>1, <2>1, <2>3, <3>1, <3>3, <3>4 DEF PaidFloor, Paid, PreparePCs
  <2>4. QED
    BY <2>2, <2>3
<1>8. CASE RefundStep(r)
  <2>1. CASE Refund(r)
    <3>1. pc[r] = "active" /\ pc'[r] \in {"refFund", "done"}
      BY <1>1, <2>1 DEF Refund, Goto, TypeOK
    <3>2. pc'[r] = "done" =>
            /\ s' = s /\ actual' = actual /\ info' = info
            /\ fundCharged' = fundCharged /\ tokenCharged' = tokenCharged
      BY <1>1, <2>1 DEF Refund, Goto, funds, token, rest, TypeOK
    <3>3. QED
      BY <1>3, <3>1, <3>2 DEF PaidFloor, Paid, PreparePCs, RefundPCs
  <2>2. CASE RefundToken(r)
    <3>1. pc[r] = "refToken" /\ pc'[r] = "done" /\ s' = s
      BY <1>1, <2>2 DEF RefundToken, Goto, TypeOK
    <3>2. s[r].refunded
      BY <1>1, <3>1 DEF SessionInv, RefundPCs
    <3>3. QED
      BY <3>1, <3>2 DEF PaidFloor, PreparePCs
  <2>3. CASE RefundWallet(r) \/ RefundSub(r) \/ RefundRecord(r) \/ RefundExtra(r)
    <3>1. pc'[r] \in RefundPCs
      BY <1>1, <2>3 DEF RefundWallet, RefundSub, RefundRecord, RefundExtra, Retry, Goto, RefundPCs, TypeOK
    <3>2. QED
      BY <1>3, <3>1
  <2>4. QED
    BY <1>8, <2>1, <2>2, <2>3 DEF RefundStep
<1>9. CASE Crash(r)
  <2>1. /\ pc'[r] = "crashed" /\ s' = s /\ actual' = actual /\ info' = info
        /\ fundCharged' = fundCharged /\ tokenCharged' = tokenCharged
    BY <1>1, <1>9 DEF Crash, Goto, funds, token, rest, TypeOK
  <2>2. QED
    BY <2>1 DEF PaidFloor, Paid, PreparePCs
<1>10. QED
  BY <1>5, <1>6, <1>7, <1>8, <1>9 DEF Step

----------------------------------------------------------------------------
(* Sums over the requests *)

\* A set of subsets of a finite set has a smallest one: the form of induction over
\* finite sets used here.
LEMMA Smallest ==
    ASSUME NEW S, IsFiniteSet(S), NEW T \in SUBSET SUBSET S, T # {}
    PROVE  \E A \in T : \A B \in T : B \subseteq A => B = A
<1>1. IsWellFoundedOn(StrictSubsetOrdering(S), SUBSET S)
  BY FS_FiniteSubsetsOfFinite, FS_StrictSubsetOrderingWellFounded
<1>2. PICK A \in T : \A B \in T : ~(<<B, A>> \in StrictSubsetOrdering(S))
  BY <1>1, WFMin
<1>3. \A B \in T : B \subseteq A => B = A
  BY <1>2 DEF StrictSubsetOrdering
<1> QED
  BY <1>3

\* The order in which SumFunction adds.
Pick(A) == CHOOSE x \in A : TRUE
\* The recursion SumFunction stands for, as an equation between functions, and
\* what it says of each subset of S.
IsSum(g, f, S) ==
    g = [A \in SUBSET S |-> IF A = {} THEN 0 ELSE f[Pick(A)] + g[A \ {Pick(A)}]]
Recurs(g, f, S) ==
   /\ g[{}] = 0
   /\ \A A \in SUBSET S : A # {} => g[A] = f[Pick(A)] + g[A \ {Pick(A)}]
Adds(g, f, S) == g \in [SUBSET S -> Int] /\ Recurs(g, f, S)

\* Pick chooses an element.
LEMMA PickIn == \A A : A # {} => Pick(A) \in A
  BY DEF Pick

\* Two such functions agree on the sets both are about.
LEMMA AddsAgree ==
    ASSUME NEW S, IsFiniteSet(S), NEW f, NEW U \in SUBSET S, NEW V \in SUBSET S,
           NEW g, NEW h, Recurs(g, f, U), Recurs(h, f, V)
    PROVE  \A A \in SUBSET (U \cap V) : g[A] = h[A]
<1> DEFINE T == {A \in SUBSET (U \cap V) : g[A] # h[A]}
<1>1. SUFFICES ASSUME T # {} PROVE FALSE
  OBVIOUS
<1>2. PICK A \in T : \A B \in T : B \subseteq A => B = A
  <2>1. T \in SUBSET SUBSET S
    OBVIOUS
  <2> HIDE DEF T
  <2> QED
    BY <1>1, <2>1, Smallest
<1>3. A # {}
  BY <1>2 DEF Recurs
<1>4. Pick(A) \in A
  BY <1>3, PickIn
<1>5. g[A \ {Pick(A)}] = h[A \ {Pick(A)}]
  BY <1>2, <1>4
<1> QED
  BY <1>2, <1>3, <1>5 DEF Recurs

\* There is such a function for every finite set.
LEMMA AddsExists ==
    ASSUME NEW S, IsFiniteSet(S), NEW f \in [S -> Int]
    PROVE  \A U \in SUBSET S : \E g : Adds(g, f, U)
<1> DEFINE T == {U \in SUBSET S : ~ \E g : Adds(g, f, U)}
<1>1. SUFFICES ASSUME T # {} PROVE FALSE
  OBVIOUS
<1>2. PICK U \in T : \A B \in T : B \subseteq U => B = U
  <2>1. T \in SUBSET SUBSET S
    OBVIOUS
  <2> HIDE DEF T
  <2> QED
    BY <1>1, <2>1, Smallest
<1>3. \A B \in SUBSET U : B # U => \E g : Adds(g, f, B)
  BY <1>2
<1> DEFINE sub(B) == CHOOSE g : Adds(g, f, B)
           val(B) == IF B = {} THEN 0 ELSE f[Pick(B)] + sub(B \ {Pick(B)})[B \ {Pick(B)}]
           G == [B \in SUBSET U |-> val(B)]
<1>4. \A B \in SUBSET U : B # U => Adds(sub(B), f, B)
  BY <1>3
<1>5. ASSUME NEW B \in SUBSET U, B # {}
      PROVE  /\ Pick(B) \in U /\ B \ {Pick(B)} \in SUBSET U /\ B \ {Pick(B)} # U
             /\ Adds(sub(B \ {Pick(B)}), f, B \ {Pick(B)})
  <2>1. Pick(B) \in B
    BY <1>5, PickIn
  <2> HIDE DEF sub
  <2>2. B \ {Pick(B)} \in SUBSET U /\ B \ {Pick(B)} # U
    BY <2>1
  <2> QED
    BY <1>4, <2>1, <2>2
<1> HIDE DEF sub
<1>6. \A B \in SUBSET U : val(B) \in Int
  <2>1. ASSUME NEW B \in SUBSET U, B # {} PROVE f[Pick(B)] \in Int /\ sub(B \ {Pick(B)})[B \ {Pick(B)}] \in Int
    <3>1. Pick(B) \in S
      BY <1>2, <1>5, <2>1
    <3>2. sub(B \ {Pick(B)}) \in [SUBSET (B \ {Pick(B)}) -> Int]
      BY <1>5, <2>1 DEF Adds
    <3> QED
      BY <3>1, <3>2
  <2> QED
    BY <2>1
<1>7. \A B \in SUBSET U : B # U => val(B) = sub(B)[B]
  <2>1. SUFFICES ASSUME NEW B \in SUBSET U, B # U, B # {} PROVE val(B) = sub(B)[B]
    BY <1>4 DEF Adds, Recurs
  <2>2. sub(B)[B] = f[Pick(B)] + sub(B)[B \ {Pick(B)}]
    BY <1>4, <2>1 DEF Adds, Recurs
  <2>3. sub(B)[B \ {Pick(B)}] = sub(B \ {Pick(B)})[B \ {Pick(B)}]
    <3>1. Adds(sub(B), f, B) /\ Adds(sub(B \ {Pick(B)}), f, B \ {Pick(B)})
      BY <1>4, <1>5, <2>1
    <3>2. B \in SUBSET S /\ B \ {Pick(B)} \in SUBSET S
      BY <1>2
    <3>3. /\ Recurs(sub(B), f, B) /\ Recurs(sub(B \ {Pick(B)}), f, B \ {Pick(B)})
          /\ B \ {Pick(B)} \in SUBSET (B \cap (B \ {Pick(B)}))
      BY <3>1 DEF Adds
    <3> QED
      BY <3>2, <3>3, AddsAgree
  <2> QED
    BY <2>1, <2>2, <2>3
<1>8. Adds(G, f, U)
  <2>1. G \in [SUBSET U -> Int] /\ G[{}] = 0
    BY <1>6
  <2>2. ASSUME NEW B \in SUBSET U, B # {} PROVE G[B] = f[Pick(B)] + G[B \ {Pick(B)}]
    BY <1>5, <1>7, <2>2
  <2> QED
    BY <2>1, <2>2 DEF Adds, Recurs
<1> QED
  BY <1>2, <1>8

\* SumFunction is the value of such a function.
LEMMA SumAdds ==
    ASSUME NEW S, IsFiniteSet(S), NEW f \in [S -> Int]
    PROVE  \E g : Adds(g, f, S) /\ SumFunction(f) = g[S]
<1> DEFINE g == CHOOSE h : IsSum(h, f, S)
<1>1. SumFunction(f) = g[S]
  BY DEF SumFunction, SumFunctionOnSet, FoldFunctionOnSet, MapThenFoldSet, IsSum, Pick
<1>2. PICK h : Adds(h, f, S)
  BY AddsExists
<1>3. IsSum(h, f, S)
  BY <1>2 DEF Adds, Recurs, IsSum
<1>4. IsSum(g, f, S)
  BY <1>3
<1> HIDE DEF g
<1>5. Recurs(g, f, S)
  BY <1>4 DEF IsSum, Recurs
<1>6. \A A \in SUBSET S : g[A] = h[A]
  BY <1>2, <1>5, AddsAgree DEF Adds
<1>7. g \in [SUBSET S -> Int]
  <2>1. g = [A \in SUBSET S |-> g[A]]
    BY <1>4 DEF IsSum
  <2> QED
    BY <1>2, <1>6, <2>1 DEF Adds
<1> QED
  BY <1>1, <1>5, <1>7 DEF Adds

\* Changing one entry changes the sum by the difference.
LEMMA SumUpdate ==
    ASSUME NEW S, IsFiniteSet(S), NEW f \in [S -> Int], NEW e \in [S -> Int],
           NEW r \in S, \A q \in S \ {r} : e[q] = f[q]
    PROVE  SumFunction(e) = SumFunction(f) + e[r] - f[r]
<1>1. PICK g : Adds(g, f, S) /\ SumFunction(f) = g[S]
  BY SumAdds
<1>2. PICK h : Adds(h, e, S) /\ SumFunction(e) = h[S]
  BY SumAdds
<1> DEFINE T == {A \in SUBSET S : h[A] # (IF r \in A THEN g[A] + e[r] - f[r] ELSE g[A])}
<1>3. SUFFICES ASSUME T # {} PROVE FALSE
  BY <1>1, <1>2
<1>4. PICK A \in T : \A B \in T : B \subseteq A => B = A
  <2>1. T \in SUBSET SUBSET S
    OBVIOUS
  <2> HIDE DEF T
  <2> QED
    BY <1>3, <2>1, Smallest
<1>5. A # {} /\ A \in SUBSET S
  BY <1>1, <1>2, <1>4 DEF Adds, Recurs
<1>6. PICK x \in A : x = Pick(A)
  BY <1>5, PickIn
<1>7. h[A \ {x}] = (IF r \in A \ {x} THEN g[A \ {x}] + e[r] - f[r] ELSE g[A \ {x}])
  BY <1>4, <1>6
<1>8. g[A] = f[x] + g[A \ {x}] /\ h[A] = e[x] + h[A \ {x}]
  BY <1>1, <1>2, <1>5, <1>6 DEF Adds, Recurs
<1>9. g[A] \in Int /\ h[A] \in Int /\ g[A \ {x}] \in Int /\ h[A \ {x}] \in Int
  BY <1>1, <1>2, <1>5 DEF Adds
<1>10. x \in S /\ f[x] \in Int /\ e[x] \in Int /\ f[r] \in Int /\ e[r] \in Int
  BY <1>5
<1>11. CASE x = r
  BY <1>4, <1>7, <1>8, <1>9, <1>10, <1>11
<1>12. CASE x # r
  <2>1. e[x] = f[x]
    BY <1>10, <1>12
  <2> QED
    BY <1>4, <1>7, <1>8, <1>9, <1>10, <1>12, <2>1
<1> QED
  BY <1>11, <1>12

\* A sum of natural numbers is at least each of them.
LEMMA SumCovers ==
    ASSUME NEW S, IsFiniteSet(S), NEW f \in [S -> Nat], NEW r \in S
    PROVE  SumFunction(f) \in Int /\ SumFunction(f) >= f[r]
<1>1. PICK g : Adds(g, f, S) /\ SumFunction(f) = g[S]
  BY SumAdds
<1> DEFINE T == {A \in SUBSET S : ~(g[A] >= 0 /\ (r \in A => g[A] >= f[r]))}
<1>3. SUFFICES ASSUME T # {} PROVE FALSE
  BY <1>1 DEF Adds
<1>4. PICK A \in T : \A B \in T : B \subseteq A => B = A
  <2>1. T \in SUBSET SUBSET S
    OBVIOUS
  <2> HIDE DEF T
  <2> QED
    BY <1>3, <2>1, Smallest
<1>5. A # {} /\ A \in SUBSET S
  <2>1. g[{}] = 0
    BY <1>1 DEF Adds, Recurs
  <2>2. {} \notin T
    BY <2>1
  <2> QED
    BY <1>4, <2>2
<1>6. PICK x \in A : x = Pick(A)
  BY <1>5, PickIn
<1>7. g[A \ {x}] >= 0 /\ (r \in A \ {x} => g[A \ {x}] >= f[r])
  BY <1>4, <1>6
<1>8. g[A] = f[x] + g[A \ {x}]
  BY <1>1, <1>5, <1>6 DEF Adds, Recurs
<1>9. g[A] \in Int /\ g[A \ {x}] \in Int
  BY <1>1, <1>5 DEF Adds
<1>10. x \in S /\ f[x] \in Nat /\ f[r] \in Nat
  BY <1>5
<1> QED
  BY <1>4, <1>7, <1>8, <1>9, <1>10

\* A sum of integers is an integer.
LEMMA SumTyped ==
    ASSUME NEW S, IsFiniteSet(S), NEW f \in [S -> Int]
    PROVE  SumFunction(f) \in Int
<1>1. PICK g : Adds(g, f, S) /\ SumFunction(f) = g[S]
  BY SumAdds
<1> QED
  BY <1>1 DEF Adds

\* A sum of zeros is zero.
LEMMA SumZero ==
    ASSUME NEW S, IsFiniteSet(S), NEW f \in [S -> Int], \A r \in S : f[r] = 0
    PROVE  SumFunction(f) = 0
<1>1. PICK g : Adds(g, f, S) /\ SumFunction(f) = g[S]
  BY SumAdds
<1> DEFINE T == {A \in SUBSET S : g[A] # 0}
<1>3. SUFFICES ASSUME T # {} PROVE FALSE
  BY <1>1
<1>4. PICK A \in T : \A B \in T : B \subseteq A => B = A
  <2>1. T \in SUBSET SUBSET S
    OBVIOUS
  <2> HIDE DEF T
  <2> QED
    BY <1>3, <2>1, Smallest
<1>5. A # {} /\ A \in SUBSET S
  BY <1>1, <1>4 DEF Adds, Recurs
<1>6. PICK x \in A : x = Pick(A)
  BY <1>5, PickIn
<1>7. g[A \ {x}] = 0
  BY <1>4, <1>6
<1>8. g[A] = f[x] + g[A \ {x}]
  BY <1>1, <1>5, <1>6 DEF Adds, Recurs
<1> QED
  BY <1>4, <1>5, <1>7, <1>8
----------------------------------------------------------------------------
(* The shared rows *)

\* The shares are functions to be summed.
LEMMA SharesTyped ==
    ASSUME TypeOK
    PROVE  /\ WalletShare \in [Requests -> Int] /\ SubShare \in [Requests -> Int]
           /\ tokenCharged \in [Requests -> Int]
  BY DEF TypeOK, WalletShare, SubShare

\* As long as nothing has failed, Books is about these shares.
LEMMA BooksByShares ==
    ASSUME IInv, faulty = {}
    PROVE  Books <=> /\ wallet = InitWallet - SumFunction(WalletShare)
                     /\ subUsed = SumFunction(SubShare)
                     /\ tokenRemain = InitToken - SumFunction(tokenCharged)
<1>1. \A r \in Requests : fundCharged[r] = FundHeld(r) /\ tokenCharged[r] = TokenHeld(r)
  BY DEF IInv, Sound, ChargedWhatIsHeld
<1>2. WalletShare = [r \in Requests |-> IF IsSub(r) THEN 0 ELSE FundHeld(r)]
  BY <1>1 DEF WalletShare
<1>3. SubShare = [r \in Requests |-> IF IsSub(r) THEN FundHeld(r) ELSE 0]
  BY <1>1 DEF SubShare
<1>4. tokenCharged = [r \in Requests |-> TokenHeld(r)]
  BY <1>1 DEF IInv, TypeOK
<1>5. QED
  BY <1>2, <1>3, <1>4 DEF Books

\* A step of r moves an amount between its funding source and r, or changes the
\* funding source of a request that holds nothing.
FundMove(r) ==
    \/ /\ wallet' = wallet /\ subUsed' = subUsed /\ fundCharged'[r] = fundCharged[r]
       /\ s'[r].funding = s[r].funding \/ fundCharged[r] = 0
    \/ /\ s'[r].funding = s[r].funding /\ ~IsSub(r)
       /\ wallet' = wallet - (fundCharged'[r] - fundCharged[r]) /\ subUsed' = subUsed
    \/ /\ s'[r].funding = s[r].funding /\ IsSub(r)
       /\ subUsed' = subUsed + (fundCharged'[r] - fundCharged[r]) /\ wallet' = wallet

\* The same for the token.
TokenMove(r) == tokenRemain' = tokenRemain - (tokenCharged'[r] - tokenCharged[r])

\* A statement that moves d is a move of d.
LEMMA MovesTaken ==
    ASSUME NEW r \in Requests, TypeOK, NEW d \in Int
    PROVE  /\ TakeWallet(r, d) => wallet' = wallet - (fundCharged'[r] - fundCharged[r])
           /\ TakeSub(r, d) => subUsed' = subUsed + (fundCharged'[r] - fundCharged[r])
           /\ TakeToken(r, d) => TokenMove(r)
<1>1. /\ fundCharged \in [Requests -> Int] /\ tokenCharged \in [Requests -> Int]
      /\ fundCharged[r] \in Int /\ tokenCharged[r] \in Int
      /\ subUsed \in Int /\ SubAfter(d) \in Int
  BY DEF TypeOK, SubAfter
<1>2. ASSUME TakeWallet(r, d) PROVE wallet' = wallet - (fundCharged'[r] - fundCharged[r])
  <2>1. fundCharged'[r] - fundCharged[r] = d
    BY <1>1, <1>2 DEF TakeWallet
  <2>2. QED
    BY <1>2, <2>1 DEF TakeWallet
<1>3. ASSUME TakeSub(r, d) PROVE subUsed' = subUsed + (fundCharged'[r] - fundCharged[r])
  <2>1. fundCharged'[r] - fundCharged[r] = SubAfter(d) - subUsed
    BY <1>1, <1>3 DEF TakeSub
  <2>2. QED
    BY <1>1, <1>3, <2>1 DEF TakeSub
<1>4. ASSUME TakeToken(r, d) PROVE TokenMove(r)
  <2>1. tokenCharged'[r] - tokenCharged[r] = d /\ tokenRemain' = tokenRemain - d
    BY <1>1, <1>4 DEF TakeToken
  <2>2. QED
    BY <2>1 DEF TokenMove
<1>5. QED
  BY <1>2, <1>3, <1>4

\* A statement on a funding source is a move, if the request keeps its source.
LEMMA FundTaken ==
    ASSUME NEW r \in Requests, TypeOK, NEW d \in Int, s'[r].funding = s[r].funding,
           (~IsSub(r) /\ TakeWallet(r, d)) \/ (IsSub(r) /\ TakeSub(r, d))
    PROVE  FundMove(r)
<1>1. CASE ~IsSub(r) /\ TakeWallet(r, d)
  <2>1. wallet' = wallet - (fundCharged'[r] - fundCharged[r])
    BY <1>1, MovesTaken
  <2>2. QED
    BY <1>1, <2>1 DEF FundMove, TakeWallet
<1>2. CASE IsSub(r) /\ TakeSub(r, d)
  <2>1. subUsed' = subUsed + (fundCharged'[r] - fundCharged[r])
    BY <1>2, MovesTaken
  <2>2. QED
    BY <1>2, <2>1 DEF FundMove, TakeSub
<1>3. QED
  BY <1>1, <1>2

\* No statement, no move.
LEMMA NothingTaken ==
    ASSUME NEW r \in Requests, TypeOK
    PROVE  /\ UNCHANGED funds /\ (s'[r].funding = s[r].funding \/ fundCharged[r] = 0) => FundMove(r)
           /\ UNCHANGED token => TokenMove(r)
<1>1. UNCHANGED funds /\ (s'[r].funding = s[r].funding \/ fundCharged[r] = 0) => FundMove(r)
  BY DEF funds, FundMove
<1>2. UNCHANGED token => TokenMove(r)
  BY DEF token, TokenMove, TypeOK
<1>3. QED
  BY <1>1, <1>2

\* Every step but the choice of a funding source keeps it.
LEMMA SourceKept ==
    ASSUME NEW r \in Requests, IInv, Step(r)
    PROVE  \/ s'[r].funding = s[r].funding
           \/ pc[r] \in {"select", "walletCheck"}
<1>1. s \in [Requests -> SessionType] /\ s[r] \in SessionType
  BY DEF IInv, TypeOK
<1>2. ASSUME NEW x, Session(r, x), x.funding = s[r].funding PROVE s'[r].funding = s[r].funding
  BY <1>1, <1>2 DEF Session
<1>3. ASSUME NEW n, NEW m, NEW k, NEW b
      PROVE  /\ [s[r] EXCEPT !.tokenConsumed = n].funding = s[r].funding
             /\ [s[r] EXCEPT !.walletConsumed = n].funding = s[r].funding
             /\ [s[r] EXCEPT !.walletConsumed = n, !.preConsumed = n].funding = s[r].funding
             /\ [s[r] EXCEPT !.subPre = n, !.preConsumed = n].funding = s[r].funding
             /\ [s[r] EXCEPT !.settled = TRUE].funding = s[r].funding
             /\ [s[r] EXCEPT !.refunded = TRUE].funding = s[r].funding
             /\ [s[r] EXCEPT !.fundingSettled = TRUE, !.settled = b].funding = s[r].funding
  BY <1>1 DEF SessionType
<1>4. [s[r] EXCEPT !.preConsumed = @ + amount[r], !.tokenConsumed = @ + amount[r],
                   !.extraReserved = @ + amount[r]].funding = s[r].funding
  BY <1>1 DEF SessionType
<1>5. CASE UNCHANGED s
  BY <1>5
<1>6. CASE PreConsumeStep(r)
  BY <1>2, <1>3, <1>5, <1>6, Zenon DEF PreConsumeStep, Authenticate, SelectFunding, WalletCheck,
     Overflow, QueryFails, CheckToken, DecreaseToken, PreConsumeWallet, PreConsumeSub,
     RollbackToken, FundingFailed
<1>7. CASE ReserveStep(r)
  BY <1>2, <1>3, <1>4, <1>5, <1>7, Zenon DEF ReserveStep, Reserve, ReserveFunding, ReserveToken,
     ReserveTokenDecrease, RollbackFundingReserve, Reserved
<1>8. CASE SettleStep(r)
  BY <1>2, <1>3, <1>5, <1>8, Zenon DEF SettleStep, Settle, SettleFunding, SettleToken
<1>9. CASE RefundStep(r)
  BY <1>2, <1>3, <1>5, <1>9, Zenon DEF RefundStep, Refund, RefundWallet, RefundSub, RefundRecord,
     RefundExtra, RefundToken
<1>10. QED
  BY <1>6, <1>7, <1>8, <1>9 DEF Step

\* Every step moves the funding source by what it charges its request.
LEMMA StepMovesFunds ==
    ASSUME NEW r \in Requests, IInv, RowInv, Step(r)
    PROVE  FundMove(r)
<1>1. TypeOK /\ FieldsTyped(r) /\ amount[r] \in Nat /\ actual[r] \in Nat /\ SessionInv(r)
  BY FieldTypes DEF IInv, TypeOK
<1>2. s'[r].funding = s[r].funding \/ fundCharged[r] = 0
  <2>1. pc[r] \in {"select", "walletCheck"} => fundCharged[r] = 0
    BY DEF RowInv, PreparePCs
  <2>2. QED
    BY <2>1, SourceKept
<1>3. pc[r] \notin {"select", "walletCheck"} => s'[r].funding = s[r].funding
  BY SourceKept
<1>4. CASE UNCHANGED funds
  BY <1>1, <1>2, <1>4, NothingTaken
<1>5. ASSUME NEW d \in Int, pc[r] \notin {"select", "walletCheck"},
             (~IsSub(r) /\ TakeWallet(r, d)) \/ (IsSub(r) /\ TakeSub(r, d))
      PROVE  FundMove(r)
  BY <1>1, <1>3, <1>5, FundTaken
<1>6. CASE PreConsumeSub(r)
  <2>1. CASE /\ subUsed' = subUsed + amount[r] /\ wallet' = wallet
             /\ fundCharged' = [fundCharged EXCEPT ![r] = @ + amount[r]]
    <3>1. fundCharged'[r] - fundCharged[r] = amount[r]
      BY <1>1, <2>1 DEF TypeOK
    <3>2. pc[r] = "fund" /\ IsSub(r)
      BY <1>6 DEF PreConsumeSub
    <3>3. QED
      BY <1>3, <2>1, <3>1, <3>2 DEF FundMove
  <2>2. QED
    BY <1>4, <1>6, <2>1 DEF PreConsumeSub, FundingFailed
<1>7. CASE PreConsumeStep(r)
  <2>1. CASE PreConsumeWallet(r)
    <3>1. pc[r] = "fund" /\ ~IsSub(r) /\ (TakeWallet(r, amount[r]) \/ UNCHANGED funds)
      BY <2>1, Zenon DEF PreConsumeWallet, FundingFailed
    <3>2. amount[r] \in Int
      BY <1>1
    <3>3. QED
      BY <1>4, <1>5, <3>1, <3>2
  <2>2. CASE \/ Authenticate(r) \/ SelectFunding(r) \/ WalletCheck(r) \/ Overflow(r)
             \/ QueryFails(r) \/ CheckToken(r) \/ DecreaseToken(r) \/ RollbackToken(r)
    <3>1. UNCHANGED funds
      BY <2>2, Zenon DEF Authenticate, SelectFunding, WalletCheck, Overflow, QueryFails, CheckToken,
         DecreaseToken, RollbackToken
    <3>2. QED
      BY <1>4, <3>1
  <2>3. QED
    BY <1>6, <1>7, <2>1, <2>2 DEF PreConsumeStep
<1>8. CASE ReserveStep(r)
  BY <1>1, <1>4, <1>5, <1>8 DEF ReserveStep, Reserve, ReserveFunding, ReserveToken,
     ReserveTokenDecrease, RollbackFundingReserve
<1>9. CASE SettleStep(r)
  <2>1. Delta(r) \in Int
    BY <1>1 DEF Delta, FieldsTyped
  <2>2. QED
    BY <1>1, <1>4, <1>5, <1>9, <2>1 DEF SettleStep, Settle, SettleFunding, SettleToken
<1>10. CASE RefundStep(r)
  <2>1. CASE RefundRecord(r)
    BY <1>3, <2>1 DEF RefundRecord, FundMove
  <2>2. pc[r] = "refExtra" => IsSub(r)
    BY <1>1 DEF SessionInv
  <2>3. QED
    BY <1>1, <1>4, <1>5, <1>10, <2>1, <2>2 DEF RefundStep, Refund, RefundWallet, RefundSub,
       RefundExtra, RefundToken, FieldsTyped
<1>11. QED
  BY <1>7, <1>8, <1>9, <1>10 DEF Step

\* Every step moves the token by what it charges its request.
LEMMA StepMovesToken ==
    ASSUME NEW r \in Requests, IInv, Step(r)
    PROVE  TokenMove(r)
<1>1. TypeOK /\ FieldsTyped(r) /\ amount[r] \in Nat /\ actual[r] \in Nat
  BY FieldTypes DEF IInv, TypeOK
<1>2. CASE UNCHANGED token
  BY <1>1, <1>2, NothingTaken
<1>3. ASSUME NEW d \in Int, TakeToken(r, d) PROVE TokenMove(r)
  BY <1>1, <1>3, MovesTaken
<1>4. CASE PreConsumeStep(r)
  <2>1. CASE DecreaseToken(r) \/ RollbackToken(r)
    BY <1>1, <1>2, <1>3, <2>1 DEF DecreaseToken, RollbackToken, FieldsTyped
  <2>2. CASE \/ Authenticate(r) \/ SelectFunding(r) \/ WalletCheck(r) \/ Overflow(r)
             \/ QueryFails(r) \/ CheckToken(r) \/ PreConsumeWallet(r) \/ PreConsumeSub(r)
    <3>1. UNCHANGED token
      BY <2>2, Zenon DEF Authenticate, SelectFunding, WalletCheck, Overflow, QueryFails, CheckToken,
         PreConsumeWallet, PreConsumeSub
    <3>2. QED
      BY <1>2, <3>1
  <2>3. QED
    BY <1>4, <2>1, <2>2 DEF PreConsumeStep
<1>5. CASE ReserveStep(r)
  BY <1>1, <1>2, <1>3, <1>5 DEF ReserveStep, Reserve, ReserveFunding, ReserveToken,
     ReserveTokenDecrease, RollbackFundingReserve
<1>6. CASE SettleStep(r)
  <2>1. Delta(r) \in Int
    BY <1>1 DEF Delta, FieldsTyped
  <2>2. QED
    BY <1>2, <1>3, <1>6, <2>1 DEF SettleStep, Settle, SettleFunding, SettleToken
<1>7. CASE RefundStep(r)
  BY <1>1, <1>2, <1>3, <1>7 DEF RefundStep, Refund, RefundWallet, RefundSub, RefundRecord,
     RefundExtra, RefundToken, FieldsTyped
<1>8. QED
  BY <1>4, <1>5, <1>6, <1>7 DEF Step

\* A step keeps the subscription row the sum of what the requests took from it.
LEMMA MoveKeepsRow ==
    ASSUME NEW r \in Requests, IInv, IInv', Frame(r), RowInv, FundMove(r)
    PROVE  subUsed' = SumFunction(SubShare')
<1>1. TypeOK /\ TypeOK' /\ IsFiniteSet(Requests)
  BY ConstantsAssumption DEF IInv
<1>2. SubShare \in [Requests -> Int] /\ SubShare' \in [Requests -> Int]
  BY <1>1 DEF TypeOK, SubShare
<1>3. \A q \in Requests \ {r} : SubShare'[q] = SubShare[q]
  BY DEF Frame, SubShare, IsSub
<1>4. SumFunction(SubShare') = SumFunction(SubShare) + SubShare'[r] - SubShare[r]
  BY <1>1, <1>2, <1>3, SumUpdate
<1>5. SumFunction(SubShare) \in Int
  BY <1>1, <1>2, SumTyped
<1>6. /\ SubShare[r] = (IF IsSub(r) THEN fundCharged[r] ELSE 0)
      /\ SubShare'[r] = (IF s'[r].funding = "subscription" THEN fundCharged'[r] ELSE 0)
  BY DEF SubShare, IsSub
<1>7. fundCharged[r] \in Int /\ fundCharged'[r] \in Int
  BY <1>1 DEF TypeOK
<1>8. QED
  BY <1>4, <1>5, <1>6, <1>7 DEF RowInv, FundMove, IsSub

\* A request that has not reserved anything yet has taken nothing.
LEMMA PrepareTakesNothing ==
    ASSUME NEW r \in Requests, IInv, Step(r) \/ Crash(r),
           pc[r] \in PreparePCs => fundCharged[r] = 0
    PROVE  pc'[r] \in PreparePCs => fundCharged'[r] = 0
<1>1. TypeOK
  BY DEF IInv
<1>2. CASE PreConsumeStep(r)
  <2>1. pc[r] \in PreparePCs /\ (pc'[r] = "active" \/ UNCHANGED funds)
    BY <1>1, <1>2 DEF PreConsumeStep, Authenticate, SelectFunding, WalletCheck, Overflow, QueryFails,
       CheckToken, DecreaseToken, PreConsumeWallet, PreConsumeSub, FundingFailed, RollbackToken, Goto,
       TypeOK, PreparePCs
  <2>2. QED
    BY <2>1 DEF funds, PreparePCs
<1>3. CASE ReserveStep(r) \/ SettleStep(r) \/ RefundStep(r) \/ Crash(r)
  <2>1. pc'[r] \notin PreparePCs
    BY <1>1, <1>3 DEF ReserveStep, Reserve, ReserveFunding, ReserveToken, ReserveTokenDecrease,
       RollbackFundingReserve, SettleStep, Settle, SettleFunding, SettleToken, RefundStep, Refund,
       RefundWallet, RefundSub, RefundRecord, RefundExtra, RefundToken, Retry, Crash, Goto, TypeOK,
       PreparePCs
  <2>2. QED
    BY <2>1
<1>4. QED
  BY <1>2, <1>3 DEF Step

\* As long as no refund can have been applied twice, the row covers every request.
LEMMA RowCovers ==
    ASSUME BillingInv, Sound, NEW r \in Requests
    PROVE  Covers(r)
<1>1. IsFiniteSet(Requests)
  BY ConstantsAssumption
<1>2. SubShare \in [Requests -> Nat]
  BY DEF BillingInv, FloorInv, ChargeFloor, IInv, TypeOK, SubShare
<1>3. SumFunction(SubShare) >= SubShare[r]
  BY <1>1, <1>2, SumCovers
<1>4. QED
  BY <1>3 DEF BillingInv, RowInv, SubShare, Covers

----------------------------------------------------------------------------
(* The invariant *)

\* The whole invariant holds before any request runs.
LEMMA BillingInit == Init => BillingInv
<1> SUFFICES ASSUME Init PROVE BillingInv
  OBVIOUS
<1>1. IInv /\ IsFiniteSet(Requests)
  BY InitOK, ConstantsAssumption
<1>2. FloorInv
  BY DEF Init, FloorInv, ChargeFloor, PaidFloor, Paid, NewSession, IsSub, ActivePCs, SettlePCs, RefundPCs,
     RollbackPCs, RaisedPCs
<1>3. SubShare \in [Requests -> Int] /\ \A r \in Requests : SubShare[r] = 0
  BY DEF Init, SubShare
<1>4. SumFunction(SubShare) = 0
  BY <1>1, <1>3, SumZero
<1>5. QED
  BY <1>1, <1>2, <1>4 DEF BillingInv, RowInv, Init

\* A step of a request preserves the whole invariant and the other requests.
LEMMA BillingStep ==
    ASSUME NEW r \in Requests, BillingInv, Step(r) \/ Crash(r)
    PROVE  BillingInv' /\ Frame(r)
<1>1. IInv /\ RowInv /\ (Sound => Covers(r))
  BY RowCovers DEF BillingInv
<1>2. IInv' /\ Frame(r)
  BY <1>1, StepOK
<1>3. Sound' => Sound
  BY <1>2 DEF Frame, Sound
<1>4. ASSUME Sound' PROVE FloorInv'
  <2>1. FloorInv /\ Covers(r)
    BY <1>1, <1>3, <1>4 DEF BillingInv
  <2>2. ChargeFloor(r)' /\ PaidFloor(r)'
    BY <1>1, <1>2, <1>4, <2>1, StepFloor, StepPaid DEF FloorInv
  <2>3. ASSUME NEW q \in Requests \ {r} PROVE ChargeFloor(q)' /\ PaidFloor(q)'
    <3>1. ChargeFloor(q) /\ PaidFloor(q)
      BY <2>1 DEF FloorInv
    <3>2. /\ pc'[q] = pc[q] /\ info'[q] = info[q] /\ amount'[q] = amount[q]
          /\ s'[q] = s[q] /\ actual'[q] = actual[q] /\ record'[q] = record[q]
          /\ fundCharged'[q] = fundCharged[q] /\ tokenCharged'[q] = tokenCharged[q]
      BY <1>2 DEF Frame
    <3>3. QED
      BY <3>1, <3>2 DEF ChargeFloor, PaidFloor, Paid, IsSub
  <2>4. QED
    BY <2>2, <2>3 DEF FloorInv
<1>5. subUsed' = SumFunction(SubShare')
  <2>1. CASE Step(r)
    BY <1>1, <1>2, <2>1, StepMovesFunds, MoveKeepsRow
  <2>2. CASE Crash(r)
    <3>1. SubShare' = SubShare /\ subUsed' = subUsed
      BY <2>2 DEF Crash, funds, SubShare, IsSub
    <3>2. QED
      BY <1>1, <3>1 DEF RowInv
  <2>3. QED
    BY <2>1, <2>2
<1>6. \A q \in Requests : pc'[q] \in PreparePCs => fundCharged'[q] = 0
  <2>1. pc'[r] \in PreparePCs => fundCharged'[r] = 0
    BY <1>1, PrepareTakesNothing DEF RowInv
  <2>2. QED
    BY <1>1, <1>2, <2>1 DEF RowInv, Frame
<1>7. QED
  BY <1>2, <1>4, <1>5, <1>6 DEF BillingInv, RowInv

\* Stuttering preserves the whole invariant.
LEMMA BillingStutter ==
    ASSUME BillingInv, UNCHANGED vars
    PROVE  BillingInv'
<1>1. IInv'
  BY StutterOK DEF BillingInv
<1>2. Sound' => FloorInv'
  <2>1. Sound' => Sound
    BY DEF Sound, vars, fault
  <2>2. FloorInv => FloorInv'
    BY DEF vars, db, hist, FloorInv, ChargeFloor, PaidFloor, Paid, IsSub
  <2>3. QED
    BY <2>1, <2>2 DEF BillingInv
<1>3. RowInv'
  <2>1. SubShare' = SubShare /\ subUsed' = subUsed
    BY DEF SubShare, IsSub, vars, db, hist
  <2>2. QED
    BY <2>1 DEF BillingInv, RowInv, vars, hist
<1>4. QED
  BY <1>1, <1>2, <1>3 DEF BillingInv

\* BillingInv is an inductive invariant of the billing sessions.
THEOREM Invariance == Spec => []BillingInv
<1>1. BillingInv /\ [Next]_vars => BillingInv'
  BY BillingStep, BillingStutter DEF Next, Finished
<1>2. QED
  BY BillingInit, <1>1, PTL DEF Spec

\* Every variable of the billing sessions keeps its type; in particular no
\* counter of a session (walletConsumed, attempts) ever leaves its range.
THEOREM TypeCorrect == Spec => []TypeOK
<1>1. BillingInv => TypeOK
  BY DEF BillingInv, IInv
<1>2. QED
  BY Invariance, <1>1, PTL

\* Settle, Refund, Reserve and the rollbacks of NewBillingSession never skip or
\* repeat a statement: a request whose statements work is charged exactly what
\* its session stands for, however many requests run beside it and whatever
\* fails for them.  The one failure left out is that of saving the status of a
\* pre-consume record: the refund it repeats may take another request's usage
\* off the row, and the clamp at 0 then swallows a part of that one's refund.
THEOREM ChargesExact ==
    ASSUME "record" \notin Fallible
    PROVE  Spec => []ChargedWhatIsHeld
<1>1. BillingInv => ChargedWhatIsHeld
  BY DEF BillingInv, IInv, Sound
<1>2. QED
  BY Invariance, <1>1, PTL

\* The subscription never exceeds its total (PreConsumeUserSubscription,
\* PostConsumeUserSubscriptionDelta).
THEOREM SubscriptionBounded == Spec => []SubWithinTotal
<1>1. Init => SubWithinTotal
  BY ConstantsAssumption DEF Init, SubWithinTotal
<1>2. TypeOK /\ SubWithinTotal /\ [Next]_vars => SubWithinTotal'
  <2> SUFFICES ASSUME TypeOK, SubWithinTotal, [Next]_vars PROVE SubWithinTotal'
    OBVIOUS
  <2>1. CASE subUsed' = subUsed
    BY <2>1 DEF SubWithinTotal
  <2>2. ASSUME NEW r \in Requests, NEW d \in Int, TakeSub(r, d) PROVE SubWithinTotal'
    BY <2>2 DEF TakeSub, SubFits, SubWithinTotal
  <2>3. ASSUME NEW r \in Requests, PreConsumeSub(r) PROVE SubWithinTotal'
    <3>1. amount[r] \in Nat /\ subUsed \in Nat /\ SubTotal \in Nat
      BY ConstantsAssumption DEF TypeOK
    <3>2. \/ subUsed' = subUsed + amount[r] /\ (SubTotal > 0 => SubTotal - subUsed >= amount[r])
          \/ subUsed' = subUsed
      BY <2>3 DEF PreConsumeSub, FundingFailed, funds
    <3>3. QED
      BY <3>1, <3>2 DEF SubWithinTotal
  <2>4. ASSUME NEW r \in Requests, Step(r) \/ Crash(r) PROVE SubWithinTotal'
    <3>1. FieldsTyped(r) /\ amount[r] \in Nat /\ actual[r] \in Nat
      BY FieldTypes DEF TypeOK
    <3>2. CASE PreConsumeStep(r)
      BY <2>1, <2>3, <3>2 DEF PreConsumeStep, Authenticate, SelectFunding, WalletCheck, Overflow,
         QueryFails, CheckToken, DecreaseToken, PreConsumeWallet, RollbackToken, FundingFailed,
         TakeWallet, funds
    <3>3. CASE ReserveStep(r)
      BY <2>1, <2>2, <3>1, <3>3 DEF ReserveStep, Reserve, ReserveFunding, ReserveToken,
         ReserveTokenDecrease, RollbackFundingReserve, TakeWallet, funds
    <3>4. CASE SettleStep(r)
      BY <2>1, <2>2, <3>1, <3>4 DEF SettleStep, Settle, SettleFunding, SettleToken, Delta,
         TakeWallet, funds, FieldsTyped
    <3>5. CASE RefundStep(r)
      BY <2>1, <2>2, <3>1, <3>5 DEF RefundStep, Refund, RefundWallet, RefundSub, RefundRecord,
         RefundExtra, RefundToken, TakeWallet, funds, FieldsTyped
    <3>6. CASE Crash(r)
      BY <2>1, <3>6 DEF Crash, funds
    <3>7. QED
      BY <2>4, <3>2, <3>3, <3>4, <3>5, <3>6 DEF Step
  <2>5. QED
    BY <2>1, <2>4 DEF Next, Finished, vars, db
<1>3. QED
  BY <1>1, <1>2, TypeCorrect, PTL DEF Spec

\* Once a request is settled or over no step changes what it was charged, and a
\* refunded session is never settled: the Refund that the relay defers cannot
\* undo a Settle.
THEOREM ChargesFinal == Spec => ChargesAreFinal
<1> DEFINE FinalStep ==
        \A r \in Requests :
          /\ s[r].settled \/ pc[r] \in Terminal =>
                 /\ fundCharged'[r] = fundCharged[r]
                 /\ tokenCharged'[r] = tokenCharged[r]
          /\ ~(s'[r].refunded /\ (s'[r].settled \/ s'[r].fundingSettled))
<1>1. ASSUME BillingInv, BillingInv', [Next]_vars PROVE [FinalStep]_vars
  <2> SUFFICES ASSUME Next, NEW q \in Requests
               PROVE  /\ s[q].settled \/ pc[q] \in Terminal =>
                             /\ fundCharged'[q] = fundCharged[q]
                             /\ tokenCharged'[q] = tokenCharged[q]
                      /\ ~(s'[q].refunded /\ (s'[q].settled \/ s'[q].fundingSettled))
    BY <1>1
  <2>1. ~(s'[q].refunded /\ (s'[q].settled \/ s'[q].fundingSettled))
    <3>1. SessionInv(q)' /\ pc'[q] \in PCs
      BY <1>1 DEF BillingInv, IInv, TypeOK
    <3>2. QED
      BY <3>1 DEF SessionInv, Open, PCs, PreparePCs, ActivePCs, SettlePCs, RefundPCs, Terminal
  <2>2. s[q].settled => pc[q] \in Terminal
    <3>1. SessionInv(q) /\ pc[q] \in PCs
      BY <1>1 DEF BillingInv, IInv, TypeOK
    <3>2. QED
      BY <3>1 DEF SessionInv, Open, PCs, PreparePCs, ActivePCs, SettlePCs, RefundPCs, Terminal
  <2>3. ASSUME NEW r \in Requests, Step(r) \/ Crash(r), pc[q] \in Terminal PROVE q # r
    BY <2>3 DEF Step, PreConsumeStep, ReserveStep, SettleStep, RefundStep, Authenticate,
       SelectFunding, WalletCheck, Overflow, QueryFails, CheckToken, DecreaseToken,
       PreConsumeWallet, PreConsumeSub, RollbackToken, Reserve, ReserveFunding, ReserveToken,
       ReserveTokenDecrease, RollbackFundingReserve, Settle, SettleFunding, SettleToken, Refund,
       RefundWallet, RefundSub, RefundRecord, RefundExtra, RefundToken, Crash, Terminal
  <2>4. CASE Finished
    BY <2>1, <2>4 DEF Finished, vars, hist
  <2>5. CASE \E r \in Requests : Step(r) \/ Crash(r)
    <3>1. PICK r \in Requests : Step(r) \/ Crash(r)
      BY <2>5
    <3>2. Frame(r)
      BY <1>1, <3>1, BillingStep
    <3>3. QED
      BY <2>1, <2>2, <2>3, <3>1, <3>2 DEF Frame
  <2>6. QED
    BY <2>4, <2>5 DEF Next
<1>2. QED
  BY <1>1, Invariance, PTL DEF Spec, ChargesAreFinal

\* Whatever statement fails and wherever the process stops, a request never
\* gets back more than it paid, one whose funding was settled has paid its actual
\* cost, and one served although its settlement failed has paid at least its
\* reservation or its cost, whichever is less: what Settle's logged error can
\* lose is the cost beyond the reservation.  The one failure left out is that of
\* saving the status of a pre-consume record, after which
\* RefundSubscriptionPreConsume repeats its refund.
THEOREM LossesBounded ==
    ASSUME "record" \notin Fallible
    PROVE  Spec => []LossBounded
<1>1. BillingInv => LossBounded
  BY DEF BillingInv, Sound, FloorInv, ChargeFloor, PaidFloor, LossBounded
<1>2. QED
  BY Invariance, <1>1, PTL

----------------------------------------------------------------------------
(* The books *)

\* A move keeps the books.
LEMMA MoveKeepsBooks ==
    ASSUME NEW r \in Requests, IInv, IInv', Frame(r), faulty = {}, faulty' = {}, Books,
           FundMove(r), TokenMove(r)
    PROVE  Books'
<1>1. /\ wallet = InitWallet - SumFunction(WalletShare)
      /\ subUsed = SumFunction(SubShare)
      /\ tokenRemain = InitToken - SumFunction(tokenCharged)
  BY BooksByShares
<1>2. TypeOK /\ TypeOK' /\ InitWallet \in Int /\ InitToken \in Int /\ IsFiniteSet(Requests)
  BY ConstantsAssumption DEF IInv
<1>3. /\ WalletShare \in [Requests -> Int] /\ SubShare \in [Requests -> Int]
      /\ tokenCharged \in [Requests -> Int]
  BY <1>2, SharesTyped
<1>4. /\ WalletShare' \in [Requests -> Int] /\ SubShare' \in [Requests -> Int]
      /\ tokenCharged' \in [Requests -> Int]
  BY <1>2 DEF TypeOK, WalletShare, SubShare
<1>5. \A q \in Requests \ {r} :
         WalletShare'[q] = WalletShare[q] /\ SubShare'[q] = SubShare[q]
         /\ tokenCharged'[q] = tokenCharged[q]
  BY DEF Frame, WalletShare, SubShare, IsSub
<1>6. /\ SumFunction(WalletShare') = SumFunction(WalletShare) + WalletShare'[r] - WalletShare[r]
      /\ SumFunction(SubShare') = SumFunction(SubShare) + SubShare'[r] - SubShare[r]
      /\ SumFunction(tokenCharged') = SumFunction(tokenCharged) + tokenCharged'[r] - tokenCharged[r]
  BY <1>2, <1>3, <1>4, <1>5, SumUpdate
<1>7. /\ SumFunction(WalletShare) \in Int /\ SumFunction(SubShare) \in Int
      /\ SumFunction(tokenCharged) \in Int
  BY <1>2, <1>3, SumTyped
<1>8. /\ WalletShare[r] = (IF IsSub(r) THEN 0 ELSE fundCharged[r])
      /\ SubShare[r] = (IF IsSub(r) THEN fundCharged[r] ELSE 0)
      /\ WalletShare'[r] = (IF s'[r].funding = "subscription" THEN 0 ELSE fundCharged'[r])
      /\ SubShare'[r] = (IF s'[r].funding = "subscription" THEN fundCharged'[r] ELSE 0)
  BY DEF WalletShare, SubShare, IsSub
<1>9. /\ fundCharged[r] \in Int /\ fundCharged'[r] \in Int
      /\ tokenCharged[r] \in Int /\ tokenCharged'[r] \in Int
  BY <1>2 DEF TypeOK
<1>10. wallet' = InitWallet - SumFunction(WalletShare')
  BY <1>1, <1>2, <1>6, <1>7, <1>8, <1>9 DEF FundMove, IsSub
<1>11. subUsed' = SumFunction(SubShare')
  BY <1>1, <1>6, <1>7, <1>8, <1>9 DEF FundMove, IsSub
<1>12. tokenRemain' = InitToken - SumFunction(tokenCharged')
  BY <1>1, <1>2, <1>6, <1>7, <1>9 DEF TokenMove
<1>13. Books'
  <2>1. \A q \in Requests : fundCharged'[q] = FundHeld(q)' /\ tokenCharged'[q] = TokenHeld(q)'
    BY DEF IInv, Sound, ChargedWhatIsHeld
  <2>2. WalletShare' = [q \in Requests |-> IF IsSub(q) THEN 0 ELSE FundHeld(q)]'
    BY <2>1 DEF WalletShare
  <2>3. SubShare' = [q \in Requests |-> IF IsSub(q) THEN FundHeld(q) ELSE 0]'
    BY <2>1 DEF SubShare
  <2>4. tokenCharged' = [q \in Requests |-> TokenHeld(q)]'
    BY <1>2, <2>1 DEF TypeOK
  <2>5. QED
    BY <1>10, <1>11, <1>12, <2>2, <2>3, <2>4 DEF Books
<1>14. QED
  BY <1>13

\* The shared rows are the initial ones less what the requests hold: no statement
\* of any request loses or repeats a part of another's reservation, settlement or
\* refund, for any number of requests, as long as no statement has failed.
THEOREM BooksBalance == Spec => []Books
<1>1. Init => Books
  <2> SUFFICES ASSUME Init PROVE Books
    OBVIOUS
  <2>1. IInv /\ faulty = {}
    BY InitOK DEF Init
  <2>2. IsFiniteSet(Requests) /\ InitWallet \in Int /\ InitToken \in Int
    BY ConstantsAssumption
  <2>3. \A r \in Requests : fundCharged[r] = 0 /\ tokenCharged[r] = 0
    BY DEF Init
  <2>4. /\ WalletShare \in [Requests -> Int] /\ SubShare \in [Requests -> Int]
        /\ tokenCharged \in [Requests -> Int]
    BY <2>1, SharesTyped DEF IInv
  <2>5. \A r \in Requests : WalletShare[r] = 0 /\ SubShare[r] = 0
    BY <2>3 DEF WalletShare, SubShare
  <2>6. /\ SumFunction(WalletShare) = 0 /\ SumFunction(SubShare) = 0
        /\ SumFunction(tokenCharged) = 0
    BY <2>2, <2>3, <2>4, <2>5, SumZero
  <2>7. wallet = InitWallet - 0 /\ subUsed = 0 /\ tokenRemain = InitToken - 0
    BY <2>2 DEF Init
  <2>8. QED
    BY <2>1, <2>6, <2>7, BooksByShares
<1>2. ASSUME BillingInv, Books, [Next]_vars PROVE Books'
  <2>1. CASE UNCHANGED vars
    <3>1. /\ wallet' = wallet /\ subUsed' = subUsed /\ tokenRemain' = tokenRemain
          /\ faulty' = faulty
      BY <2>1 DEF vars, db, fault
    <3>2. \A r \in Requests : /\ FundHeld(r)' = FundHeld(r) /\ TokenHeld(r)' = TokenHeld(r)
                              /\ IsSub(r)' <=> IsSub(r)
      BY <2>1 DEF vars, FundHeld, TokenHeld, IsSub
    <3>3. /\ [r \in Requests |-> IF IsSub(r) THEN 0 ELSE FundHeld(r)]'
                = [r \in Requests |-> IF IsSub(r) THEN 0 ELSE FundHeld(r)]
          /\ [r \in Requests |-> IF IsSub(r) THEN FundHeld(r) ELSE 0]'
                = [r \in Requests |-> IF IsSub(r) THEN FundHeld(r) ELSE 0]
          /\ [r \in Requests |-> TokenHeld(r)]' = [r \in Requests |-> TokenHeld(r)]
      BY <3>2
    <3>4. QED
      BY <1>2, <3>1, <3>3 DEF Books
  <2>2. ASSUME NEW r \in Requests, Step(r) \/ Crash(r) PROVE Books'
    <3>1. IInv /\ RowInv /\ IInv' /\ Frame(r)
      BY <1>2, <2>2, BillingStep DEF BillingInv
    <3>2. CASE faulty' # {}
      BY <3>2 DEF Books
    <3>3. CASE faulty' = {}
      <4>1. faulty = {} /\ Step(r)
        <5>1. ~Crash(r)
          BY <3>3 DEF Crash, Fails
        <5>2. r \notin faulty
          <6>1. CASE faulty' = faulty
            BY <3>3, <6>1
          <6>2. CASE faulty' = faulty \cup {r}
            BY <3>3, <6>2
          <6>3. faulty' = faulty \/ faulty' = faulty \cup {r}
            BY <2>2, <5>1 DEF Step, PreConsumeStep, ReserveStep, SettleStep, RefundStep,
               Authenticate, SelectFunding, WalletCheck, Overflow, QueryFails, CheckToken,
               DecreaseToken, PreConsumeWallet, PreConsumeSub, RollbackToken, Reserve,
               ReserveFunding, ReserveToken, ReserveTokenDecrease, RollbackFundingReserve, Settle,
               SettleFunding, SettleToken, Refund, RefundWallet, RefundSub, RefundRecord,
               RefundExtra, RefundToken, Fails, fault
          <6>4. QED
            BY <6>1, <6>2, <6>3
        <5>3. \A q \in Requests : q \notin faulty
          BY <3>1, <3>3, <5>2 DEF Frame
        <5>4. QED
          BY <2>2, <3>1, <5>1, <5>3 DEF IInv, TypeOK
      <4>2. QED
        BY <1>2, <3>1, <3>3, <4>1, StepMovesFunds, StepMovesToken, MoveKeepsBooks
    <3>4. QED
      BY <3>2, <3>3
  <2>3. QED
    BY <1>2, <2>1, <2>2 DEF Next, Finished
<1>3. QED
  BY <1>1, <1>2, Invariance, PTL DEF Spec
=============================
