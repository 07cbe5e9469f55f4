------------------------------ MODULE Payments ------------------------------
(***************************************************************************)
(* Online payments: an order is requested, a payment gateway reports its   *)
(* outcome by webhook, at least once and in any order, and the handler     *)
(* credits the user's wallet (a top-up) or opens a subscription.           *)
(*                                                                         *)
(* Sources: controller/topup*.go, controller/subscription_payment_*.go,    *)
(* model/topup.go, model/subscription.go.                                  *)
(*                                                                         *)
(* A handler is a goroutine that serves one notice or one request of an    *)
(* administrator.  Handlers of one node exclude each other per order by    *)
(* LockOrder; what they do to the database is one action per statement or  *)
(* transaction, except that the transaction that completes a subscription  *)
(* order is split where it counts the user's subscriptions.                *)
(*                                                                         *)
(* All subscription orders of the model are for one user and one plan.     *)
(* Amounts, signatures, log rows and payment methods are left out.         *)
(***************************************************************************)
EXTENDS Integers, FiniteSets

CONSTANTS
  Orders,       \* trade numbers
  Nodes,        \* server processes that share the database
  NHandlers,    \* bound: requests served at the same time
  Mixes,        \* the assignments of kinds to orders to consider
  Databases,    \* {"server"}: MySQL or PostgreSQL, {"sqlite"}
  Limit,        \* plan.MaxPurchasePerUser
  Faults,       \* "db": a statement or transaction fails; "crash": a node
                \* restarts; "eager": an administrator completes an order
                \* before the gateway has answered the request for it
  MaxFaults     \* bound: failures and restarts

Gateways == {"epay", "stripe", "creem", "waffo", "pancake"}

\* An order number that is not used has the gateway "none".
Kinds == [gw : Gateways \union {"none"}, sub : BOOLEAN]

ASSUME PaymentsAssumption ==
  /\ Orders # {} /\ Nodes # {}
  /\ NHandlers \in Nat \ {0} /\ Limit \in Nat \ {0} /\ MaxFaults \in Nat
  /\ Mixes \subseteq [Orders -> Kinds]
  /\ Databases \subseteq {"server", "sqlite"}
  /\ Faults \subseteq {"db", "crash", "eager"}

Handlers == 1 .. NHandlers

VARIABLES
  kind,       \* gateway of an order; whether it buys a subscription
  database,   \* the database in use
  row,        \* status of the order's row, "none" before it is inserted
  gateway,    \* what the gateway knows: none, calling (the request for the
              \* checkout is under way), dead, open, paid, failed, expired
  credits,    \* how often the order was credited
  acked,      \* orders whose payment notice was answered with success
  approved,   \* history: orders an administrator asked to complete
  hurt,       \* history: orders whose notice failed and was acknowledged, or
              \* whose handler died between the row and the credit
  handler,    \* the handlers
  orderLocks, \* orderLocks of each node: trade number to mutex, 0 for none
  mutex,      \* the refCountedMutex objects
  faults      \* failures so far

rowVars == <<row, credits>>
lockVars == <<orderLocks, mutex>>
historyVars == <<approved, hurt>>
vars == <<kind, database, rowVars, gateway, acked, historyVars, handler, lockVars, faults>>

-----------------------------------------------------------------------------
(***************************************************************************)
(* Orders                                                                  *)
(***************************************************************************)

\* The gateway is asked for a checkout before the row is inserted.
GatewayFirst(k) == k.gw = "stripe" \/ (k.gw = "epay" /\ ~k.sub)

\* The answer to a payment notice is success whatever became of it.
AckAnyway(k) == k.gw = "stripe" \/ (k.gw = "epay" /\ ~k.sub)

\* Subscriptions the user has of the plan.
Bought == Cardinality({o \in Orders : kind[o].sub /\ credits[o] > 0})

\* The handlers that request a payment: a pending row.  A subscription is
\* only offered below the plan's limit.
RequestPay(o) ==
  /\ kind[o].gw # "none"
  /\ row[o] = "none"
  /\ kind[o].sub => Bought < Limit
  /\ row' = [row EXCEPT ![o] = "pending"]
  /\ gateway' = [gateway EXCEPT ![o] = IF GatewayFirst(kind[o]) THEN "open" ELSE "calling"]
  /\ UNCHANGED <<kind, database, credits, acked, historyVars, handler, lockVars, faults>>

\* The gateway's answer to a request whose row is inserted first.
CheckoutOpened(o) ==
  /\ gateway[o] = "calling"
  /\ gateway' = [gateway EXCEPT ![o] = "open"]
  /\ UNCHANGED <<kind, database, rowVars, acked, historyVars, handler, lockVars, faults>>

\* A statement or a transaction fails and changes nothing.
DatabaseFault == "db" \in Faults /\ faults < MaxFaults /\ faults' = faults + 1

\* It fails: Waffo and Pancake orders are saved as failed, whatever the row
\* says by now; an epay subscription order is expired if it is still pending;
\* a Creem order stays pending.  An error of the database is ignored.
CheckoutFails(o) ==
  /\ gateway[o] = "calling"
  /\ gateway' = [gateway EXCEPT ![o] = "dead"]
  /\ \/ /\ row' = [row EXCEPT ![o] =
                    IF kind[o].gw \in {"waffo", "pancake"} THEN "failed"
                    ELSE IF kind[o].gw = "epay" /\ @ = "pending" THEN "expired" ELSE @]
        /\ UNCHANGED faults
     \/ DatabaseFault /\ UNCHANGED row
  /\ UNCHANGED <<kind, database, credits, acked, historyVars, handler, lockVars>>

\* The customer pays, or the gateway gives the checkout up.
GatewayEnds(o, outcome) ==
  /\ gateway[o] = "open"
  /\ outcome = "failed" => kind[o].gw \in {"stripe", "waffo"}
  /\ outcome = "expired" => kind[o].gw = "stripe"
  /\ gateway' = [gateway EXCEPT ![o] = outcome]
  /\ UNCHANGED <<kind, database, rowVars, acked, historyVars, handler, lockVars, faults>>

-----------------------------------------------------------------------------
(***************************************************************************)
(* Handlers and the lock of an order                                       *)
(***************************************************************************)

Idle == [pc |-> "idle", order |-> CHOOSE o \in Orders : TRUE,
         node |-> CHOOSE n \in Nodes : TRUE, what |-> "none", lk |-> 0, ok |-> FALSE]

At(h, pc) == handler[h].pc = pc
Order(h) == handler[h].order
KindOf(h) == kind[handler[h].order]

Goto(h, pc) == handler' = [handler EXCEPT ![h].pc = pc]

\* The work is done, with or without an error: the deferred UnlockOrder.
Finish(h, ok) == handler' = [handler EXCEPT ![h].pc = "unlock", ![h].ok = ok]

\* The notices a gateway may send, once or many times, the browser's return
\* from an epay subscription payment, and an administrator's completion (a
\* subscription order has no top-up row before it has succeeded, and then
\* the completion does nothing).
Sends(o, what) ==
  \/ what = "paid" /\ gateway[o] = "paid"
  \/ what = "failed" /\ gateway[o] = "failed"
  \/ what = "expired" /\ gateway[o] = "expired"
  \/ what = "return" /\ gateway[o] = "paid" /\ kind[o].gw = "epay" /\ kind[o].sub
  \/ /\ what = "admin" /\ row[o] # "none" /\ ~kind[o].sub
     /\ gateway[o] # "calling" \/ "eager" \in Faults

\* Where a handler begins: only Waffo's failure is handled without lock, and
\* Pancake's payment notice reads the order before it locks it.
FirstStep(o, what) ==
  IF what = "failed" /\ kind[o].gw = "waffo" THEN "plain"
  ELSE IF what = "paid" /\ kind[o].gw = "pancake" THEN "resolve" ELSE "lock"

\* A request reaches a node.
Receive(h, o, n, what) ==
  /\ At(h, "idle")
  /\ Sends(o, what)
  /\ handler' = [handler EXCEPT ![h] =
       [pc |-> FirstStep(o, what), order |-> o, node |-> n, what |-> what, lk |-> 0, ok |-> FALSE]]
  /\ approved' = IF what = "admin" THEN approved \union {o} ELSE approved
  /\ UNCHANGED <<kind, database, rowVars, gateway, acked, hurt, lockVars, faults>>

\* ResolveWaffoPancakeTradeNo and its counterpart for subscriptions: the
\* order is there since before the checkout.
Resolve(h) ==
  /\ At(h, "resolve")
  /\ Goto(h, "lock")
  /\ UNCHANGED <<kind, database, rowVars, gateway, acked, historyVars, lockVars, faults>>

FreeMutex == [refCount |-> 0, holder |-> 0]

\* LockOrder up to createLock.Unlock(): the order's mutex, or a new one.
LockOrder(h) ==
  /\ At(h, "lock")
  /\ LET n  == handler[h].node
         o  == handler[h].order
         lk == IF orderLocks[n][o] # 0 THEN orderLocks[n][o]
               ELSE CHOOSE i \in Handlers : mutex[i] = FreeMutex
     IN  /\ orderLocks' = [orderLocks EXCEPT ![n][o] = lk]
         /\ mutex' = [mutex EXCEPT ![lk].refCount = @ + 1]
         /\ handler' = [handler EXCEPT ![h].pc = "wait", ![h].lk = lk]
  /\ UNCHANGED <<kind, database, rowVars, gateway, acked, historyVars, faults>>

\* rcm.mu.Lock()
Acquire(h) ==
  /\ At(h, "wait")
  /\ mutex[handler[h].lk].holder = 0
  /\ mutex' = [mutex EXCEPT ![handler[h].lk].holder = h]
  /\ Goto(h, "work")
  /\ UNCHANGED <<kind, database, rowVars, gateway, acked, historyVars, orderLocks, faults>>

\* UnlockOrder up to rcm.mu.Unlock(): the mutex is looked up again.
UnlockOrder(h) ==
  /\ At(h, "unlock")
  /\ LET lk == orderLocks[handler[h].node][handler[h].order]
     IN  IF lk = 0
         THEN UNCHANGED mutex /\ Goto(h, "answer")
         ELSE /\ mutex' = [mutex EXCEPT ![lk].holder = 0]
              /\ handler' = [handler EXCEPT ![h].pc = "drop", ![h].lk = lk]
  /\ UNCHANGED <<kind, database, rowVars, gateway, acked, historyVars, orderLocks, faults>>

\* Mutant: the entry is deleted without counting its users.
DropLockUncounted(h) ==
  /\ At(h, "drop")
  /\ mutex' = [mutex EXCEPT ![handler[h].lk].refCount = @ - 1]
  /\ orderLocks' = [orderLocks EXCEPT ![handler[h].node][handler[h].order] = 0]
  /\ Goto(h, "answer")
  /\ UNCHANGED <<kind, database, rowVars, gateway, acked, historyVars, faults>>

\* Mutant: refCount is never taken back.
DropLockKeepsCount(h) ==
  /\ At(h, "drop")
  /\ Goto(h, "answer")
  /\ UNCHANGED <<kind, database, rowVars, gateway, acked, historyVars, lockVars, faults>>

\* The rest of UnlockOrder: the last user deletes the entry.
DropLock(h) ==
  /\ At(h, "drop")
  /\ LET lk == handler[h].lk
     IN  /\ mutex' = [mutex EXCEPT ![lk].refCount = @ - 1]
         /\ orderLocks' = IF mutex[lk].refCount = 1
                          THEN [orderLocks EXCEPT ![handler[h].node][handler[h].order] = 0]
                          ELSE orderLocks
  /\ Goto(h, "answer")
  /\ UNCHANGED <<kind, database, rowVars, gateway, acked, historyVars, faults>>

\* Mutant: the answer is success whatever happened.
AnswerSuccess(h) ==
  /\ At(h, "answer")
  /\ acked' = IF handler[h].what = "paid" THEN acked \union {Order(h)} ELSE acked
  /\ handler' = [handler EXCEPT ![h] = Idle]
  /\ UNCHANGED <<kind, database, rowVars, gateway, historyVars, lockVars, faults>>

\* The handler returns and its response is sent.
Answer(h) ==
  /\ At(h, "answer")
  /\ acked' = IF handler[h].what = "paid" /\ (handler[h].ok \/ AckAnyway(KindOf(h)))
              THEN acked \union {Order(h)} ELSE acked
  /\ handler' = [handler EXCEPT ![h] = Idle]
  /\ UNCHANGED <<kind, database, rowVars, gateway, historyVars, lockVars, faults>>

-----------------------------------------------------------------------------
(***************************************************************************)
(* What handlers do to the database                                        *)
(***************************************************************************)

Paid(h) == handler[h].what \in {"paid", "return"}
TopUp(h) == ~KindOf(h).sub

\* A transaction that completes a subscription order holds the row's lock
\* (lockForUpdate); SQLite runs one such transaction at a time.
RowFree(o) ==
  \A g \in Handlers : At(g, "commit") => (handler[g].order # o /\ database = "server")

\* EpayNotify, sessionAsyncPaymentFailed and Creem's handleCheckoutCompleted
\* read the top-up first; they go on with one that is pending.
ReadTopUp(h) ==
  /\ At(h, "work")
  /\ \/ Paid(h) /\ TopUp(h) /\ KindOf(h).gw \in {"epay", "creem"}
     \/ handler[h].what = "failed"
  /\ IF row[Order(h)] = "pending" /\ TopUp(h)
     THEN Goto(h, IF KindOf(h).gw = "creem" THEN "recharge" ELSE "save")
     ELSE Finish(h, TRUE)
  /\ UNCHANGED <<kind, database, rowVars, gateway, acked, historyVars, lockVars, faults>>

\* topUp.Update() writes the row that was read, with its new status.
SaveTopUp(h) ==
  /\ At(h, "save")
  /\ row' = [row EXCEPT ![Order(h)] = IF Paid(h) THEN "success" ELSE "failed"]
  /\ IF Paid(h) THEN Goto(h, "credit") ELSE Finish(h, TRUE)
  /\ UNCHANGED <<kind, database, credits, gateway, acked, historyVars, lockVars, faults>>

\* EpayNotify: IncreaseUserQuota, outside of any transaction.
IncreaseUserQuota(h) ==
  /\ At(h, "credit")
  /\ credits' = [credits EXCEPT ![Order(h)] = @ + 1]
  /\ Finish(h, TRUE)
  /\ UNCHANGED <<kind, database, row, gateway, acked, historyVars, lockVars, faults>>

\* Where Recharge, RechargeCreem, RechargeWaffo, RechargeWaffoPancake and
\* ManualCompleteTopUp are called.
AtRecharge(h) ==
  \/ At(h, "recharge")
  \/ /\ At(h, "work") /\ TopUp(h)
     /\ \/ handler[h].what = "admin"
        \/ Paid(h) /\ KindOf(h).gw \in {"stripe", "waffo", "pancake"}

\* A top-up that has succeeded is no error for Waffo, Pancake and the admin.
Idempotent(h) == handler[h].what = "admin" \/ KindOf(h).gw \in {"waffo", "pancake"}

\* Mutant: the status is not read again inside the transaction.
RechargeUnchecked(h) ==
  /\ AtRecharge(h)
  /\ row' = [row EXCEPT ![Order(h)] = "success"]
  /\ credits' = [credits EXCEPT ![Order(h)] = @ + 1]
  /\ Finish(h, TRUE)
  /\ UNCHANGED <<kind, database, gateway, acked, historyVars, lockVars, faults>>

\* The transaction that credits a pending top-up and marks it.
Recharge(h) ==
  /\ AtRecharge(h)
  /\ IF row[Order(h)] = "pending"
     THEN /\ row' = [row EXCEPT ![Order(h)] = "success"]
          /\ credits' = [credits EXCEPT ![Order(h)] = @ + 1]
          /\ Finish(h, TRUE)
     ELSE /\ Finish(h, row[Order(h)] = "success" /\ Idempotent(h))
          /\ UNCHANGED rowVars
  /\ UNCHANGED <<kind, database, gateway, acked, historyVars, lockVars, faults>>

\* CompleteSubscriptionOrder up to the count of the user's subscriptions in
\* CreateUserSubscriptionFromPlanTx.
CountSubscriptions(h) ==
  /\ At(h, "work") /\ Paid(h) /\ ~TopUp(h)
  /\ RowFree(Order(h))
  /\ IF row[Order(h)] = "pending" /\ Bought < Limit
     THEN Goto(h, "commit")
     ELSE Finish(h, row[Order(h)] = "success")
  /\ UNCHANGED <<kind, database, rowVars, gateway, acked, historyVars, lockVars, faults>>

\* The subscription and the order's status, committed together.
CompleteSubscriptionOrder(h) ==
  /\ At(h, "commit")
  /\ row' = [row EXCEPT ![Order(h)] = "success"]
  /\ credits' = [credits EXCEPT ![Order(h)] = @ + 1]
  /\ Finish(h, TRUE)
  /\ UNCHANGED <<kind, database, gateway, acked, historyVars, lockVars, faults>>

\* Mutant: an order is expired whatever its status.
ExpireUnchecked(h) ==
  /\ At(h, "work") /\ handler[h].what = "expired"
  /\ row' = [row EXCEPT ![Order(h)] = "expired"]
  /\ Finish(h, TRUE)
  /\ UNCHANGED <<kind, database, credits, gateway, acked, historyVars, lockVars, faults>>

\* sessionExpired: ExpireSubscriptionOrder or UpdatePendingTopUpStatus.
Expire(h) ==
  /\ At(h, "work") /\ handler[h].what = "expired"
  /\ RowFree(Order(h))
  /\ row' = [row EXCEPT ![Order(h)] = IF @ = "pending" THEN "expired" ELSE @]
  /\ Finish(h, TRUE)
  /\ UNCHANGED <<kind, database, credits, gateway, acked, historyVars, lockVars, faults>>

\* Mutant: a failed payment overwrites any status.
UpdateTopUpStatus(h) ==
  /\ At(h, "plain")
  /\ row' = [row EXCEPT ![Order(h)] = "failed"]
  /\ handler' = [handler EXCEPT ![h] = Idle]
  /\ UNCHANGED <<kind, database, credits, gateway, acked, historyVars, lockVars, faults>>

\* handleWaffoPayment for a payment that failed: UpdatePendingTopUpStatus.
UpdatePendingTopUpStatus(h) ==
  /\ At(h, "plain")
  /\ row' = [row EXCEPT ![Order(h)] = IF @ = "pending" THEN "failed" ELSE @]
  /\ handler' = [handler EXCEPT ![h] = Idle]
  /\ UNCHANGED <<kind, database, credits, gateway, acked, historyVars, lockVars, faults>>

-----------------------------------------------------------------------------
(***************************************************************************)
(* Failures                                                                *)
(***************************************************************************)

\* Whether a handler takes a failure for success.  An order that cannot be
\* read counts as none: Pancake's notice is then done with, and so is one of
\* Creem for a subscription if its order type is not "onetime".
TakenAs(h) ==
  IF At(h, "resolve") THEN {TRUE}
  ELSE IF At(h, "work") /\ KindOf(h).gw = "creem" /\ ~TopUp(h) THEN BOOLEAN
  ELSE {FALSE}

\* The statement or transaction a handler is at fails, and the handler
\* returns.
DatabaseFails(h) ==
  /\ DatabaseFault
  /\ \/ handler[h].pc \in {"resolve", "save", "credit", "recharge", "commit", "plain"}
     \/ At(h, "work") /\ RowFree(Order(h))
  /\ \E ok \in TakenAs(h) :
       /\ \/ At(h, "plain") /\ handler' = [handler EXCEPT ![h] = Idle]
          \/ At(h, "resolve") /\ handler' = [handler EXCEPT ![h].pc = "answer", ![h].ok = ok]
          \/ handler[h].pc \notin {"plain", "resolve"} /\ Finish(h, ok)
       /\ hurt' = IF Paid(h) /\ (ok \/ AckAnyway(KindOf(h)))
                  THEN hurt \union {Order(h)} ELSE hurt
  /\ UNCHANGED <<kind, database, rowVars, gateway, acked, approved, lockVars>>

\* A node dies with its handlers and its locks, and is started again.  Open
\* transactions are rolled back.
Crash(n) ==
  /\ "crash" \in Faults /\ faults < MaxFaults /\ faults' = faults + 1
  /\ LET dead == {h \in Handlers : ~At(h, "idle") /\ handler[h].node = n}
         gone == {orderLocks[n][o] : o \in Orders}
     IN  /\ handler' = [h \in Handlers |-> IF h \in dead THEN Idle ELSE handler[h]]
         /\ mutex' = [i \in Handlers |-> IF i \in gone THEN FreeMutex ELSE mutex[i]]
         /\ hurt' = hurt \union {Order(h) : h \in {g \in dead : At(g, "credit")}}
  /\ orderLocks' = [orderLocks EXCEPT ![n] = [o \in Orders |-> 0]]
  /\ UNCHANGED <<kind, database, rowVars, gateway, acked, approved>>

-----------------------------------------------------------------------------
Init ==
  /\ kind \in Mixes
  /\ database \in Databases
  /\ row = [o \in Orders |-> "none"]
  /\ gateway = [o \in Orders |-> "none"]
  /\ credits = [o \in Orders |-> 0]
  /\ acked = {} /\ approved = {} /\ hurt = {}
  /\ handler = [h \in Handlers |-> Idle]
  /\ orderLocks = [n \in Nodes |-> [o \in Orders |-> 0]]
  /\ mutex = [i \in Handlers |-> FreeMutex]
  /\ faults = 0

Outcomes == {"paid", "failed", "expired"}
Notices == Outcomes \union {"return", "admin"}

Outside(o) ==
  \/ RequestPay(o) \/ CheckoutOpened(o) \/ CheckoutFails(o)
  \/ \E outcome \in Outcomes : GatewayEnds(o, outcome)

Statement(h) ==
  \/ ReadTopUp(h) \/ SaveTopUp(h) \/ IncreaseUserQuota(h) \/ Recharge(h)
  \/ CountSubscriptions(h) \/ CompleteSubscriptionOrder(h)
  \/ Expire(h) \/ UpdatePendingTopUpStatus(h)

Proceed(h) ==
  Resolve(h) \/ LockOrder(h) \/ Statement(h) \/ UnlockOrder(h) \/ DropLock(h) \/ Answer(h)

Next ==
  \/ \E o \in Orders : Outside(o)
  \/ \E h \in Handlers, o \in Orders, n \in Nodes, what \in Notices : Receive(h, o, n, what)
  \/ \E h \in Handlers : Acquire(h) \/ Proceed(h) \/ DatabaseFails(h)
  \/ \E n \in Nodes : Crash(n)

Spec == Init /\ [][Next]_vars

\* A gateway repeats a payment notice until it is answered with success.
Redeliver(o) ==
  /\ o \notin acked
  /\ \E h \in Handlers, n \in Nodes : Receive(h, o, n, "paid")

(***************************************************************************)
(* A goroutine that can run runs; a mutex is handed on fairly (Go's        *)
(* starvation mode); and a notice that is repeated is served in the end,   *)
(* although the handlers of the model are few and may be taken by others.  *)
(***************************************************************************)
FairSpec ==
  /\ Spec
  /\ \A h \in Handlers : WF_vars(Proceed(h)) /\ SF_vars(Acquire(h))
  /\ \A o \in Orders : SF_vars(Redeliver(o))

-----------------------------------------------------------------------------
(***************************************************************************)
(* Properties                                                              *)
(***************************************************************************)

Pcs == {"idle", "resolve", "lock", "wait", "work", "save", "credit", "recharge", "commit",
        "unlock", "drop", "answer", "plain"}

\* The types of the order rows, the gateways' states, the handlers and the
\* lock table.
TypeOK ==
  /\ kind \in [Orders -> Kinds] /\ database \in Databases
  /\ row \in [Orders -> {"none", "pending", "success", "failed", "expired"}]
  /\ gateway \in [Orders -> {"none", "calling", "dead", "open"} \union Outcomes]
  /\ credits \in [Orders -> Nat]
  /\ acked \subseteq Orders /\ approved \subseteq Orders /\ hurt \subseteq Orders
  /\ handler \in [Handlers -> [pc : Pcs, order : Orders, node : Nodes,
                               what : Notices \union {"none"},
                               lk : 0 .. NHandlers, ok : BOOLEAN]]
  /\ orderLocks \in [Nodes -> [Orders -> 0 .. NHandlers]]
  /\ mutex \in [Handlers -> [refCount : 0 .. NHandlers, holder : 0 .. NHandlers]]
  /\ faults \in 0 .. MaxFaults

InSection == {"work", "save", "credit", "recharge", "commit"}

\* LockOrder: two handlers of one node never work on one order at the same
\* time, although the mutex is found in a map whose entries are deleted; and
\* an entry stays exactly as long as somebody needs it.
OneAtATime ==
  /\ \A g, h \in Handlers :
       (/\ handler[g].pc \in InSection /\ handler[h].pc \in InSection
        /\ handler[g].node = handler[h].node /\ Order(g) = Order(h)) => g = h
  /\ \A n \in Nodes, o \in Orders :
       orderLocks[n][o] # 0
       <=> \E h \in Handlers : /\ handler[h].node = n /\ Order(h) = o
                               /\ handler[h].pc \in InSection \union {"wait", "unlock", "drop"}

\* The row of an order and the wallet agree, or the order is an epay top-up
\* between its two statements, for good if a failure came between them.
Matches(o) ==
  \/ credits[o] = IF row[o] = "success" THEN 1 ELSE 0
  \/ /\ kind[o].gw = "epay" /\ ~kind[o].sub
     /\ row[o] = "success" /\ credits[o] = 0
     /\ o \in hurt \/ \E h \in Handlers : At(h, "credit") /\ Order(h) = o

\* The row and the wallet agree for every order: a successful one was credited
\* once, however often its notice was repeated and whoever completed it at the
\* same time, and no other order was credited.
RowMatchesCredit == \A o \in Orders : Matches(o)

\* A user gets no more subscriptions of a plan than MaxPurchasePerUser, on
\* any database.
PurchaseLimit == Bought <= Limit

Final == {"success", "failed", "expired"}

\* The status an order has ended with is never overwritten, although rows
\* are saved as they were read.
FinalStatusStays ==
  [][\A o \in Orders : row[o] \in Final => row'[o] = row[o]]_vars

\* The payment code implements the ledger of CreditLedger.
Ledger == INSTANCE CreditLedger
            WITH due <- approved \union {o \in Orders : gateway[o] = "paid"},
                 closed <- {o \in Orders : row[o] \in {"failed", "expired"}}
ImplementsLedger == Ledger!LedgerSpec

\* Every payment is credited in the end, through failures and restarts and
\* with repeated notices: unless a failure was acknowledged to the gateway
\* (hurt), or the plan's limit was reached meanwhile.
PaidIsCredited ==
  \A o \in Orders :
    gateway[o] = "paid"
    ~> (credits[o] > 0 \/ o \in hurt \/ (kind[o].sub /\ Bought >= Limit))
-----------------------------------------------------------------------------
(***************************************************************************)
(* The inductive invariants behind the properties                          *)
(***************************************************************************)

\* A handler that holds the mutex of its order, and one that counts as a user.
Holding == InSection \union {"unlock"}
Locked == Holding \union {"wait", "drop"}

Users(i) == {h \in Handlers : handler[h].pc \in Locked /\ handler[h].lk = i}

\* A user's mutex is the one the table of its node has for its order.
UsersFindEntry ==
  \A h \in Handlers : handler[h].pc \in Locked =>
    handler[h].lk # 0 /\ orderLocks[handler[h].node][handler[h].order] = handler[h].lk

\* An entry of the table has a user.
EntriesUsed ==
  \A n \in Nodes, o \in Orders : orderLocks[n][o] # 0 =>
    \E h \in Handlers : handler[h].node = n /\ handler[h].order = o /\ handler[h].pc \in Locked

\* No two entries share a mutex.
EntriesApart ==
  \A m, n \in Nodes, o, p \in Orders :
    (orderLocks[m][o] # 0 /\ orderLocks[m][o] = orderLocks[n][p]) => (m = n /\ o = p)

\* refCount counts the users.
CountsUsers == \A i \in Handlers : mutex[i].refCount = Cardinality(Users(i))

\* The holder of a mutex is the user at work.
HolderWorks ==
  /\ \A h \in Handlers : handler[h].pc \in Holding => mutex[handler[h].lk].holder = h
  /\ \A i \in Handlers : mutex[i].holder # 0 =>
       /\ mutex[i].holder \in Users(i)
       /\ handler[mutex[i].holder].pc \in Holding

LockInv == UsersFindEntry /\ EntriesUsed /\ EntriesApart /\ CountsUsers /\ HolderWorks

\* LockOrder excludes the handlers of one process only.
OneNode == \A m, n \in Nodes : m = n

\* The gateway knows an order once its row is there, and the row waits for
\* the gateway's answer; only some gateways report a failure.
RowsKnown ==
  \A o \in Orders : /\ row[o] = "none" <=> gateway[o] = "none"
                    /\ gateway[o] = "calling" => row[o] = "pending"
                    /\ gateway[o] = "failed" => kind[o].gw \in {"stripe", "waffo"}

\* What a handler serves is what the gateway or an administrator said.
NoticeTrue(h) ==
  /\ gateway[Order(h)] \notin {"none", "calling"}
  /\ handler[h].what # "none"
  /\ Paid(h) => gateway[Order(h)] = "paid"
  /\ handler[h].what = "failed" =>
       gateway[Order(h)] = "failed" /\ KindOf(h).gw \in {"stripe", "waffo"}
  /\ handler[h].what = "expired" => gateway[Order(h)] = "expired"
  /\ handler[h].what = "admin" => Order(h) \in approved /\ TopUp(h)
  /\ At(h, "resolve") => Paid(h)
  /\ At(h, "plain") <=> handler[h].what = "failed" /\ KindOf(h).gw = "waffo"

NoticesTrue == \A h \in Handlers : ~At(h, "idle") => NoticeTrue(h)

\* What a handler read is still so when it writes.
ReadFresh(h) ==
  /\ At(h, "save") => /\ row[Order(h)] = "pending" /\ TopUp(h)
                      /\ handler[h].what = "failed" \/ (Paid(h) /\ KindOf(h).gw = "epay")
  /\ At(h, "credit") => /\ row[Order(h)] = "success" /\ credits[Order(h)] = 0
                        /\ TopUp(h) /\ Paid(h) /\ KindOf(h).gw = "epay"
  /\ At(h, "recharge") => TopUp(h) /\ Paid(h)
  /\ At(h, "commit") => row[Order(h)] = "pending" /\ ~TopUp(h) /\ Paid(h)

ReadsFresh == \A h \in Handlers : ReadFresh(h)

OrderInv == RowsKnown /\ NoticesTrue /\ ReadsFresh /\ RowMatchesCredit
=============================================================================
