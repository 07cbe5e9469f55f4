------------------------ MODULE PaymentsLedgerProofs ------------------------
(***************************************************************************)
(* The rows, the wallet and the ledger of the payments, for any number of  *)
(* orders and handlers and every failure and restart of the model.         *)
(*                                                                         *)
(* Two hypotheses stand for what the code does not protect: one node, for  *)
(* LockOrder excludes the handlers of one process, and an administrator    *)
(* who does not complete an order whose checkout is still being requested. *)
(***************************************************************************)
EXTENDS PaymentsProofs

-----------------------------------------------------------------------------
(***************************************************************************)
(* Frames                                                                  *)
(***************************************************************************)

\* With one node, a handler at work on an order is alone with it.
LEMMA Alone ==
  ASSUME OneNode, HandlersOK, LockInv, NEW g \in Handlers, NEW h \in Handlers,
         handler[g].pc \in InSection, handler[h].pc \in InSection, Order(g) = Order(h)
  PROVE  g = h
  <1>1. handler[g].node = handler[h].node
    BY DEF OneNode, HandlersOK, HandlerType
  <1> QED
    BY <1>1, LockInvExcludes DEF OneAtATime

\* A gateway's answer is final, and its states have an order.
GatewayAdvances ==
  \A o \in Orders :
    \/ gateway'[o] = gateway[o]
    \/ /\ gateway[o] \in {"none", "calling", "open"}
       /\ gateway[o] = "open" => gateway'[o] \in Outcomes

\* A handler goes on with its notice, or is done with it.
NoticeKept(g) ==
  \/ NoticeTrue(g)'
  \/ handler'[g] = handler[g]
  \/ handler'[g].pc = "idle"
  \/ /\ handler[g].pc \notin {"idle", "plain"} /\ handler'[g].pc \notin {"resolve", "plain"}
     /\ handler'[g].order = handler[g].order /\ handler'[g].what = handler[g].what

\* A handler that keeps its notice has a true one.
LEMMA NoticeFrame ==
  ASSUME HandlersOK, HandlersOK', NEW g \in Handlers, ~At(g, "idle") => NoticeTrue(g),
         kind' = kind, approved \subseteq approved', GatewayAdvances, NoticeKept(g)
  PROVE  ~At(g, "idle")' => NoticeTrue(g)'
  <1> SUFFICES ASSUME handler'[g].pc # "idle", ~NoticeTrue(g)' PROVE FALSE
    BY DEF At
  <1>1. handler'[g].order = handler[g].order /\ handler'[g].what = handler[g].what
    BY DEF NoticeKept
  <1>2. NoticeTrue(g)
    BY DEF NoticeKept, At
  <1>3. handler[g].order \in Orders
    BY DEF HandlersOK, HandlerType
  <1>4. (At(g, "resolve")' => At(g, "resolve")) /\ (At(g, "plain")' <=> At(g, "plain"))
    BY DEF NoticeKept, At
  <1>5. /\ gateway[Order(g)] \notin {"none", "calling"} => gateway'[Order(g)] \notin {"none", "calling"}
        /\ gateway[Order(g)] \in Outcomes => gateway'[Order(g)] = gateway[Order(g)]
    BY <1>3 DEF GatewayAdvances, Order, Outcomes
  <1> QED
    BY <1>1, <1>2, <1>4, <1>5 DEF NoticeTrue, Order, Paid, TopUp, KindOf, Outcomes

\* What keeps ReadFresh of a handler, and Matches of an order.
FreshKept(g) ==
  \/ /\ handler'[g] = handler[g]
     /\ handler[g].pc \in {"save", "credit", "commit"} =>
          row'[Order(g)] = row[Order(g)] /\ credits'[Order(g)] = credits[Order(g)]
  \/ handler'[g].pc \notin {"save", "credit", "recharge", "commit"}
  \/ ReadFresh(g)'

\* What a handler has read stays as it was.
LEMMA FreshFrame ==
  ASSUME NEW g \in Handlers, ReadFresh(g), kind' = kind, FreshKept(g)
  PROVE  ReadFresh(g)'
  BY DEF FreshKept, ReadFresh, At, Order, Paid, TopUp, KindOf

MatchKept(o) ==
  \/ Matches(o)'
  \/ /\ row'[o] = row[o] /\ credits'[o] = credits[o]
     /\ \A g \in Handlers : (At(g, "credit") /\ Order(g) = o) => (handler'[g] = handler[g] \/ o \in hurt')

\* An order's row and credits still match.
LEMMA MatchFrame ==
  ASSUME NEW o \in Orders, Matches(o), kind' = kind, hurt \subseteq hurt', MatchKept(o)
  PROVE  Matches(o)'
  BY DEF MatchKept, Matches, At, Order

\* A step that keeps each part keeps the invariant.
LEMMA OrderFrame ==
  ASSUME HandlersOK, HandlersOK', OrderInv,
         kind' = kind, approved \subseteq approved', hurt \subseteq hurt', RowsKnown', GatewayAdvances,
         \A g \in Handlers : NoticeKept(g) /\ FreshKept(g),
         \A o \in Orders : MatchKept(o)
  PROVE  OrderInv'
  <1>1. NoticesTrue'
    BY NoticeFrame DEF OrderInv, NoticesTrue
  <1>2. ReadsFresh'
    BY FreshFrame DEF OrderInv, ReadsFresh
  <1>3. RowMatchesCredit'
    BY MatchFrame DEF OrderInv, RowMatchesCredit
  <1> QED
    BY <1>1, <1>2, <1>3 DEF OrderInv

\* A handler's step that writes no row.
LEMMA QuietFrame ==
  ASSUME HandlersOK, HandlersOK', OrderInv, NEW h \in Handlers,
         kind' = kind, row' = row, credits' = credits, gateway' = gateway,
         approved \subseteq approved', hurt \subseteq hurt',
         \A g \in Handlers : g # h => handler'[g] = handler[g],
         NoticeKept(h), FreshKept(h),
         At(h, "credit") => Order(h) \in hurt'
  PROVE  OrderInv'
  <1>1. RowsKnown'
    BY DEF OrderInv, RowsKnown
  <1>2. GatewayAdvances
    BY DEF GatewayAdvances
  <1>3. \A g \in Handlers : NoticeKept(g) /\ FreshKept(g)
    BY DEF NoticeKept, FreshKept
  <1>4. \A o \in Orders : MatchKept(o)
    BY DEF MatchKept
  <1> QED
    BY <1>1, <1>2, <1>3, <1>4, OrderFrame

\* A handler at work on its order writes the order's row.
LEMMA WriteFrame ==
  ASSUME OneNode, HandlersOK, HandlersOK', LockInv, OrderInv, NEW h \in Handlers,
         handler[h].pc \in InSection, NEW pc \in {"credit", "unlock"}, Moves(h, pc),
         kind' = kind, gateway' = gateway, approved' = approved, hurt' = hurt,
         NEW p \in Orders, Order(h) = p,
         \A o \in Orders : o # p => row'[o] = row[o] /\ credits'[o] = credits[o],
         row'[p] # "none", Matches(p)', pc = "credit" => ReadFresh(h)'
  PROVE  OrderInv'
  <1>1. Order(h) \in Orders /\ ~At(h, "idle")
    BY DEF HandlersOK, HandlerType, Order, At, InSection
  <1>2. gateway[Order(h)] \notin {"none", "calling"}
    BY <1>1 DEF OrderInv, NoticesTrue, NoticeTrue
  <1>3. RowsKnown'
    <2>1. ASSUME NEW o \in Orders
          PROVE  /\ row'[o] = "none" <=> gateway'[o] = "none"
                 /\ gateway'[o] = "calling" => row'[o] = "pending"
                 /\ gateway'[o] = "failed" => kind'[o].gw \in {"stripe", "waffo"}
      BY <1>2 DEF OrderInv, RowsKnown
    <2> QED
      BY <2>1 DEF RowsKnown
  <1>4. GatewayAdvances
    BY DEF GatewayAdvances
  <1>5. NoticeKept(h) /\ FreshKept(h)
    BY DEF NoticeKept, FreshKept, Moves, InSection
  <1>6. ASSUME NEW g \in Handlers, g # h PROVE NoticeKept(g) /\ FreshKept(g)
    <2>1. handler'[g] = handler[g]
      BY <1>6 DEF Moves
    <2>2. handler[g].pc \in {"save", "credit", "commit"} => Order(g) # Order(h)
      BY <1>6, Alone DEF InSection
    <2>3. Order(g) \in Orders
      BY DEF HandlersOK, HandlerType, Order
    <2> QED
      BY <2>1, <2>2, <2>3 DEF NoticeKept, FreshKept
  <1>7. ASSUME NEW o \in Orders PROVE MatchKept(o)
    <2>1. \A g \in Handlers : (At(g, "credit") /\ Order(g) = o /\ o # Order(h)) => handler'[g] = handler[g]
      BY DEF Moves
    <2> QED
      BY <2>1 DEF MatchKept
  <1>8. \A g \in Handlers : NoticeKept(g) /\ FreshKept(g)
    BY <1>5, <1>6
  <1> QED
    BY <1>3, <1>4, <1>7, <1>8, OrderFrame

-----------------------------------------------------------------------------
(***************************************************************************)
(* The actions                                                             *)
(***************************************************************************)

\* The customer and the gateway: an order nobody works on changes its row.
LEMMA OutsideInv ==
  ASSUME RowsOK, SetupOK, HandlersOK, OrderInv, NEW o \in Orders, Outside(o)
  PROVE  /\ OrderInv'
         /\ row[o] \in Final => row'[o] = row[o]
         /\ \A p \in Orders : p # o => row'[p] = row[p] /\ gateway'[p] = gateway[p]
  <1>1. UNCHANGED <<kind, credits, handler, approved, hurt>>
    BY DEF Outside, RequestPay, CheckoutOpened, CheckoutFails, GatewayEnds, rowVars, historyVars
  <1>2. \/ /\ row[o] = "none" /\ row' = [row EXCEPT ![o] = "pending"]
           /\ \E s \in {"open", "calling"} : gateway' = [gateway EXCEPT ![o] = s]
        \/ /\ gateway[o] = "calling" /\ row' = row /\ gateway' = [gateway EXCEPT ![o] = "open"]
        \/ /\ gateway[o] = "calling" /\ gateway' = [gateway EXCEPT ![o] = "dead"]
           /\ \E s \in {row[o], "failed", "expired"} : row' = [row EXCEPT ![o] = s]
        \/ /\ gateway[o] = "open" /\ row' = row
           /\ \E s \in Outcomes : /\ gateway' = [gateway EXCEPT ![o] = s]
                                  /\ s = "failed" => kind[o].gw \in {"stripe", "waffo"}
    <2>1. CASE RequestPay(o)
      BY <2>1, Zenon DEF RequestPay
    <2>2. CASE CheckoutOpened(o)
      BY <2>2, Zenon DEF CheckoutOpened, rowVars
    <2>3. CASE CheckoutFails(o)
      <3>1. row = [row EXCEPT ![o] = row[o]]
        BY DEF RowsOK
      <3> QED
        BY <2>3, <3>1, Zenon DEF CheckoutFails
    <2>4. CASE \E outcome \in Outcomes : GatewayEnds(o, outcome)
      BY <2>4, Zenon DEF GatewayEnds, rowVars
    <2> QED
      BY <2>1, <2>2, <2>3, <2>4, Zenon DEF Outside
  <1>3. /\ row[o] = "none" => gateway[o] = "none"
        /\ gateway[o] = "calling" => row[o] = "pending"
        /\ gateway[o] = "open" => row[o] # "none"
    BY DEF OrderInv, RowsKnown
  <1>4. RowsKnown'
    BY <1>1, <1>2, <1>3 DEF OrderInv, RowsKnown, RowsOK, Outcomes
  <1>5. GatewayAdvances
    BY <1>2, <1>3 DEF GatewayAdvances, RowsOK
  <1>6. HandlersOK'
    BY <1>1 DEF HandlersOK
  <1>7. row' = row \/ gateway[o] \in {"none", "calling"}
    BY <1>2, <1>3
  <1>8. \A p \in Orders : p # o => row'[p] = row[p] /\ gateway'[p] = gateway[p]
    BY <1>2 DEF RowsOK
  <1>9. ASSUME NEW g \in Handlers PROVE NoticeKept(g) /\ FreshKept(g)
    <2>1. handler[g].pc # "idle" => gateway[Order(g)] \notin {"none", "calling"}
      BY DEF OrderInv, NoticesTrue, NoticeTrue, At
    <2>2. handler[g].pc \in {"save", "credit", "commit"} =>
            row'[Order(g)] = row[Order(g)] /\ credits'[Order(g)] = credits[Order(g)]
      BY <2>1, <1>1, <1>7, <1>8 DEF HandlersOK, HandlerType, Order
    <2> QED
      BY <2>2, <1>1 DEF NoticeKept, FreshKept
  <1>10. ASSUME NEW p \in Orders PROVE MatchKept(p)
    <2>1. CASE row'[p] = row[p]
      BY <2>1, <1>1 DEF MatchKept
    <2>2. CASE row'[p] # row[p]
      <3>1. p = o /\ row[o] # "success" /\ row'[o] # "success"
        BY <2>2, <1>2, <1>3, <1>8 DEF RowsOK
      <3>2. credits[p] = 0
        BY <3>1 DEF OrderInv, RowMatchesCredit, Matches
      <3> QED
        BY <3>1, <3>2, <1>1 DEF MatchKept, Matches
    <2> QED
      BY <2>1, <2>2
  <1>11. OrderInv'
    BY <1>1, <1>4, <1>5, <1>6, <1>9, <1>10, OrderFrame
  <1>12. row[o] \in Final => row'[o] = row[o]
    BY <1>2, <1>3 DEF Final
  <1> QED
    BY <1>8, <1>11, <1>12

\* A request reaches a handler: it is as true as its sender is.
LEMMA ReceiveInv ==
  ASSUME "eager" \notin Faults, RowsOK, HandlersOK, OrderInv,
         NEW h \in Handlers, NEW o \in Orders, NEW n \in Nodes, NEW what \in Notices,
         Receive(h, o, n, what)
  PROVE  OrderInv'
  <1>1. /\ HandlersOK' /\ handler[h].pc = "idle" /\ handler'[h].pc = FirstStep(o, what)
        /\ handler'[h].pc \in {"plain", "resolve", "lock"}
        /\ handler'[h].order = o /\ handler'[h].what = what
        /\ \A g \in Handlers : g # h => handler'[g] = handler[g]
    BY ReceiveMoves
  <1>2. UNCHANGED <<kind, row, credits, gateway, hurt>>
    BY DEF Receive, rowVars
  <1>3. Sends(o, what) /\ approved' = IF what = "admin" THEN approved \union {o} ELSE approved
    BY Zenon DEF Receive
  <1>4. /\ what \in {"paid", "return"} => gateway[o] = "paid"
        /\ what = "failed" => gateway[o] = "failed"
        /\ what = "expired" => gateway[o] = "expired"
        /\ what = "admin" => gateway[o] \notin {"none", "calling"} /\ ~kind[o].sub
    BY <1>3 DEF Sends, OrderInv, RowsKnown
  <1>5. gateway[o] = "failed" => kind[o].gw \in {"stripe", "waffo"}
    BY DEF OrderInv, RowsKnown
  <1>6. FreshKept(h)
    BY <1>1 DEF FreshKept
  <1>7. NoticeTrue(h)'
    <2>1. /\ Order(h)' = o /\ (Paid(h)' <=> what \in {"paid", "return"})
          /\ KindOf(h)' = kind[o] /\ (TopUp(h)' <=> ~kind[o].sub)
      BY <1>1, <1>2 DEF Order, Paid, KindOf, TopUp
    <2>2. gateway'[o] \notin {"none", "calling"}
      BY <1>2, <1>4 DEF Notices, Outcomes
    <2>3. what = "admin" => o \in approved'
      BY <1>3
    <2>4. /\ At(h, "resolve")' => what = "paid"
          /\ At(h, "plain")' <=> what = "failed" /\ kind[o].gw = "waffo"
      BY <1>1 DEF FirstStep, At
    <2>5. what # "none"
      BY DEF Notices, Outcomes
    <2> QED
      BY <2>1, <2>2, <2>3, <2>4, <2>5, <1>1, <1>2, <1>4, <1>5 DEF NoticeTrue
  <1> QED
    BY <1>1, <1>2, <1>3, <1>6, <1>7, QuietFrame DEF NoticeKept, At

\* Steps of a handler that write no row: waiting, locking, reading, counting,
\* answering.
LEMMA QuietInv ==
  ASSUME RowsOK, HandlersOK, LocksOK, LockInv, OrderInv, NEW h \in Handlers,
         \/ Acquire(h) \/ Resolve(h) \/ LockOrder(h) \/ UnlockOrder(h) \/ DropLock(h) \/ Answer(h)
         \/ ReadTopUp(h) \/ CountSubscriptions(h)
  PROVE  OrderInv' /\ UNCHANGED <<row, credits, gateway, approved>>
  <1>1. UNCHANGED <<kind, row, credits, gateway, approved, hurt>>
    BY DEF Acquire, Resolve, LockOrder, UnlockOrder, DropLock, Answer, ReadTopUp,
           CountSubscriptions, rowVars, historyVars
  <1>2. HandlersOK'
    BY HandlerStep DEF Proceed, Statement
  <1>3. ASSUME NEW pc, Moves(h, pc), handler[h].pc \notin {"idle", "plain", "credit"},
               pc \notin {"resolve", "plain"},
               pc \in {"save", "credit", "recharge", "commit"} => ReadFresh(h)'
        PROVE  OrderInv'
    <2>1. NoticeKept(h) /\ FreshKept(h)
      BY <1>3 DEF NoticeKept, FreshKept, Moves
    <2> QED
      BY <2>1, <1>1, <1>2, <1>3, QuietFrame DEF Moves, At
  <1>4. CASE Acquire(h)
    BY <1>1, <1>3, <1>4, AcquireInv
  <1>5. CASE UnlockOrder(h)
    BY <1>1, <1>3, <1>5, UnlockOrderInv
  <1>6. CASE DropLock(h)
    BY <1>1, <1>3, <1>6, DropLockInv
  <1>7. CASE Resolve(h)
    <2>1. Moves(h, "lock") /\ handler[h].pc = "resolve"
      BY <1>7, GotoMoves DEF Resolve, At, Pcs
    <2> QED
      BY <2>1, <1>1, <1>3
  <1>8. CASE LockOrder(h)
    <2>1. PICK lk : handler' = [handler EXCEPT ![h].pc = "wait", ![h].lk = lk]
      BY <1>8, Zenon DEF LockOrder
    <2>2. /\ handler'[h].pc = "wait" /\ handler'[h].order = handler[h].order
          /\ handler'[h].what = handler[h].what
          /\ \A g \in Handlers : g # h => handler'[g] = handler[g]
      BY <2>1 DEF HandlersOK, HandlerType
    <2>3. handler[h].pc = "lock"
      BY <1>8 DEF LockOrder, At
    <2>4. NoticeKept(h) /\ FreshKept(h)
      BY <2>2, <2>3 DEF NoticeKept, FreshKept
    <2> QED
      BY <2>2, <2>3, <2>4, <1>1, <1>2, QuietFrame DEF At
  <1>9. CASE Answer(h)
    <2>1. Stops(h) /\ handler[h].pc = "answer"
      BY <1>9, IdleStops DEF Answer, At
    <2>2. NoticeKept(h) /\ FreshKept(h)
      BY <2>1 DEF NoticeKept, FreshKept, Stops
    <2> QED
      BY <2>1, <2>2, <1>1, <1>2, QuietFrame DEF Stops, At
  <1>10. CASE ReadTopUp(h)
    <2>1. NoticeTrue(h)
      BY <1>10 DEF ReadTopUp, At, OrderInv, NoticesTrue
    <2>2. CASE Moves(h, "unlock")
      BY <2>2, <1>1, <1>3, <1>10, ReadTopUpMoves
    <2>3. CASE /\ Moves(h, "recharge") /\ TopUp(h) /\ KindOf(h).gw = "creem"
               /\ Paid(h) \/ handler[h].what = "failed"
      <3>1. ReadFresh(h)'
        BY <2>1, <2>3, <1>1 DEF Moves, ReadFresh, NoticeTrue, At, TopUp, Paid, KindOf
      <3> QED
        BY <3>1, <2>3, <1>1, <1>3, <1>10, ReadTopUpMoves
    <2>4. CASE /\ Moves(h, "save") /\ TopUp(h) /\ row[Order(h)] = "pending"
               /\ handler[h].what = "failed" \/ (Paid(h) /\ KindOf(h).gw = "epay")
      <3>1. ReadFresh(h)'
        BY <2>4, <1>1 DEF Moves, ReadFresh, At, TopUp, Paid, KindOf, Order
      <3> QED
        BY <3>1, <2>4, <1>1, <1>3, <1>10, ReadTopUpMoves
    <2> QED
      BY <2>2, <2>3, <2>4, <1>10, ReadTopUpMoves
  <1>11. CASE CountSubscriptions(h)
    <2>1. CASE Moves(h, "unlock")
      BY <2>1, <1>1, <1>3, <1>11, CountMoves
    <2>2. CASE Moves(h, "commit") /\ row[Order(h)] = "pending"
      <3>1. Paid(h) /\ ~TopUp(h)
        BY <1>11, CountMoves
      <3>2. ReadFresh(h)'
        BY <3>1, <2>2, <1>1 DEF Moves, ReadFresh, At, TopUp, Paid, KindOf, Order
      <3> QED
        BY <3>2, <2>2, <1>1, <1>3, <1>11, CountMoves
    <2> QED
      BY <2>1, <2>2, <1>11, CountMoves
  <1> QED
    BY <1>4, <1>5, <1>6, <1>7, <1>8, <1>9, <1>10, <1>11

\* A failure writes no row, and is recorded where it comes between the two
\* statements of an epay top-up.
LEMMA FailsInv ==
  ASSUME RowsOK, HandlersOK, OrderInv, NEW h \in Handlers, DatabaseFails(h)
  PROVE  OrderInv' /\ UNCHANGED <<row, credits, gateway, approved>>
  <1>1. UNCHANGED <<kind, row, credits, gateway, approved>>
    BY DEF DatabaseFails, rowVars
  <1>2. hurt \subseteq hurt'
    BY Zenon DEF DatabaseFails
  <1>3. At(h, "credit") => Order(h) \in hurt'
    <2>1. At(h, "credit") => Paid(h) /\ AckAnyway(KindOf(h))
      BY DEF OrderInv, ReadsFresh, ReadFresh, AckAnyway, TopUp
    <2> QED
      BY <2>1, Zenon DEF DatabaseFails
  <1>4. /\ HandlersOK'
        /\ \/ handler[h].pc \in InSection /\ Moves(h, "unlock")
           \/ handler[h].pc = "plain" /\ Stops(h)
           \/ handler[h].pc = "resolve" /\ Moves(h, "answer")
    BY FailsMoves
  <1>5. NoticeKept(h) /\ FreshKept(h) /\ \A g \in Handlers : g # h => handler'[g] = handler[g]
    BY <1>4 DEF NoticeKept, FreshKept, Moves, Stops, InSection
  <1> QED
    BY <1>1, <1>2, <1>3, <1>4, <1>5, QuietFrame

\* A restart writes no row, and is recorded where it comes between the two
\* statements of an epay top-up.
LEMMA CrashOrders ==
  ASSUME RowsOK, HandlersOK, LocksOK, LockInv, OrderInv, NEW n \in Nodes, Crash(n)
  PROVE  OrderInv' /\ UNCHANGED <<row, credits, gateway, approved>>
  <1>1. UNCHANGED <<kind, row, credits, gateway, approved>>
    BY DEF Crash, rowVars
  <1>2. HandlersOK'
    BY CrashInv
  <1>3. /\ handler' = [h \in Handlers |-> IF ~At(h, "idle") /\ handler[h].node = n
                                         THEN Idle ELSE handler[h]]
        /\ hurt' = hurt \union {Order(h) : h \in {g \in {h \in Handlers : ~At(h, "idle") /\ handler[h].node = n} : At(g, "credit")}}
    BY Zenon DEF Crash
  <1>4. \A g \in Handlers : handler'[g] = handler[g] \/ handler'[g].pc = "idle"
    BY <1>3, IdleType
  <1>5. hurt \subseteq hurt'
    BY <1>3
  <1>6. \A g \in Handlers : At(g, "credit") => handler'[g] = handler[g] \/ Order(g) \in hurt'
    BY <1>3
  <1>7. RowsKnown'
    BY <1>1 DEF OrderInv, RowsKnown
  <1>8. GatewayAdvances
    BY <1>1 DEF GatewayAdvances
  <1>9. \A g \in Handlers : NoticeKept(g) /\ FreshKept(g)
    BY <1>1, <1>4 DEF NoticeKept, FreshKept
  <1>10. \A o \in Orders : MatchKept(o)
    BY <1>1, <1>6 DEF MatchKept
  <1> QED
    BY <1>1, <1>2, <1>5, <1>7, <1>8, <1>9, <1>10, OrderFrame

\* What a handler's statement does to the books: it credits an order that is
\* due, closes a pending one, marks a pending one as paid, or does nothing.
Credited(o) ==
  /\ row[o] \in {"pending", "success"} /\ credits[o] = 0
  /\ gateway[o] = "paid" \/ o \in approved
  /\ row' = [row EXCEPT ![o] = "success"] /\ credits' = [credits EXCEPT ![o] = 1]
  /\ UNCHANGED <<gateway, approved>>

Closed(o) ==
  /\ row[o] = "pending" /\ credits[o] = 0
  /\ \E s \in {"failed", "expired"} : row' = [row EXCEPT ![o] = s]
  /\ UNCHANGED <<credits, gateway, approved>>

Marked(o) ==
  /\ row[o] = "pending" /\ row' = [row EXCEPT ![o] = "success"]
  /\ UNCHANGED <<credits, gateway, approved>>

Kept == UNCHANGED <<row, credits, gateway, approved>>

\* What is known of a handler that is at work.
LEMMA AtWork ==
  ASSUME HandlersOK, OrderInv, NEW h \in Handlers, handler[h].pc \in InSection
  PROVE  /\ Order(h) \in Orders /\ NoticeTrue(h) /\ ReadFresh(h) /\ Matches(Order(h))
         /\ row[Order(h)] # "none"
  <1>1. Order(h) \in Orders
    BY DEF HandlersOK, HandlerType, Order
  <1>2. NoticeTrue(h) /\ ReadFresh(h)
    BY DEF OrderInv, NoticesTrue, ReadsFresh, At, InSection
  <1>3. Matches(Order(h))
    BY <1>1 DEF OrderInv, RowMatchesCredit
  <1>4. row[Order(h)] # "none"
    BY <1>1, <1>2 DEF NoticeTrue, OrderInv, RowsKnown
  <1> QED
    BY <1>1, <1>2, <1>3, <1>4

\* SaveTopUp marks an order as paid before it is credited, or closes it.
LEMMA SaveTopUpInv ==
  ASSUME OneNode, RowsOK, HandlersOK, LockInv, OrderInv, NEW h \in Handlers, SaveTopUp(h)
  PROVE  OrderInv' /\ (Marked(Order(h)) \/ Closed(Order(h)))
  <1>1. PICK p \in Orders : p = Order(h)
    BY DEF HandlersOK, HandlerType, Order
  <1>2. /\ HandlersOK' /\ handler[h].pc = "save" /\ handler[h].pc \in InSection
        /\ IF Paid(h) THEN Moves(h, "credit") ELSE Moves(h, "unlock")
    BY SaveTopUpMoves DEF InSection
  <1>3. /\ row[p] = "pending" /\ TopUp(h) /\ credits[p] = 0
        /\ Paid(h) => KindOf(h).gw = "epay"
    BY <1>1, <1>2, AtWork DEF ReadFresh, At, Matches, Paid
  <1>4. /\ row' = [row EXCEPT ![p] = IF Paid(h) THEN "success" ELSE "failed"]
        /\ UNCHANGED <<kind, credits, gateway, approved, hurt>>
    BY <1>1 DEF SaveTopUp, historyVars
  <1>5. CASE Paid(h)
    <2>1. row'[p] = "success" /\ \A o \in Orders : o # p => row'[o] = row[o]
      BY <1>4, <1>5 DEF RowsOK
    <2>2. Moves(h, "credit") /\ Order(h)' = p
      BY <1>1, <1>2, <1>5 DEF Moves, Order
    <2>3. ReadFresh(h)'
      BY <2>1, <2>2, <1>1, <1>3, <1>4, <1>5 DEF Moves, ReadFresh, At, TopUp, Paid, KindOf, Order
    <2>4. Matches(p)'
      <3>1. At(h, "credit")'
        BY <2>2 DEF Moves, At
      <3>2. kind[p].gw = "epay" /\ ~kind[p].sub
        BY <1>1, <1>3, <1>5 DEF TopUp, KindOf, Order
      <3> QED
        BY <3>1, <3>2, <2>1, <2>2, <1>3, <1>4 DEF Matches
    <2>5. OrderInv'
      BY <2>1, <2>2, <2>3, <2>4, <1>1, <1>2, <1>4, WriteFrame
    <2>6. Marked(p)
      BY <1>3, <1>4, <1>5 DEF Marked
    <2> QED
      BY <2>5, <2>6, <1>1
  <1>6. CASE ~Paid(h)
    <2>1. row'[p] = "failed" /\ \A o \in Orders : o # p => row'[o] = row[o]
      BY <1>4, <1>6 DEF RowsOK
    <2>2. Moves(h, "unlock")
      BY <1>2, <1>6
    <2>3. Matches(p)'
      BY <2>1, <1>3, <1>4 DEF Matches
    <2>4. OrderInv'
      BY <2>1, <2>2, <2>3, <1>1, <1>2, <1>4, WriteFrame
    <2>5. Closed(p)
      BY <1>3, <1>4, <1>6 DEF Closed
    <2> QED
      BY <2>4, <2>5, <1>1
  <1> QED
    BY <1>5, <1>6

\* IncreaseUserQuota credits an order that was marked.
LEMMA IncreaseUserQuotaInv ==
  ASSUME OneNode, RowsOK, HandlersOK, LockInv, OrderInv, NEW h \in Handlers, IncreaseUserQuota(h)
  PROVE  OrderInv' /\ Credited(Order(h))
  <1>1. PICK p \in Orders : p = Order(h)
    BY DEF HandlersOK, HandlerType, Order
  <1>2. /\ HandlersOK' /\ handler[h].pc = "credit" /\ handler[h].pc \in InSection
        /\ Moves(h, "unlock")
    BY DoneMoves DEF InSection
  <1>3. row[p] = "success" /\ credits[p] = 0 /\ gateway[p] = "paid"
    BY <1>1, <1>2, AtWork DEF ReadFresh, NoticeTrue, At
  <1>4. /\ row' = row /\ credits' = [credits EXCEPT ![p] = @ + 1]
        /\ UNCHANGED <<kind, gateway, approved, hurt>>
    BY <1>1 DEF IncreaseUserQuota, historyVars
  <1>5. /\ credits' = [credits EXCEPT ![p] = 1] /\ row' = [row EXCEPT ![p] = "success"]
        /\ credits'[p] = 1 /\ \A o \in Orders : o # p => credits'[o] = credits[o]
    BY <1>3, <1>4 DEF RowsOK
  <1>6. Matches(p)'
    BY <1>3, <1>4, <1>5 DEF Matches
  <1>7. OrderInv'
    BY <1>1, <1>2, <1>3, <1>4, <1>5, <1>6, WriteFrame
  <1>8. Credited(p)
    BY <1>3, <1>4, <1>5 DEF Credited
  <1> QED
    BY <1>1, <1>7, <1>8

\* Recharge credits a pending top-up, or does nothing.
LEMMA RechargeInv ==
  ASSUME OneNode, RowsOK, HandlersOK, LockInv, OrderInv, NEW h \in Handlers, Recharge(h)
  PROVE  OrderInv' /\ (Credited(Order(h)) \/ Kept)
  <1>1. PICK p \in Orders : p = Order(h)
    BY DEF HandlersOK, HandlerType, Order
  <1>2. /\ HandlersOK' /\ handler[h].pc \in {"work", "recharge"} /\ handler[h].pc \in InSection
        /\ Moves(h, "unlock")
    BY RechargeMoves DEF InSection
  <1>3. gateway[p] = "paid" \/ p \in approved
    <2>1. handler[h].what = "admin" \/ Paid(h)
      BY <1>2, AtWork DEF Recharge, AtRecharge, ReadFresh, At
    <2> QED
      BY <2>1, <1>1, <1>2, AtWork DEF NoticeTrue
  <1>4. /\ \/ UNCHANGED rowVars
           \/ /\ row[p] = "pending" /\ row' = [row EXCEPT ![p] = "success"]
              /\ credits' = [credits EXCEPT ![p] = @ + 1]
        /\ UNCHANGED <<kind, gateway, approved, hurt>>
    BY <1>1, Zenon DEF Recharge, historyVars
  <1>5. CASE UNCHANGED rowVars
    <2>1. NoticeKept(h) /\ FreshKept(h) /\ \A g \in Handlers : g # h => handler'[g] = handler[g]
      BY <1>2 DEF NoticeKept, FreshKept, Moves
    <2>2. OrderInv'
      BY <2>1, <1>2, <1>4, <1>5, QuietFrame DEF rowVars, At
    <2> QED
      BY <2>2, <1>4, <1>5 DEF Kept, rowVars
  <1>6. CASE /\ row[p] = "pending" /\ row' = [row EXCEPT ![p] = "success"]
             /\ credits' = [credits EXCEPT ![p] = @ + 1]
    <2>1. credits[p] = 0
      BY <1>1, <1>2, <1>6, AtWork DEF Matches
    <2>2. /\ credits' = [credits EXCEPT ![p] = 1] /\ credits'[p] = 1 /\ row'[p] = "success"
          /\ \A o \in Orders : o # p => credits'[o] = credits[o] /\ row'[o] = row[o]
      BY <2>1, <1>6 DEF RowsOK
    <2>3. Matches(p)'
      BY <2>2 DEF Matches
    <2>4. OrderInv'
      BY <2>2, <2>3, <1>1, <1>2, <1>4, WriteFrame
    <2>5. Credited(p)
      BY <2>1, <2>2, <1>3, <1>4, <1>6 DEF Credited
    <2> QED
      BY <2>4, <2>5, <1>1
  <1> QED
    BY <1>4, <1>5, <1>6

\* CompleteSubscriptionOrder credits an order that is still pending.
LEMMA CompleteInv ==
  ASSUME OneNode, RowsOK, HandlersOK, LockInv, OrderInv, NEW h \in Handlers,
         CompleteSubscriptionOrder(h)
  PROVE  OrderInv' /\ Credited(Order(h))
  <1>1. PICK p \in Orders : p = Order(h)
    BY DEF HandlersOK, HandlerType, Order
  <1>2. /\ HandlersOK' /\ handler[h].pc = "commit" /\ handler[h].pc \in InSection
        /\ Moves(h, "unlock")
    BY DoneMoves DEF InSection
  <1>3. row[p] = "pending" /\ credits[p] = 0 /\ gateway[p] = "paid"
    BY <1>1, <1>2, AtWork DEF ReadFresh, NoticeTrue, At, Matches
  <1>4. /\ row' = [row EXCEPT ![p] = "success"] /\ credits' = [credits EXCEPT ![p] = @ + 1]
        /\ UNCHANGED <<kind, gateway, approved, hurt>>
    BY <1>1 DEF CompleteSubscriptionOrder, historyVars
  <1>5. /\ credits' = [credits EXCEPT ![p] = 1] /\ credits'[p] = 1 /\ row'[p] = "success"
        /\ \A o \in Orders : o # p => credits'[o] = credits[o] /\ row'[o] = row[o]
    BY <1>3, <1>4 DEF RowsOK
  <1>6. Matches(p)'
    BY <1>5 DEF Matches
  <1>7. OrderInv'
    BY <1>1, <1>2, <1>4, <1>5, <1>6, WriteFrame
  <1>8. Credited(p)
    BY <1>3, <1>4, <1>5 DEF Credited
  <1> QED
    BY <1>1, <1>7, <1>8

\* Expire closes a pending order, or does nothing.
LEMMA ExpireInv ==
  ASSUME OneNode, RowsOK, HandlersOK, LockInv, OrderInv, NEW h \in Handlers, Expire(h)
  PROVE  OrderInv' /\ (Closed(Order(h)) \/ Kept)
  <1>1. PICK p \in Orders : p = Order(h)
    BY DEF HandlersOK, HandlerType, Order
  <1>2. /\ HandlersOK' /\ handler[h].pc = "work" /\ handler[h].pc \in InSection
        /\ Moves(h, "unlock")
    BY DoneMoves DEF InSection
  <1>3. /\ row' = [row EXCEPT ![p] = IF @ = "pending" THEN "expired" ELSE @]
        /\ UNCHANGED <<kind, credits, gateway, approved, hurt>>
    BY <1>1 DEF Expire, historyVars
  <1>4. CASE row[p] = "pending"
    <2>1. /\ row' = [row EXCEPT ![p] = "expired"] /\ row'[p] = "expired"
          /\ \A o \in Orders : o # p => row'[o] = row[o]
      BY <1>3, <1>4 DEF RowsOK
    <2>2. credits[p] = 0
      BY <1>1, <1>2, <1>4, AtWork DEF Matches
    <2>3. Matches(p)'
      BY <2>1, <2>2, <1>3 DEF Matches
    <2>4. OrderInv'
      BY <2>1, <2>3, <1>1, <1>2, <1>3, WriteFrame
    <2>5. Closed(p)
      BY <2>1, <2>2, <1>3, <1>4 DEF Closed
    <2> QED
      BY <2>4, <2>5, <1>1
  <1>5. CASE row[p] # "pending"
    <2>1. row' = row
      BY <1>3, <1>5 DEF RowsOK
    <2>2. NoticeKept(h) /\ FreshKept(h) /\ \A g \in Handlers : g # h => handler'[g] = handler[g]
      BY <1>2 DEF NoticeKept, FreshKept, Moves
    <2>3. OrderInv'
      BY <2>1, <2>2, <1>2, <1>3, QuietFrame DEF At
    <2> QED
      BY <2>1, <2>3, <1>3 DEF Kept
  <1> QED
    BY <1>4, <1>5

\* UpdatePendingTopUpStatus, although it takes no lock, closes a pending
\* order, or does nothing: the orders handlers are at work on are not Waffo's
\* with a failed payment.
LEMMA UpdateInv ==
  ASSUME RowsOK, HandlersOK, OrderInv, NEW h \in Handlers, UpdatePendingTopUpStatus(h)
  PROVE  OrderInv' /\ (Closed(Order(h)) \/ Kept)
  <1>1. PICK p \in Orders : p = Order(h)
    BY DEF HandlersOK, HandlerType, Order
  <1>2. HandlersOK' /\ handler[h].pc = "plain" /\ Stops(h)
    BY UpdateMoves
  <1>3. /\ row' = [row EXCEPT ![p] = IF @ = "pending" THEN "failed" ELSE @]
        /\ UNCHANGED <<kind, credits, gateway, approved, hurt>>
    BY <1>1 DEF UpdatePendingTopUpStatus, historyVars
  <1>4. NoticeTrue(h)
    BY <1>2 DEF OrderInv, NoticesTrue, At
  <1>5. gateway[p] = "failed" /\ kind[p].gw = "waffo"
    BY <1>1, <1>2, <1>4 DEF NoticeTrue, At, KindOf, Order
  <1>6. CASE row[p] = "pending"
    <2>1. /\ row' = [row EXCEPT ![p] = "failed"] /\ row'[p] = "failed"
          /\ \A o \in Orders : o # p => row'[o] = row[o]
      BY <1>3, <1>6 DEF RowsOK
    <2>2. credits[p] = 0
      BY <1>6 DEF OrderInv, RowMatchesCredit, Matches
    <2>3. RowsKnown'
      BY <2>1, <1>3, <1>5 DEF OrderInv, RowsKnown
    <2>4. GatewayAdvances
      BY <1>3 DEF GatewayAdvances
    <2>5. ASSUME NEW g \in Handlers PROVE NoticeKept(g) /\ FreshKept(g)
      <3>1. handler'[g] = handler[g] \/ handler'[g].pc = "idle"
        BY <1>2 DEF Stops
      <3>2. handler[g].pc \in {"save", "credit", "commit"} => Order(g) # p
        <4>1. handler[g].pc \in {"save", "credit", "commit"} => NoticeTrue(g) /\ ReadFresh(g)
          BY AtWork DEF InSection
        <4>2. CASE handler[g].pc = "save"
          BY <4>1, <4>2, <1>5 DEF NoticeTrue, ReadFresh, At, KindOf, Order
        <4>3. CASE handler[g].pc \in {"credit", "commit"}
          BY <4>1, <4>3, <1>5 DEF NoticeTrue, ReadFresh, At
        <4> QED
          BY <4>2, <4>3
      <3>3. Order(g) \in Orders
        BY DEF HandlersOK, HandlerType, Order
      <3> QED
        BY <3>1, <3>2, <3>3, <2>1, <1>3 DEF NoticeKept, FreshKept
    <2>6. ASSUME NEW o \in Orders PROVE MatchKept(o)
      <3>1. CASE o = p
        BY <3>1, <2>1, <2>2, <1>3 DEF MatchKept, Matches
      <3>2. CASE o # p
        BY <3>2, <2>1, <1>1, <1>2, <1>3 DEF MatchKept, Stops
      <3> QED
        BY <3>1, <3>2
    <2>7. OrderInv'
      BY <2>3, <2>4, <2>5, <2>6, <1>2, <1>3, OrderFrame
    <2>8. Closed(p)
      BY <2>1, <2>2, <1>3, <1>6 DEF Closed
    <2> QED
      BY <2>7, <2>8, <1>1
  <1>7. CASE row[p] # "pending"
    <2>1. row' = row
      BY <1>3, <1>7 DEF RowsOK
    <2>2. NoticeKept(h) /\ FreshKept(h) /\ \A g \in Handlers : g # h => handler'[g] = handler[g]
      BY <1>2 DEF NoticeKept, FreshKept, Stops
    <2>3. OrderInv'
      BY <2>1, <2>2, <1>2, <1>3, QuietFrame DEF At
    <2> QED
      BY <2>1, <2>3, <1>3 DEF Kept
  <1> QED
    BY <1>6, <1>7

-----------------------------------------------------------------------------
(***************************************************************************)
(* Every step                                                              *)
(***************************************************************************)

\* A step of a handler keeps the invariant and does one thing to the books.
LEMMA HandlerOrders ==
  ASSUME OneNode, RowsOK, HandlersOK, LocksOK, LockInv, OrderInv, NEW h \in Handlers,
         Acquire(h) \/ Proceed(h) \/ DatabaseFails(h)
  PROVE  OrderInv' /\ \E o \in Orders : Credited(o) \/ Closed(o) \/ Marked(o) \/ Kept
  <1>1. Order(h) \in Orders
    BY DEF HandlersOK, HandlerType, Order
  <1> QED
    BY <1>1, QuietInv, FailsInv, SaveTopUpInv, IncreaseUserQuotaInv, RechargeInv, CompleteInv,
       ExpireInv, UpdateInv, Zenon DEF Proceed, Statement, Kept

\* Every step keeps the invariant.
LEMMA OrdersStep ==
  ASSUME OneNode, "eager" \notin Faults, TypeOK, LockInv, OrderInv, [Next]_vars
  PROVE  OrderInv'
  <1>1. RowsOK /\ SetupOK /\ HandlersOK /\ LocksOK
    BY TypeParts
  <1>2. CASE UNCHANGED vars
    <2>1. UNCHANGED <<kind, row, credits, gateway, approved, hurt, handler>>
      BY <1>2, Zenon DEF vars, rowVars, historyVars
    <2>2. RowsKnown'
      BY <2>1 DEF OrderInv, RowsKnown
    <2>3. GatewayAdvances
      BY <2>1 DEF GatewayAdvances
    <2>4. \A g \in Handlers : NoticeKept(g) /\ FreshKept(g)
      BY <2>1 DEF NoticeKept, FreshKept
    <2>5. \A o \in Orders : MatchKept(o)
      BY <2>1 DEF MatchKept
    <2>6. HandlersOK'
      BY <1>1, <2>1 DEF HandlersOK
    <2> QED
      BY <1>1, <2>1, <2>2, <2>3, <2>4, <2>5, <2>6, OrderFrame
  <1> QED
    BY <1>1, <1>2, OutsideInv, ReceiveInv, HandlerOrders, CrashOrders DEF Next

\* The initial states satisfy the invariant.
LEMMA InitOrders == Init => OrderInv
  <1> SUFFICES ASSUME Init PROVE OrderInv
    OBVIOUS
  <1>1. \A h \in Handlers : handler[h].pc = "idle"
    BY IdleType DEF Init
  <1>2. NoticesTrue /\ ReadsFresh
    BY <1>1 DEF NoticesTrue, ReadsFresh, ReadFresh, At
  <1>3. RowsKnown
    BY DEF Init, RowsKnown
  <1>4. RowMatchesCredit
    BY DEF Init, RowMatchesCredit, Matches
  <1> QED
    BY <1>2, <1>3, <1>4 DEF OrderInv

\* The invariants hold in every state.
LEMMA Invariants ==
  ASSUME OneNode, "eager" \notin Faults
  PROVE  Spec => [](TypeOK /\ LockInv /\ OrderInv)
  <1>1. Init => TypeOK /\ LockInv /\ OrderInv
    BY InitTypes, InitOrders
  <1>2. TypeOK /\ LockInv /\ OrderInv /\ [Next]_vars => (TypeOK /\ LockInv /\ OrderInv)'
    BY TypesStep, OrdersStep
  <1> QED
    BY <1>1, <1>2, PTL DEF Spec

\* A successful order was credited once and no other order was credited,
\* however often its notice is repeated and whatever fails: on one node, and
\* except for an epay top-up caught between its two statements.
THEOREM RowsMatchCredits ==
  ASSUME OneNode, "eager" \notin Faults
  PROVE  Spec => []RowMatchesCredit
  <1>1. OrderInv => RowMatchesCredit
    BY DEF OrderInv
  <1> QED
    BY <1>1, Invariants, PTL

\* The books after a step of a handler.
LEMMA HandlerKeepsFinal ==
  ASSUME RowsOK, NEW o \in Orders, Credited(o) \/ Closed(o) \/ Marked(o) \/ Kept
  PROVE  \A p \in Orders : row[p] \in Final => row'[p] = row[p]
  BY DEF RowsOK, Credited, Closed, Marked, Kept, Final

\* The status an order has ended with is never overwritten: not by a handler
\* that saves the row it has read, not by Waffo's failure notice without the
\* lock, and not by a checkout that fails late.
THEOREM FinalStatusKept ==
  ASSUME OneNode, "eager" \notin Faults
  PROVE  Spec => FinalStatusStays
  <1>1. TypeOK /\ LockInv /\ OrderInv /\ [Next]_vars
        => [\A o \in Orders : row[o] \in Final => row'[o] = row[o]]_vars
    <2> SUFFICES ASSUME TypeOK, LockInv, OrderInv, Next
                 PROVE  \A p \in Orders : row[p] \in Final => row'[p] = row[p]
      BY Zenon
    <2>1. RowsOK /\ SetupOK /\ HandlersOK /\ LocksOK
      BY TypeParts
    <2>2. ASSUME NEW o \in Orders, Outside(o)
          PROVE  \A p \in Orders : row[p] \in Final => row'[p] = row[p]
      BY <2>1, <2>2, OutsideInv
    <2>3. ASSUME NEW h \in Handlers, NEW o \in Orders, NEW n \in Nodes, NEW what \in Notices,
                 Receive(h, o, n, what)
          PROVE  row' = row
      BY <2>3 DEF Receive, rowVars
    <2>4. ASSUME NEW h \in Handlers, Acquire(h) \/ Proceed(h) \/ DatabaseFails(h)
          PROVE  \A p \in Orders : row[p] \in Final => row'[p] = row[p]
      BY <2>1, <2>4, HandlerOrders, HandlerKeepsFinal
    <2>5. ASSUME NEW n \in Nodes, Crash(n) PROVE row' = row
      BY <2>5 DEF Crash, rowVars
    <2> QED
      BY <2>2, <2>3, <2>4, <2>5 DEF Next
  <1> QED
    BY <1>1, Invariants, PTL DEF Spec, FinalStatusStays

-----------------------------------------------------------------------------
(***************************************************************************)
(* The ledger                                                              *)
(***************************************************************************)

due == approved \union {o \in Orders : gateway[o] = "paid"}
closed == {o \in Orders : row[o] \in {"failed", "expired"}}

\* A step of a handler is a step of the ledger or none.
LEMMA HandlerLedger ==
  ASSUME RowsOK, NEW o \in Orders, Credited(o) \/ Closed(o) \/ Marked(o) \/ Kept
  PROVE  Ledger!LedgerNext \/ UNCHANGED <<due, closed, credits>>
  <1>1. CASE Credited(o)
    <2>1. due' = due /\ o \in due
      BY <1>1 DEF Credited, due
    <2>2. closed' = closed /\ o \notin closed
      BY <1>1 DEF Credited, closed, RowsOK
    <2>3. credits[o] = 0 /\ credits' = [credits EXCEPT ![o] = 1]
      BY <1>1 DEF Credited
    <2> QED
      BY <2>1, <2>2, <2>3 DEF Ledger!LedgerNext, Ledger!Credit, due, closed
  <1>2. CASE Closed(o)
    <2>1. due' = due /\ credits' = credits /\ credits[o] = 0
      BY <1>2 DEF Closed, due
    <2>2. closed' = closed \union {o}
      BY <1>2 DEF Closed, closed, RowsOK
    <2> QED
      BY <2>1, <2>2 DEF Ledger!LedgerNext, Ledger!Close, due, closed
  <1>3. CASE Marked(o)
    <2>1. due' = due /\ credits' = credits
      BY <1>3 DEF Marked, due
    <2>2. closed' = closed
      BY <1>3 DEF Marked, closed, RowsOK
    <2> QED
      BY <2>1, <2>2
  <1>4. CASE Kept
    BY <1>4 DEF Kept, due, closed
  <1> QED
    BY <1>1, <1>2, <1>3, <1>4

\* What the customer and the gateway do: a payment makes an order due, a
\* checkout that fails closes one.
LEMMA OutsideLedger ==
  ASSUME RowsOK, OrderInv, NEW o \in Orders, Outside(o)
  PROVE  Ledger!LedgerNext \/ UNCHANGED <<due, closed, credits>>
  <1>1. UNCHANGED <<credits, approved>>
    BY DEF Outside, RequestPay, CheckoutOpened, CheckoutFails, GatewayEnds, rowVars, historyVars
  <1>2. CASE RequestPay(o)
    <2>1. gateway[o] = "none" /\ row[o] = "none"
      BY <1>2 DEF RequestPay, OrderInv, RowsKnown
    <2>2. PICK s \in {"open", "calling"} : gateway' = [gateway EXCEPT ![o] = s]
      BY <1>2, Zenon DEF RequestPay
    <2>3. due' = due
      BY <2>1, <2>2, <1>1 DEF due, RowsOK
    <2>4. row' = [row EXCEPT ![o] = "pending"]
      BY <1>2 DEF RequestPay
    <2>5. closed' = closed
      BY <2>1, <2>4 DEF closed, RowsOK
    <2> QED
      BY <2>3, <2>5, <1>1
  <1>3. CASE CheckoutOpened(o)
    <2>1. row' = row /\ gateway[o] = "calling" /\ gateway' = [gateway EXCEPT ![o] = "open"]
      BY <1>3 DEF CheckoutOpened, rowVars
    <2> QED
      BY <2>1, <1>1 DEF due, closed, RowsOK
  <1>4. CASE CheckoutFails(o)
    <2>1. gateway[o] = "calling" /\ gateway' = [gateway EXCEPT ![o] = "dead"]
      BY <1>4 DEF CheckoutFails
    <2>2. due' = due
      BY <2>1, <1>1 DEF due, RowsOK
    <2>3. row[o] = "pending" /\ credits[o] = 0
      BY <2>1 DEF OrderInv, RowsKnown, RowMatchesCredit, Matches
    <2>4. row' = row \/ \E s \in {"failed", "expired"} : row' = [row EXCEPT ![o] = s]
      <3>1. row = [row EXCEPT ![o] = row[o]]
        BY DEF RowsOK
      <3> QED
        BY <3>1, <1>4, Zenon DEF CheckoutFails
    <2>5. closed' = closed \/ closed' = closed \union {o}
      BY <2>3, <2>4 DEF closed, RowsOK
    <2> QED
      BY <2>2, <2>3, <2>5, <1>1 DEF Ledger!LedgerNext, Ledger!Close, due, closed
  <1>5. CASE \E outcome \in Outcomes : GatewayEnds(o, outcome)
    <2>1. PICK s \in Outcomes : /\ gateway' = [gateway EXCEPT ![o] = s] /\ row' = row
                                /\ gateway[o] = "open"
      BY <1>5 DEF GatewayEnds, rowVars
    <2>2. due' = due \/ due' = due \union {o}
      BY <2>1, <1>1 DEF due, RowsOK
    <2>3. closed' = closed
      BY <2>1 DEF closed
    <2> QED
      BY <2>2, <2>3, <1>1 DEF Ledger!LedgerNext, Ledger!Allow, due, closed
  <1> QED
    BY <1>2, <1>3, <1>4, <1>5 DEF Outside

\* The payment code implements CreditLedger: an order is credited once, only
\* after it was paid or approved and never after it was closed, and a credited
\* order is never closed.
THEOREM PaymentsImplementLedger ==
  ASSUME OneNode, "eager" \notin Faults
  PROVE  Spec => ImplementsLedger
  <1>1. Init => Ledger!LedgerInit
    BY DEF Init, Ledger!LedgerInit
  <1>2. TypeOK /\ LockInv /\ OrderInv /\ [Next]_vars => [Ledger!LedgerNext]_(Ledger!ledgerVars)
    <2> SUFFICES ASSUME TypeOK, LockInv, OrderInv, [Next]_vars
                 PROVE  Ledger!LedgerNext \/ UNCHANGED <<due, closed, credits>>
      BY DEF Ledger!ledgerVars, due, closed
    <2>1. RowsOK /\ SetupOK /\ HandlersOK /\ LocksOK
      BY TypeParts
    <2>2. ASSUME NEW o \in Orders, Outside(o)
          PROVE  Ledger!LedgerNext \/ UNCHANGED <<due, closed, credits>>
      BY <2>1, <2>2, OutsideLedger
    <2>3. ASSUME NEW h \in Handlers, NEW o \in Orders, NEW n \in Nodes, NEW what \in Notices,
                 Receive(h, o, n, what)
          PROVE  Ledger!LedgerNext \/ UNCHANGED <<due, closed, credits>>
      <3>1. /\ UNCHANGED <<row, credits, gateway>>
            /\ approved' = approved \/ approved' = approved \union {o}
        BY <2>3 DEF Receive, rowVars
      <3>2. /\ due' = due \/ due' = due \union {o}
            /\ closed' = closed
        BY <3>1 DEF due, closed
      <3> QED
        BY <3>1, <3>2 DEF Ledger!LedgerNext, Ledger!Allow, due, closed
    <2>4. ASSUME NEW h \in Handlers, Acquire(h) \/ Proceed(h) \/ DatabaseFails(h)
          PROVE  Ledger!LedgerNext \/ UNCHANGED <<due, closed, credits>>
      <3>1. PICK o \in Orders : Credited(o) \/ Closed(o) \/ Marked(o) \/ Kept
        BY <2>1, <2>4, HandlerOrders
      <3> QED
        BY <2>1, <3>1, HandlerLedger
    <2>5. ASSUME NEW n \in Nodes, Crash(n)
          PROVE  UNCHANGED <<due, closed, credits>>
      BY <2>5 DEF Crash, rowVars, due, closed
    <2>6. CASE UNCHANGED vars
      BY <2>6 DEF vars, rowVars, historyVars, due, closed
    <2> QED
      BY <2>2, <2>3, <2>4, <2>5, <2>6 DEF Next
  <1> QED
    BY <1>1, <1>2, Invariants, PTL DEF Spec, ImplementsLedger, Ledger!LedgerSpec
=============================================================================
