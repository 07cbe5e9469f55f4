--------------------------- MODULE PaymentsProofs ---------------------------
(***************************************************************************)
(* Types and the lock of an order in the payments: for any number of       *)
(* nodes, orders and handlers, and every fault of the model.               *)
(***************************************************************************)
EXTENDS Payments, FiniteSetTheorems, TLAPS

-----------------------------------------------------------------------------
(***************************************************************************)
(* Types                                                                   *)
(***************************************************************************)

HandlerType == [pc : Pcs, order : Orders, node : Nodes, what : Notices \union {"none"},
                lk : 0 .. NHandlers, ok : BOOLEAN]

RowsOK ==
  /\ row \in [Orders -> {"none", "pending", "success", "failed", "expired"}]
  /\ gateway \in [Orders -> {"none", "calling", "dead", "open"} \union Outcomes]
  /\ credits \in [Orders -> Nat]
  /\ acked \subseteq Orders /\ approved \subseteq Orders /\ hurt \subseteq Orders

SetupOK == kind \in [Orders -> Kinds] /\ database \in Databases

HandlersOK == handler \in [Handlers -> HandlerType]

FaultsOK == faults \in 0 .. MaxFaults

LocksOK ==
  /\ orderLocks \in [Nodes -> [Orders -> 0 .. NHandlers]]
  /\ mutex \in [Handlers -> [refCount : 0 .. NHandlers, holder : 0 .. NHandlers]]

\* TypeOK has five parts, which the actions change by different statements.
LEMMA TypeParts == TypeOK <=> (RowsOK /\ SetupOK /\ HandlersOK /\ FaultsOK /\ LocksOK)
  BY Zenon DEF TypeOK, RowsOK, SetupOK, HandlersOK, FaultsOK, LocksOK, HandlerType

\* The handlers are finitely many.
LEMMA HandlersFinite == IsFiniteSet(Handlers) /\ Cardinality(Handlers) = NHandlers
  BY FS_Interval, PaymentsAssumption DEF Handlers

\* An idle handler is well-typed.
LEMMA IdleType == Idle \in HandlerType /\ Idle.pc = "idle"
  <1>1. (CHOOSE o \in Orders : TRUE) \in Orders
    BY Zenon, PaymentsAssumption
  <1>2. (CHOOSE n \in Nodes : TRUE) \in Nodes
    BY Zenon, PaymentsAssumption
  <1> QED
    BY <1>1, <1>2, PaymentsAssumption DEF Idle, HandlerType, Pcs

-----------------------------------------------------------------------------
(***************************************************************************)
(* How handlers move                                                       *)
(***************************************************************************)

\* Handler h is at pc and the rest of it, and the others, are as before.
Moves(h, pc) ==
  /\ handler'[h].pc = pc
  /\ handler'[h].order = handler[h].order /\ handler'[h].node = handler[h].node
  /\ handler'[h].what = handler[h].what /\ handler'[h].lk = handler[h].lk
  /\ \A g \in Handlers : g # h => handler'[g] = handler[g]

\* Handler h is idle and the others are as before.
Stops(h) ==
  /\ handler'[h].pc = "idle"
  /\ \A g \in Handlers : g # h => handler'[g] = handler[g]

\* Goto moves one handler.
LEMMA GotoMoves ==
  ASSUME HandlersOK, NEW h \in Handlers, NEW pc \in Pcs, Goto(h, pc)
  PROVE  HandlersOK' /\ Moves(h, pc)
  BY DEF HandlersOK, HandlerType, Goto, Moves

\* So does Finish.
LEMMA FinishMoves ==
  ASSUME HandlersOK, NEW h \in Handlers, NEW ok \in BOOLEAN, Finish(h, ok)
  PROVE  HandlersOK' /\ Moves(h, "unlock")
  BY DEF HandlersOK, HandlerType, Finish, Moves, Pcs

\* The end of a handler.
LEMMA IdleStops ==
  ASSUME HandlersOK, NEW h \in Handlers, handler' = [handler EXCEPT ![h] = Idle]
  PROVE  HandlersOK' /\ Stops(h)
  BY IdleType DEF HandlersOK, Stops

\* Receive: a handler that was idle serves a request for an order.
LEMMA ReceiveMoves ==
  ASSUME HandlersOK, NEW h \in Handlers, NEW o \in Orders, NEW n \in Nodes, NEW what \in Notices,
         Receive(h, o, n, what)
  PROVE  /\ HandlersOK'
         /\ handler[h].pc = "idle" /\ handler'[h].pc = FirstStep(o, what)
         /\ handler'[h].pc \in {"plain", "resolve", "lock"}
         /\ handler'[h].order = o /\ handler'[h].what = what
         /\ \A g \in Handlers : g # h => handler'[g] = handler[g]
  <1> DEFINE new == [pc |-> FirstStep(o, what), order |-> o, node |-> n, what |-> what,
                     lk |-> 0, ok |-> FALSE]
  <1>1. FirstStep(o, what) \in {"plain", "resolve", "lock"}
    BY Zenon DEF FirstStep
  <1>2. new \in HandlerType /\ new.pc = FirstStep(o, what) /\ new.order = o /\ new.what = what
    BY <1>1, PaymentsAssumption DEF HandlerType, Pcs
  <1>3. handler' = [handler EXCEPT ![h] = new] /\ handler[h].pc = "idle"
    BY DEF Receive, At
  <1> HIDE DEF new
  <1> QED
    BY <1>1, <1>2, <1>3 DEF HandlersOK

\* ReadTopUp: on to the write of a pending top-up, or done.
LEMMA ReadTopUpMoves ==
  ASSUME HandlersOK, NEW h \in Handlers, ReadTopUp(h)
  PROVE  /\ HandlersOK' /\ handler[h].pc = "work"
         /\ \/ Moves(h, "unlock")
            \/ /\ Moves(h, "recharge") /\ TopUp(h) /\ KindOf(h).gw = "creem"
               /\ Paid(h) \/ handler[h].what = "failed"
            \/ /\ Moves(h, "save") /\ TopUp(h) /\ row[Order(h)] = "pending"
               /\ handler[h].what = "failed" \/ (Paid(h) /\ KindOf(h).gw = "epay")
  <1>1. handler[h].pc = "work"
    BY DEF ReadTopUp, At
  <1>2. CASE row[Order(h)] = "pending" /\ TopUp(h) /\ KindOf(h).gw = "creem"
    <2>1. Goto(h, "recharge")
      BY <1>2, Zenon DEF ReadTopUp
    <2>2. Paid(h) \/ handler[h].what = "failed"
      BY Zenon DEF ReadTopUp
    <2> QED
      BY <1>1, <1>2, <2>1, <2>2, GotoMoves DEF Pcs
  <1>3. CASE row[Order(h)] = "pending" /\ TopUp(h) /\ KindOf(h).gw # "creem"
    <2>1. Goto(h, "save")
      BY <1>3, Zenon DEF ReadTopUp
    <2>2. handler[h].what = "failed" \/ (Paid(h) /\ KindOf(h).gw = "epay")
      BY <1>3, Zenon DEF ReadTopUp
    <2> QED
      BY <1>1, <1>3, <2>1, <2>2, GotoMoves DEF Pcs
  <1>4. CASE ~(row[Order(h)] = "pending" /\ TopUp(h))
    <2>1. Finish(h, TRUE)
      BY <1>4, Zenon DEF ReadTopUp
    <2> QED
      BY <1>1, <2>1, FinishMoves
  <1> QED
    BY <1>2, <1>3, <1>4, Zenon

\* SaveTopUp: a paid order is to be credited next.
LEMMA SaveTopUpMoves ==
  ASSUME HandlersOK, NEW h \in Handlers, SaveTopUp(h)
  PROVE  /\ HandlersOK' /\ handler[h].pc = "save"
         /\ IF Paid(h) THEN Moves(h, "credit") ELSE Moves(h, "unlock")
  <1>1. handler[h].pc = "save"
    BY DEF SaveTopUp, At
  <1>2. CASE Paid(h)
    <2>1. Goto(h, "credit")
      BY <1>2, Zenon DEF SaveTopUp
    <2> QED
      BY <1>1, <1>2, <2>1, GotoMoves DEF Pcs
  <1>3. CASE ~Paid(h)
    <2>1. Finish(h, TRUE)
      BY <1>3, Zenon DEF SaveTopUp
    <2> QED
      BY <1>1, <1>3, <2>1, FinishMoves
  <1> QED
    BY <1>2, <1>3, Zenon

\* IncreaseUserQuota, CompleteSubscriptionOrder and Expire: done.
LEMMA DoneMoves ==
  ASSUME HandlersOK, NEW h \in Handlers,
         IncreaseUserQuota(h) \/ CompleteSubscriptionOrder(h) \/ Expire(h)
  PROVE  /\ HandlersOK' /\ Moves(h, "unlock")
         /\ IncreaseUserQuota(h) => handler[h].pc = "credit"
         /\ CompleteSubscriptionOrder(h) => handler[h].pc = "commit"
         /\ Expire(h) => handler[h].pc = "work"
  <1>1. Finish(h, TRUE)
    BY Zenon DEF IncreaseUserQuota, CompleteSubscriptionOrder, Expire
  <1>2. HandlersOK' /\ Moves(h, "unlock")
    BY <1>1, FinishMoves
  <1> QED
    BY <1>2, Zenon DEF IncreaseUserQuota, CompleteSubscriptionOrder, Expire, At

\* Recharge: done.
LEMMA RechargeMoves ==
  ASSUME HandlersOK, NEW h \in Handlers, Recharge(h)
  PROVE  HandlersOK' /\ Moves(h, "unlock") /\ handler[h].pc \in {"work", "recharge"}
  <1>1. handler[h].pc \in {"work", "recharge"}
    BY Zenon DEF Recharge, AtRecharge, At
  <1>2. PICK ok \in BOOLEAN : Finish(h, ok)
    <2> DEFINE same == row[Order(h)] = "success" /\ Idempotent(h)
    <2>1. same \in BOOLEAN
      BY Zenon
    <2>2. Finish(h, TRUE) \/ Finish(h, same)
      BY Zenon DEF Recharge
    <2> QED
      BY <2>1, <2>2, Zenon
  <1> QED
    BY <1>1, <1>2, FinishMoves

\* CountSubscriptions: on to the commit of a pending order, or done.
LEMMA CountMoves ==
  ASSUME HandlersOK, NEW h \in Handlers, CountSubscriptions(h)
  PROVE  /\ HandlersOK' /\ handler[h].pc = "work" /\ Paid(h) /\ ~TopUp(h)
         /\ Moves(h, "unlock") \/ (Moves(h, "commit") /\ row[Order(h)] = "pending")
  <1>1. handler[h].pc = "work" /\ Paid(h) /\ ~TopUp(h)
    BY Zenon DEF CountSubscriptions, At
  <1>2. CASE row[Order(h)] = "pending" /\ Bought < Limit
    <2>1. Goto(h, "commit")
      BY <1>2, Zenon DEF CountSubscriptions
    <2> QED
      BY <1>1, <1>2, <2>1, GotoMoves DEF Pcs
  <1>3. CASE ~(row[Order(h)] = "pending" /\ Bought < Limit)
    <2> DEFINE ok == row[Order(h)] = "success"
    <2>1. ok \in BOOLEAN
      BY Zenon
    <2>2. Finish(h, ok)
      BY <1>3, Zenon DEF CountSubscriptions
    <2> HIDE DEF ok
    <2> QED
      BY <1>1, <2>1, <2>2, FinishMoves
  <1> QED
    BY <1>2, <1>3, Zenon

\* UpdatePendingTopUpStatus: done, without a lock.
LEMMA UpdateMoves ==
  ASSUME HandlersOK, NEW h \in Handlers, UpdatePendingTopUpStatus(h)
  PROVE  HandlersOK' /\ handler[h].pc = "plain" /\ Stops(h)
  BY IdleStops DEF UpdatePendingTopUpStatus, At

\* A failure: the handler unlocks, answers or is done.
LEMMA FailsMoves ==
  ASSUME HandlersOK, NEW h \in Handlers, DatabaseFails(h)
  PROVE  /\ HandlersOK'
         /\ \/ handler[h].pc \in InSection /\ Moves(h, "unlock")
            \/ handler[h].pc = "plain" /\ Stops(h)
            \/ handler[h].pc = "resolve" /\ Moves(h, "answer")
  <1>1. TakenAs(h) \subseteq BOOLEAN
    BY Zenon DEF TakenAs
  <1>2. PICK ok \in BOOLEAN :
          \/ At(h, "plain") /\ handler' = [handler EXCEPT ![h] = Idle]
          \/ At(h, "resolve") /\ handler' = [handler EXCEPT ![h].pc = "answer", ![h].ok = ok]
          \/ handler[h].pc \notin {"plain", "resolve"} /\ Finish(h, ok)
    BY <1>1, Zenon DEF DatabaseFails
  <1>3. handler[h].pc \in {"resolve", "plain"} \union InSection
    BY Zenon DEF DatabaseFails, At, InSection
  <1>4. CASE At(h, "plain") /\ handler' = [handler EXCEPT ![h] = Idle]
    BY <1>4, IdleStops DEF At
  <1>5. CASE At(h, "resolve") /\ handler' = [handler EXCEPT ![h].pc = "answer", ![h].ok = ok]
    BY <1>5 DEF At, HandlersOK, HandlerType, Moves, Pcs
  <1>6. CASE handler[h].pc \notin {"plain", "resolve"} /\ Finish(h, ok)
    BY <1>3, <1>6, FinishMoves
  <1> QED
    BY <1>2, <1>4, <1>5, <1>6, Zenon

-----------------------------------------------------------------------------
(***************************************************************************)
(* The lock of an order                                                    *)
(***************************************************************************)

\* The users of a mutex are finitely many.
LEMMA UsersFinite ==
  ASSUME NEW i
  PROVE  IsFiniteSet(Users(i)) /\ Cardinality(Users(i)) \in 0 .. NHandlers
  <1>1. Users(i) \subseteq Handlers
    BY DEF Users
  <1> QED
    BY <1>1, HandlersFinite, FS_Subset, FS_CardinalityType, PaymentsAssumption

\* The lock table does not notice what a handler does that neither becomes
\* nor stops being a user or a holder.
LEMMA LockFrame ==
  ASSUME HandlersOK, HandlersOK', LocksOK, LockInv, UNCHANGED lockVars,
         \A g \in Handlers :
           \/ handler[g].pc \notin Locked /\ handler'[g].pc \notin Locked
           \/ /\ handler'[g].order = handler[g].order /\ handler'[g].node = handler[g].node
              /\ handler'[g].lk = handler[g].lk
              /\ \/ handler'[g].pc = handler[g].pc
                 \/ handler'[g].pc \in Holding /\ handler[g].pc \in Holding
  PROVE  LocksOK' /\ LockInv'
  <1>1. orderLocks' = orderLocks /\ mutex' = mutex
    BY Zenon DEF lockVars
  <1>2. \A g \in Handlers : handler'[g].pc \in Locked <=> handler[g].pc \in Locked
    BY DEF Locked
  <1>3. \A g \in Handlers : handler'[g].pc \in Holding <=> handler[g].pc \in Holding
    BY DEF Locked
  <1>4. \A g \in Handlers : handler[g].pc \in Locked =>
          /\ handler'[g].order = handler[g].order /\ handler'[g].node = handler[g].node
          /\ handler'[g].lk = handler[g].lk
    BY Zenon
  <1>5. ASSUME NEW i PROVE Users(i)' = Users(i)
    BY <1>2, <1>4 DEF Users
  <1>6. LocksOK'
    BY <1>1 DEF LocksOK
  <1>7. UsersFindEntry'
    BY <1>1, <1>2, <1>4 DEF LockInv, UsersFindEntry
  <1>8. EntriesUsed'
    BY <1>1, <1>2, <1>4 DEF LockInv, EntriesUsed
  <1>9. EntriesApart'
    BY <1>1 DEF LockInv, EntriesApart
  <1>10. CountsUsers'
    BY <1>1, <1>5 DEF LockInv, CountsUsers
  <1>11. HolderWorks'
    <2>1. \A h \in Handlers : handler'[h].pc \in Holding => mutex[handler'[h].lk].holder = h
      BY <1>3, <1>4 DEF LockInv, HolderWorks, Locked
    <2>2. \A i \in Handlers : mutex[i].holder # 0 =>
            mutex[i].holder \in Users(i) /\ mutex[i].holder \in Handlers
            /\ handler'[mutex[i].holder].pc \in Holding
      BY <1>3 DEF LockInv, HolderWorks, Users
    <2> QED
      BY <2>1, <2>2, <1>1, <1>5 DEF HolderWorks
  <1> QED
    BY <1>6, <1>7, <1>8, <1>9, <1>10, <1>11 DEF LockInv

\* A mutex without users is nobody's, and no entry has it.
LEMMA NoUsers ==
  ASSUME HandlersOK, LocksOK, LockInv, NEW i \in Handlers, Users(i) = {}
  PROVE  /\ mutex[i] = FreeMutex
         /\ \A m \in Nodes, p \in Orders : orderLocks[m][p] # i
  <1>1. mutex[i].refCount = 0
    BY FS_EmptySet DEF LockInv, CountsUsers
  <1>2. mutex[i].holder = 0
    BY DEF LockInv, HolderWorks
  <1>3. mutex[i] = FreeMutex
    BY <1>1, <1>2 DEF LocksOK, FreeMutex
  <1>4. ASSUME NEW m \in Nodes, NEW p \in Orders, orderLocks[m][p] = i
        PROVE  FALSE
    <2>1. i # 0
      BY PaymentsAssumption DEF Handlers
    <2>2. PICK g \in Handlers : handler[g].node = m /\ handler[g].order = p /\ handler[g].pc \in Locked
      BY <1>4, <2>1 DEF LockInv, EntriesUsed
    <2>3. handler[g].lk = i
      BY <1>4, <2>2 DEF LockInv, UsersFindEntry
    <2> QED
      BY <2>2, <2>3 DEF Users
  <1> QED
    BY <1>3, <1>4

\* A free mutex has no users.
LEMMA FreeUnused ==
  ASSUME HandlersOK, LocksOK, LockInv, NEW i \in Handlers, mutex[i] = FreeMutex
  PROVE  Users(i) = {}
  <1>1. Cardinality(Users(i)) = 0
    BY DEF LockInv, CountsUsers, FreeMutex
  <1> QED
    BY <1>1, UsersFinite, FS_EmptySet

\* While a handler is none, one of the mutexes has no users: there are as
\* many mutexes as handlers.
LEMMA SomeUnused ==
  ASSUME HandlersOK, NEW h \in Handlers, handler[h].pc \notin Locked
  PROVE  \E i \in Handlers : Users(i) = {}
  <1> SUFFICES ASSUME \A i \in Handlers : Users(i) # {}
               PROVE  FALSE
    BY Zenon
  <1> DEFINE f == [i \in Handlers |-> CHOOSE g : g \in Users(i)]
  <1>1. \A i \in Handlers : f[i] \in Users(i)
    BY Zenon
  <1>2. f \in [Handlers -> Handlers \ {h}]
    <2>1. \A i \in Handlers : Users(i) \subseteq Handlers \ {h}
      BY DEF Users
    <2> QED
      BY <1>1, <2>1
  <1>3. IsFiniteSet(Handlers \ {h}) /\ Cardinality(Handlers \ {h}) = NHandlers - 1
    BY HandlersFinite, FS_RemoveElement
  <1> HIDE DEF f
  <1>4. PICK i, j \in Handlers : i # j /\ f[i] = f[j]
    <2>1. Cardinality(Handlers \ {h}) < Cardinality(Handlers)
      BY <1>3, HandlersFinite, PaymentsAssumption
    <2> QED
      BY <1>2, <1>3, <2>1, HandlersFinite, FS_PigeonHole, Zenon
  <1>5. handler[f[i]].lk = i /\ handler[f[j]].lk = j
    BY <1>1 DEF Users
  <1> QED
    BY <1>4, <1>5

\* LockOrder: one more user of the order's mutex, or the first one of a mutex
\* that had none.
LEMMA LockOrderInv ==
  ASSUME HandlersOK, LocksOK, LockInv, NEW h \in Handlers, LockOrder(h)
  PROVE  HandlersOK' /\ LocksOK' /\ LockInv'
  <1> DEFINE n == handler[h].node
             o == handler[h].order
  <1>1. handler[h].pc = "lock" /\ n \in Nodes /\ o \in Orders /\ h # 0
    BY DEF LockOrder, At, HandlersOK, HandlerType, Handlers
  <1>2. handler[h].pc \notin Locked
    BY <1>1 DEF Locked, Holding, InSection
  <1>3. PICK lk \in Handlers :
          /\ \/ orderLocks[n][o] = lk
             \/ /\ orderLocks[n][o] = 0 /\ Users(lk) = {}
                /\ \A m \in Nodes, p \in Orders : orderLocks[m][p] # lk
          /\ orderLocks' = [orderLocks EXCEPT ![n][o] = lk]
          /\ mutex' = [mutex EXCEPT ![lk].refCount = @ + 1]
          /\ handler' = [handler EXCEPT ![h].pc = "wait", ![h].lk = lk]
    <2> DEFINE i == IF orderLocks[n][o] # 0 THEN orderLocks[n][o]
                    ELSE CHOOSE j \in Handlers : mutex[j] = FreeMutex
    <2>1. CASE orderLocks[n][o] # 0
      <3>1. i \in Handlers /\ orderLocks[n][o] = i
        BY <1>1, <2>1 DEF LocksOK, Handlers
      <3> QED
        BY <3>1, Zenon DEF LockOrder
    <2>2. CASE orderLocks[n][o] = 0
      <3>1. \E j \in Handlers : mutex[j] = FreeMutex
        BY <1>2, SomeUnused, NoUsers
      <3>2. i \in Handlers /\ mutex[i] = FreeMutex
        BY <2>2, <3>1, Zenon
      <3>3. Users(i) = {} /\ \A m \in Nodes, p \in Orders : orderLocks[m][p] # i
        <4> HIDE DEF i
        <4> QED
          BY <3>2, FreeUnused, NoUsers
      <3> QED
        BY <2>2, <3>2, <3>3, Zenon DEF LockOrder
    <2> QED
      BY <2>1, <2>2
  <1>5. /\ HandlersOK'
        /\ handler'[h].pc = "wait" /\ handler'[h].lk = lk
        /\ handler'[h].order = o /\ handler'[h].node = n
        /\ \A g \in Handlers : g # h => handler'[g] = handler[g]
    <2>1. lk \in 0 .. NHandlers /\ "wait" \in Pcs
      BY <1>3 DEF Handlers, Pcs
    <2>2. handler' = [handler EXCEPT ![h] = [@ EXCEPT !.pc = "wait", !.lk = lk]]
      BY <1>3
    <2>3. [handler[h] EXCEPT !.pc = "wait", !.lk = lk] \in HandlerType
      BY <2>1 DEF HandlersOK, HandlerType
    <2> QED
      BY <2>1, <2>2, <2>3 DEF HandlersOK, HandlerType
  <1>6. orderLocks' \in [Nodes -> [Orders -> 0 .. NHandlers]]
    BY <1>1, <1>3 DEF LocksOK, Handlers
  <1>7. \A m \in Nodes, p \in Orders :
          orderLocks'[m][p] = IF m = n /\ p = o THEN lk ELSE orderLocks[m][p]
    BY <1>1, <1>3 DEF LocksOK
  <1>8. \A i \in Handlers : /\ mutex'[i].holder = mutex[i].holder
                            /\ i # lk => mutex'[i] = mutex[i]
                            /\ i = lk => mutex'[i] = [refCount |-> mutex[i].refCount + 1,
                                                      holder |-> mutex[i].holder]
                            /\ i = lk => mutex'[i].refCount = mutex[i].refCount + 1
    BY <1>3 DEF LocksOK
  <1>9. mutex' = [i \in Handlers |-> mutex'[i]]
    BY <1>3 DEF LocksOK
  <1> HIDE DEF n, o
  <1>10. Users(lk)' = Users(lk) \union {h} /\ h \notin Users(lk)
    <2>1. h \in Users(lk)' /\ h \notin Users(lk)
      BY <1>2, <1>5 DEF Users, Locked
    <2>2. \A g \in Handlers : g # h => (g \in Users(lk)' <=> g \in Users(lk))
      BY <1>5 DEF Users
    <2>3. Users(lk)' \subseteq Handlers /\ Users(lk) \subseteq Handlers
      BY DEF Users
    <2> QED
      BY <2>1, <2>2, <2>3
  <1>11. \A i \in Handlers : i # lk => Users(i)' = Users(i)
    BY <1>2, <1>5 DEF Users
  <1>12. CountsUsers'
    <2>1. Cardinality(Users(lk)') = Cardinality(Users(lk)) + 1
      BY <1>10, UsersFinite, FS_AddElement
    <2>2. mutex'[lk].refCount = Cardinality(Users(lk)')
      <3>1. mutex[lk].refCount = Cardinality(Users(lk))
        BY DEF LockInv, CountsUsers
      <3>2. mutex'[lk].refCount = mutex[lk].refCount + 1
        BY <1>8
      <3> QED
        BY <2>1, <3>1, <3>2
    <2>3. \A i \in Handlers : i # lk => mutex'[i].refCount = Cardinality(Users(i)')
      BY <1>8, <1>11 DEF LockInv, CountsUsers
    <2> QED
      BY <2>2, <2>3 DEF CountsUsers
  <1>13. LocksOK'
    <2>1. \A i \in Handlers : mutex'[i].refCount \in 0 .. NHandlers
      <3>1. \A i \in Handlers : Cardinality(Users(i)') \in 0 .. NHandlers
        <4>1. \A i \in Handlers : Users(i)' \subseteq Handlers
          BY DEF Users
        <4> QED
          BY <4>1, HandlersFinite, FS_Subset, FS_CardinalityType, PaymentsAssumption
      <3> QED
        BY <3>1, <1>12 DEF CountsUsers
    <2>2. \A i \in Handlers : mutex'[i] \in [refCount : 0 .. NHandlers, holder : 0 .. NHandlers]
      <3>1. ASSUME NEW i \in Handlers, i # lk
            PROVE  mutex'[i] \in [refCount : 0 .. NHandlers, holder : 0 .. NHandlers]
        BY <3>1, <1>8 DEF LocksOK
      <3>2. mutex'[lk] \in [refCount : 0 .. NHandlers, holder : 0 .. NHandlers]
        BY <1>3, <1>8, <2>1 DEF LocksOK
      <3> QED
        BY <3>1, <3>2
    <2> QED
      BY <1>6, <1>9, <2>2 DEF LocksOK
  <1>14. UsersFindEntry'
    <2>1. ASSUME NEW g \in Handlers, handler'[g].pc \in Locked
          PROVE  /\ handler'[g].lk # 0
                 /\ orderLocks'[handler'[g].node][handler'[g].order] = handler'[g].lk
      <3>1. CASE g = h
        BY <3>1, <1>1, <1>3, <1>5, <1>7 DEF Handlers
      <3>2. CASE g # h
        <4>1. /\ handler'[g] = handler[g] /\ handler[g].lk # 0
              /\ handler[g].node \in Nodes /\ handler[g].order \in Orders
              /\ orderLocks[handler[g].node][handler[g].order] = handler[g].lk
          BY <3>2, <2>1, <1>5 DEF LockInv, UsersFindEntry, HandlersOK, HandlerType
        <4> QED
          BY <4>1, <1>3, <1>7
      <3> QED
        BY <3>1, <3>2
    <2> QED
      BY <2>1 DEF UsersFindEntry
  <1>15. EntriesUsed'
    <2>1. ASSUME NEW m \in Nodes, NEW p \in Orders, orderLocks'[m][p] # 0
          PROVE  \E g \in Handlers : /\ handler'[g].node = m /\ handler'[g].order = p
                                     /\ handler'[g].pc \in Locked
      <3>1. CASE m = n /\ p = o
        BY <3>1, <1>5 DEF Locked
      <3>2. CASE ~(m = n /\ p = o)
        <4>1. orderLocks[m][p] # 0
          BY <2>1, <3>2, <1>7
        <4>2. PICK g \in Handlers : /\ handler[g].node = m /\ handler[g].order = p
                                    /\ handler[g].pc \in Locked
          BY <4>1 DEF LockInv, EntriesUsed
        <4> QED
          BY <4>2, <1>2, <1>5
      <3> QED
        BY <3>1, <3>2
    <2> QED
      BY <2>1 DEF EntriesUsed
  <1>16. EntriesApart'
    BY <1>1, <1>3, <1>7 DEF LockInv, EntriesApart
  <1>17. HolderWorks'
    <2>1. ASSUME NEW g \in Handlers, handler'[g].pc \in Holding
          PROVE  mutex'[handler'[g].lk].holder = g
      <3>1. g # h
        BY <2>1, <1>5 DEF Holding, InSection
      <3>2. handler'[g] = handler[g] /\ handler[g].lk \in Handlers
        BY <2>1, <3>1, <1>5 DEF LockInv, UsersFindEntry, Locked, HandlersOK, HandlerType, Handlers
      <3>3. mutex[handler[g].lk].holder = g
        BY <2>1, <3>2 DEF LockInv, HolderWorks
      <3> QED
        BY <3>2, <3>3, <1>8
    <2>2. ASSUME NEW i \in Handlers, mutex'[i].holder # 0
          PROVE  mutex'[i].holder \in Users(i)' /\ handler'[mutex'[i].holder].pc \in Holding
      <3>1. mutex[i].holder \in Users(i) /\ handler[mutex[i].holder].pc \in Holding
        BY <2>2, <1>8 DEF LockInv, HolderWorks
      <3>2. mutex[i].holder # h /\ mutex[i].holder \in Handlers
        BY <3>1, <1>2 DEF Users
      <3>3. mutex'[i].holder = mutex[i].holder
        BY <1>8
      <3>4. Users(i) \subseteq Users(i)'
        BY <1>10, <1>11
      <3> QED
        BY <3>1, <3>2, <3>3, <3>4, <1>5
    <2> QED
      BY <2>1, <2>2 DEF HolderWorks
  <1> QED
    BY <1>5, <1>12, <1>13, <1>14, <1>15, <1>16, <1>17 DEF LockInv

\* Acquire: the user becomes the holder of a mutex nobody holds.
LEMMA AcquireInv ==
  ASSUME HandlersOK, LocksOK, LockInv, NEW h \in Handlers, Acquire(h)
  PROVE  HandlersOK' /\ LocksOK' /\ LockInv' /\ handler[h].pc = "wait" /\ Moves(h, "work")
  <1>1. HandlersOK' /\ Moves(h, "work") /\ handler[h].pc = "wait" /\ orderLocks' = orderLocks
    BY GotoMoves DEF Acquire, At, Pcs
  <1>2. PICK lk \in Handlers : /\ handler[h].lk = lk /\ mutex[lk].holder = 0
                               /\ mutex' = [mutex EXCEPT ![lk].holder = h]
    <2>1. handler[h].lk \in Handlers
      BY <1>1 DEF HandlersOK, HandlerType, Handlers, LockInv, UsersFindEntry, Locked
    <2> QED
      BY <2>1, Zenon DEF Acquire
  <1>3. LocksOK'
    BY <1>1, <1>2 DEF LocksOK, Handlers
  <1>4. \A i \in Handlers : /\ mutex'[i].refCount = mutex[i].refCount
                            /\ mutex'[i].holder = IF i = lk THEN h ELSE mutex[i].holder
    BY <1>2 DEF LocksOK
  <1>5. \A g \in Handlers : /\ handler'[g].pc \in Locked <=> handler[g].pc \in Locked
                            /\ handler'[g].lk = handler[g].lk /\ handler'[g].node = handler[g].node
                            /\ handler'[g].order = handler[g].order
    BY <1>1 DEF Moves, Locked, Holding, InSection
  <1>6. \A i \in Handlers : Users(i)' = Users(i)
    BY <1>5 DEF Users
  <1>7. UsersFindEntry'
    BY <1>1, <1>5 DEF LockInv, UsersFindEntry
  <1>8. EntriesUsed'
    BY <1>1, <1>5 DEF LockInv, EntriesUsed
  <1>9. EntriesApart'
    BY <1>1 DEF LockInv, EntriesApart
  <1>10. CountsUsers'
    BY <1>4, <1>6 DEF LockInv, CountsUsers
  <1>11. HolderWorks'
    <2>1. ASSUME NEW g \in Handlers, handler'[g].pc \in Holding
          PROVE  mutex'[handler'[g].lk].holder = g
      <3>1. CASE g = h
        BY <3>1, <1>2, <1>4, <1>5
      <3>2. CASE g # h
        <4>1. handler'[g] = handler[g]
          BY <3>2, <1>1 DEF Moves
        <4>2. mutex[handler[g].lk].holder = g /\ handler[g].lk \in Handlers /\ g # 0
          BY <2>1, <4>1 DEF LockInv, HolderWorks, UsersFindEntry, Locked, HandlersOK, HandlerType,
                            Handlers
        <4> QED
          BY <4>1, <4>2, <1>2, <1>4
      <3> QED
        BY <3>1, <3>2
    <2>2. ASSUME NEW i \in Handlers, mutex'[i].holder # 0
          PROVE  mutex'[i].holder \in Users(i)' /\ handler'[mutex'[i].holder].pc \in Holding
      <3>1. CASE i = lk
        <4>1. mutex'[i].holder = h /\ h \in Users(i)
          BY <3>1, <1>1, <1>2, <1>4 DEF Users, Locked
        <4> QED
          BY <4>1, <1>1, <1>6 DEF Moves, Holding, InSection
      <3>2. CASE i # lk
        <4>1. mutex'[i].holder = mutex[i].holder
          BY <3>2, <1>4
        <4>2. mutex[i].holder \in Users(i) /\ handler[mutex[i].holder].pc \in Holding
          BY <2>2, <4>1 DEF LockInv, HolderWorks
        <4>3. mutex[i].holder \in Handlers /\ mutex[i].holder # h
          BY <4>2, <1>1 DEF Users, Holding, InSection
        <4> QED
          BY <4>1, <4>2, <4>3, <1>1, <1>6 DEF Moves
      <3> QED
        BY <3>1, <3>2
    <2> QED
      BY <2>1, <2>2 DEF HolderWorks
  <1> QED
    BY <1>1, <1>3, <1>7, <1>8, <1>9, <1>10, <1>11 DEF LockInv

\* UnlockOrder finds the mutex the handler holds, and gives it up.
LEMMA UnlockOrderInv ==
  ASSUME HandlersOK, LocksOK, LockInv, NEW h \in Handlers, UnlockOrder(h)
  PROVE  HandlersOK' /\ LocksOK' /\ LockInv' /\ handler[h].pc = "unlock" /\ Moves(h, "drop")
  <1>1. handler[h].pc = "unlock"
    BY DEF UnlockOrder, At
  <1>2. PICK lk \in Handlers : /\ handler[h].lk = lk /\ mutex[lk].holder = h
                               /\ orderLocks[handler[h].node][handler[h].order] = lk
                               /\ lk # 0
    BY <1>1 DEF HandlersOK, HandlerType, Handlers, LockInv, UsersFindEntry, HolderWorks, Locked,
                Holding
  <1>3. /\ mutex' = [mutex EXCEPT ![lk].holder = 0]
        /\ handler' = [handler EXCEPT ![h].pc = "drop", ![h].lk = lk]
        /\ orderLocks' = orderLocks
    BY <1>2, Zenon DEF UnlockOrder
  <1>4. HandlersOK' /\ Moves(h, "drop")
    <2>1. handler' = [handler EXCEPT ![h] = [@ EXCEPT !.pc = "drop", !.lk = lk]]
      BY <1>3
    <2>2. [handler[h] EXCEPT !.pc = "drop", !.lk = lk] \in HandlerType
      <3>1. lk \in 0 .. NHandlers /\ "drop" \in Pcs
        BY DEF Handlers, Pcs
      <3> QED
        BY <3>1 DEF HandlersOK, HandlerType
    <2> QED
      BY <2>1, <2>2, <1>2 DEF HandlersOK, HandlerType, Moves
  <1>5. LocksOK'
    <2>1. 0 \in 0 .. NHandlers
      BY PaymentsAssumption
    <2> QED
      BY <1>3, <2>1 DEF LocksOK
  <1>6. \A i \in Handlers : /\ mutex'[i].refCount = mutex[i].refCount
                            /\ mutex'[i].holder = IF i = lk THEN 0 ELSE mutex[i].holder
    BY <1>3 DEF LocksOK
  <1>7. \A g \in Handlers : /\ handler'[g].pc \in Locked <=> handler[g].pc \in Locked
                            /\ handler'[g].lk = handler[g].lk /\ handler'[g].node = handler[g].node
                            /\ handler'[g].order = handler[g].order
    BY <1>1, <1>4 DEF Moves, Locked, Holding, InSection
  <1>8. \A i \in Handlers : Users(i)' = Users(i)
    BY <1>7 DEF Users
  <1>9. UsersFindEntry'
    BY <1>3, <1>7 DEF LockInv, UsersFindEntry
  <1>10. EntriesUsed'
    <2>1. \A n \in Nodes, o \in Orders : orderLocks[n][o] # 0 =>
            \E g \in Handlers : handler[g].node = n /\ handler[g].order = o /\ handler[g].pc \in Locked
      BY DEF LockInv, EntriesUsed
    <2>2. orderLocks' = orderLocks
      BY <1>3
    <2> QED
      BY <2>1, <2>2, <1>7 DEF EntriesUsed
  <1>11. EntriesApart'
    BY <1>3 DEF LockInv, EntriesApart
  <1>12. CountsUsers'
    BY <1>6, <1>8 DEF LockInv, CountsUsers
  <1>13. HolderWorks'
    <2>1. ASSUME NEW g \in Handlers, handler'[g].pc \in Holding
          PROVE  mutex'[handler'[g].lk].holder = g
      <3>1. g # h /\ handler'[g] = handler[g]
        BY <2>1, <1>4 DEF Moves, Holding, InSection
      <3>2. mutex[handler[g].lk].holder = g /\ handler[g].lk \in Handlers
        BY <2>1, <3>1 DEF LockInv, HolderWorks, UsersFindEntry, Locked, HandlersOK, HandlerType,
                          Handlers
      <3> QED
        BY <3>1, <3>2, <1>2, <1>6
    <2>2. ASSUME NEW i \in Handlers, mutex'[i].holder # 0
          PROVE  mutex'[i].holder \in Users(i)' /\ handler'[mutex'[i].holder].pc \in Holding
      <3>1. i # lk /\ mutex'[i].holder = mutex[i].holder
        BY <2>2, <1>6
      <3>2. mutex[i].holder \in Users(i) /\ handler[mutex[i].holder].pc \in Holding
        BY <2>2, <3>1 DEF LockInv, HolderWorks
      <3>3. mutex[i].holder \in Handlers /\ mutex[i].holder # h
        BY <3>1, <3>2, <1>2 DEF Users
      <3> QED
        BY <3>1, <3>2, <3>3, <1>4, <1>8 DEF Moves
    <2> QED
      BY <2>1, <2>2 DEF HolderWorks
  <1> QED
    BY <1>1, <1>4, <1>5, <1>9, <1>10, <1>11, <1>12, <1>13 DEF LockInv

\* DropLock: one user less, and the entry goes with the last one.
LEMMA DropLockInv ==
  ASSUME HandlersOK, LocksOK, LockInv, NEW h \in Handlers, DropLock(h)
  PROVE  HandlersOK' /\ LocksOK' /\ LockInv' /\ handler[h].pc = "drop" /\ Moves(h, "answer")
  <1>1. HandlersOK' /\ Moves(h, "answer") /\ handler[h].pc = "drop"
    BY GotoMoves DEF DropLock, At, Pcs
  <1>2. PICK n \in Nodes, o \in Orders, lk \in Handlers :
          /\ handler[h].node = n /\ handler[h].order = o /\ handler[h].lk = lk /\ lk # 0
          /\ orderLocks[n][o] = lk
    BY <1>1 DEF HandlersOK, HandlerType, Handlers, LockInv, UsersFindEntry, Locked
  <1>3. /\ mutex' = [mutex EXCEPT ![lk].refCount = @ - 1]
        /\ orderLocks' = IF mutex[lk].refCount = 1
                         THEN [orderLocks EXCEPT ![n][o] = 0] ELSE orderLocks
    BY <1>2, Zenon DEF DropLock
  <1>4. \A i \in Handlers : /\ mutex'[i].holder = mutex[i].holder
                            /\ i # lk => mutex'[i] = mutex[i]
                            /\ i = lk => mutex'[i].refCount = mutex[i].refCount - 1
    BY <1>3 DEF LocksOK
  <1>5. h \in Users(lk)
    BY <1>1, <1>2 DEF Users, Locked
  <1>6. Users(lk)' = Users(lk) \ {h}
    <2>1. h \notin Users(lk)'
      BY <1>1 DEF Users, Moves, Locked, Holding, InSection
    <2>2. \A g \in Handlers : g # h => (g \in Users(lk)' <=> g \in Users(lk))
      BY <1>1 DEF Users, Moves
    <2>3. Users(lk)' \subseteq Handlers /\ Users(lk) \subseteq Handlers
      BY DEF Users
    <2> QED
      BY <2>1, <2>2, <2>3
  <1>7. \A i \in Handlers : i # lk => Users(i)' = Users(i)
    BY <1>1, <1>2 DEF Users, Moves
  <1>8. /\ orderLocks' \in [Nodes -> [Orders -> 0 .. NHandlers]]
        /\ \A m \in Nodes, p \in Orders : ~(m = n /\ p = o) => orderLocks'[m][p] = orderLocks[m][p]
    <2>1. 0 \in 0 .. NHandlers
      BY PaymentsAssumption
    <2> QED
      BY <1>3, <2>1 DEF LocksOK
  <1>9. \/ orderLocks'[n][o] = 0 /\ Users(lk) = {h}
        \/ orderLocks'[n][o] = lk /\ \E g \in Users(lk) : g # h
    <2>1. mutex[lk].refCount = Cardinality(Users(lk))
      BY DEF LockInv, CountsUsers
    <2>2. CASE mutex[lk].refCount = 1
      <3>1. PICK x : Users(lk) = {x}
        BY <2>1, <2>2, UsersFinite, FS_Singleton
      <3>2. Users(lk) = {h}
        BY <1>5, <3>1
      <3> QED
        BY <3>2, <2>2, <1>3 DEF LocksOK
    <2>3. CASE mutex[lk].refCount # 1
      <3>1. Users(lk) # {h}
        BY <2>1, <2>3, FS_Singleton
      <3>2. \E g \in Users(lk) : g # h
        BY <1>5, <3>1
      <3> QED
        BY <3>2, <2>3, <1>2, <1>3
    <2> QED
      BY <2>2, <2>3
  <1>10. CountsUsers'
    <2>1. Cardinality(Users(lk)') = Cardinality(Users(lk)) - 1
      BY <1>5, <1>6, UsersFinite, FS_RemoveElement
    <2>2. mutex[lk].refCount = Cardinality(Users(lk))
      BY DEF LockInv, CountsUsers
    <2>3. mutex'[lk].refCount = Cardinality(Users(lk)')
      BY <2>1, <2>2, <1>4
    <2>4. \A i \in Handlers : i # lk => mutex'[i].refCount = Cardinality(Users(i)')
      BY <1>4, <1>7 DEF LockInv, CountsUsers
    <2> QED
      BY <2>3, <2>4 DEF CountsUsers
  <1>11. LocksOK'
    <2>1. mutex[lk].refCount \in 1 .. NHandlers
      <3>1. mutex[lk].refCount = Cardinality(Users(lk)) /\ Users(lk) # {}
        BY <1>5 DEF LockInv, CountsUsers
      <3> QED
        BY <3>1, UsersFinite, FS_EmptySet
    <2>2. mutex[lk].refCount - 1 \in 0 .. NHandlers
      BY <2>1, PaymentsAssumption
    <2> QED
      BY <2>2, <1>3, <1>8 DEF LocksOK
  <1>12. UsersFindEntry'
    <2>1. ASSUME NEW g \in Handlers, handler'[g].pc \in Locked
          PROVE  /\ handler'[g].lk # 0
                 /\ orderLocks'[handler'[g].node][handler'[g].order] = handler'[g].lk
      <3>1. g # h /\ handler'[g] = handler[g]
        BY <2>1, <1>1 DEF Moves, Locked, Holding, InSection
      <3>2. /\ handler[g].node \in Nodes /\ handler[g].order \in Orders /\ handler[g].lk # 0
            /\ orderLocks[handler[g].node][handler[g].order] = handler[g].lk
        BY <2>1, <3>1 DEF HandlersOK, HandlerType, LockInv, UsersFindEntry
      <3>3. CASE handler[g].node = n /\ handler[g].order = o
        <4>1. g \in Users(lk)
          BY <2>1, <3>1, <3>2, <3>3, <1>2 DEF Users
        <4> QED
          BY <4>1, <3>1, <3>2, <3>3, <1>2, <1>9
      <3>4. CASE ~(handler[g].node = n /\ handler[g].order = o)
        BY <3>1, <3>2, <3>4, <1>8
      <3> QED
        BY <3>3, <3>4
    <2> QED
      BY <2>1 DEF UsersFindEntry
  <1>13. EntriesUsed'
    <2>1. ASSUME NEW m \in Nodes, NEW p \in Orders, orderLocks'[m][p] # 0
          PROVE  \E g \in Handlers : /\ handler'[g].node = m /\ handler'[g].order = p
                                     /\ handler'[g].pc \in Locked
      <3>1. CASE m = n /\ p = o
        <4>1. PICK g \in Users(lk) : g # h
          BY <2>1, <3>1, <1>9
        <4>2. g \in Handlers /\ handler[g].pc \in Locked /\ handler[g].lk = lk /\ handler'[g] = handler[g]
          BY <4>1, <1>1 DEF Users, Moves
        <4>3. /\ handler[g].node \in Nodes /\ handler[g].order \in Orders
              /\ orderLocks[handler[g].node][handler[g].order] = lk
          BY <4>2 DEF HandlersOK, HandlerType, LockInv, UsersFindEntry
        <4>4. handler[g].node = n /\ handler[g].order = o
          BY <4>3, <1>2 DEF LockInv, EntriesApart
        <4> QED
          BY <4>2, <4>4, <3>1
      <3>2. CASE ~(m = n /\ p = o)
        <4>1. orderLocks[m][p] # 0
          BY <2>1, <3>2, <1>8
        <4>2. PICK g \in Handlers : /\ handler[g].node = m /\ handler[g].order = p
                                    /\ handler[g].pc \in Locked
          BY <4>1 DEF LockInv, EntriesUsed
        <4>3. g # h
          BY <4>2, <3>2, <1>2
        <4> QED
          BY <4>2, <4>3, <1>1 DEF Moves
      <3> QED
        BY <3>1, <3>2
    <2> QED
      BY <2>1 DEF EntriesUsed
  <1>14. EntriesApart'
    <2>1. \A m \in Nodes, p \in Orders : orderLocks'[m][p] # 0 => orderLocks'[m][p] = orderLocks[m][p]
      BY <1>2, <1>8, <1>9
    <2> QED
      BY <2>1 DEF LockInv, EntriesApart
  <1>15. HolderWorks'
    <2>1. ASSUME NEW g \in Handlers, handler'[g].pc \in Holding
          PROVE  mutex'[handler'[g].lk].holder = g
      <3>1. g # h /\ handler'[g] = handler[g]
        BY <2>1, <1>1 DEF Moves, Holding, InSection
      <3>2. mutex[handler[g].lk].holder = g /\ handler[g].lk \in Handlers
        BY <2>1, <3>1 DEF LockInv, HolderWorks, UsersFindEntry, Locked, HandlersOK, HandlerType,
                          Handlers
      <3> QED
        BY <3>1, <3>2, <1>4
    <2>2. ASSUME NEW i \in Handlers, mutex'[i].holder # 0
          PROVE  mutex'[i].holder \in Users(i)' /\ handler'[mutex'[i].holder].pc \in Holding
      <3>1. mutex'[i].holder = mutex[i].holder
        BY <1>4
      <3>2. mutex[i].holder \in Users(i) /\ handler[mutex[i].holder].pc \in Holding
        BY <2>2, <3>1 DEF LockInv, HolderWorks
      <3>3. mutex[i].holder \in Handlers /\ mutex[i].holder # h
        BY <3>2, <1>1 DEF Users, Holding, InSection
      <3>4. mutex[i].holder \in Users(i)'
        BY <3>2, <3>3, <1>6, <1>7
      <3>5. handler'[mutex[i].holder] = handler[mutex[i].holder]
        BY <3>3, <1>1 DEF Moves
      <3> QED
        BY <3>1, <3>2, <3>4, <3>5
    <2> QED
      BY <2>1, <2>2 DEF HolderWorks
  <1> QED
    BY <1>1, <1>10, <1>11, <1>12, <1>13, <1>14, <1>15 DEF LockInv

\* Crash: the users of a node go with its entries and their mutexes.
LEMMA CrashInv ==
  ASSUME HandlersOK, LocksOK, LockInv, NEW n \in Nodes, Crash(n)
  PROVE  HandlersOK' /\ LocksOK' /\ LockInv'
  <1>1. handler' = [h \in Handlers |-> IF ~At(h, "idle") /\ handler[h].node = n
                                       THEN Idle ELSE handler[h]]
    BY Zenon DEF Crash
  <1>2. \A h \in Handlers : handler'[h] = handler[h] \/ (handler[h].node = n /\ handler'[h] = Idle)
    BY <1>1
  <1>3. HandlersOK'
    BY <1>1, IdleType DEF HandlersOK
  <1>4. \A h \in Handlers : handler'[h].pc \in Locked =>
          handler'[h] = handler[h] /\ handler[h].node # n
    <2>1. ASSUME NEW h \in Handlers, handler'[h].pc \in Locked
          PROVE  handler'[h] = handler[h] /\ handler[h].node # n
      <3>1. handler'[h].pc # "idle"
        BY <2>1 DEF Locked, Holding, InSection
      <3>2. handler'[h] # Idle
        BY <3>1, IdleType
      <3>3. handler'[h] = handler[h]
        BY <3>2, <1>2
      <3>4. ~(~At(h, "idle") /\ handler[h].node = n)
        BY <3>2, <1>1
      <3> QED
        BY <3>1, <3>3, <3>4 DEF At
    <2> QED
      BY <2>1
  <1>5. \A h \in Handlers : handler[h].node # n => handler'[h] = handler[h]
    BY <1>2
  <1>6. orderLocks' = [orderLocks EXCEPT ![n] = [o \in Orders |-> 0]]
    BY DEF Crash
  <1>7. orderLocks' \in [Nodes -> [Orders -> 0 .. NHandlers]]
    <2>1. [o \in Orders |-> 0] \in [Orders -> 0 .. NHandlers]
      BY PaymentsAssumption
    <2> QED
      BY <1>6, <2>1 DEF LocksOK
  <1>8. \A m \in Nodes, p \in Orders :
          orderLocks'[m][p] = IF m = n THEN 0 ELSE orderLocks[m][p]
    BY <1>6 DEF LocksOK
  <1>9. PICK gone : /\ gone = {orderLocks[n][o] : o \in Orders}
                    /\ mutex' = [i \in Handlers |-> IF i \in gone THEN FreeMutex ELSE mutex[i]]
    BY Zenon DEF Crash
  <1>10. LocksOK'
    <2>1. FreeMutex \in [refCount : 0 .. NHandlers, holder : 0 .. NHandlers]
      BY PaymentsAssumption DEF FreeMutex
    <2> QED
      BY <2>1, <1>7, <1>9 DEF LocksOK
  <1>11. ASSUME NEW i \in Handlers, i \in gone
         PROVE  Users(i)' = {}
    <2>1. PICK o \in Orders : i = orderLocks[n][o]
      BY <1>9, <1>11
    <2>2. ASSUME NEW g \in Users(i)' PROVE FALSE
      <3>1. /\ g \in Handlers /\ handler'[g].pc \in Locked /\ handler'[g].lk = i
            /\ handler'[g] = handler[g] /\ handler[g].node # n
        BY <1>4 DEF Users
      <3>2. /\ handler[g].node \in Nodes /\ handler[g].order \in Orders /\ i # 0
            /\ orderLocks[handler[g].node][handler[g].order] = i
        BY <3>1 DEF HandlersOK, HandlerType, LockInv, UsersFindEntry
      <3> QED
        BY <2>1, <3>1, <3>2 DEF LockInv, EntriesApart
    <2> QED
      BY <2>2
  <1>12. ASSUME NEW i \in Handlers, i \notin gone
         PROVE  Users(i)' = Users(i)
    <2>1. \A g \in Handlers : (handler[g].pc \in Locked /\ handler[g].lk = i) => handler[g].node # n
      <3>1. ASSUME NEW g \in Handlers, handler[g].pc \in Locked, handler[g].lk = i, handler[g].node = n
            PROVE  FALSE
        <4>1. orderLocks[n][handler[g].order] = i /\ handler[g].order \in Orders
          BY <3>1 DEF HandlersOK, HandlerType, LockInv, UsersFindEntry
        <4> QED
          BY <4>1, <1>9, <1>12
      <3> QED
        BY <3>1
    <2>2. \A g \in Handlers : (handler'[g].pc \in Locked /\ handler'[g].lk = i)
                              <=> (handler[g].pc \in Locked /\ handler[g].lk = i)
      BY <2>1, <1>4, <1>5
    <2> QED
      BY <2>2 DEF Users
  <1>13. UsersFindEntry'
    <2>1. ASSUME NEW g \in Handlers, handler'[g].pc \in Locked
          PROVE  /\ handler'[g].lk # 0
                 /\ orderLocks'[handler'[g].node][handler'[g].order] = handler'[g].lk
      <3>1. handler'[g] = handler[g] /\ handler[g].node # n
        BY <2>1, <1>4
      <3>2. /\ handler[g].node \in Nodes /\ handler[g].order \in Orders /\ handler[g].lk # 0
            /\ orderLocks[handler[g].node][handler[g].order] = handler[g].lk
        BY <2>1, <3>1 DEF HandlersOK, HandlerType, LockInv, UsersFindEntry
      <3> QED
        BY <3>1, <3>2, <1>8
    <2> QED
      BY <2>1 DEF UsersFindEntry
  <1>14. EntriesUsed'
    <2>1. ASSUME NEW m \in Nodes, NEW p \in Orders, orderLocks'[m][p] # 0
          PROVE  \E g \in Handlers : /\ handler'[g].node = m /\ handler'[g].order = p
                                     /\ handler'[g].pc \in Locked
      <3>1. m # n /\ orderLocks[m][p] # 0
        BY <2>1, <1>8
      <3>2. PICK g \in Handlers : /\ handler[g].node = m /\ handler[g].order = p
                                  /\ handler[g].pc \in Locked
        BY <3>1 DEF LockInv, EntriesUsed
      <3> QED
        BY <3>1, <3>2, <1>5
    <2> QED
      BY <2>1 DEF EntriesUsed
  <1>15. EntriesApart'
    BY <1>8 DEF LockInv, EntriesApart
  <1>16. CountsUsers'
    <2>1. ASSUME NEW i \in Handlers PROVE mutex'[i].refCount = Cardinality(Users(i)')
      <3>1. CASE i \in gone
        <4>1. mutex'[i].refCount = 0
          BY <3>1, <1>9 DEF FreeMutex
        <4> QED
          BY <3>1, <4>1, <1>11, FS_EmptySet
      <3>2. CASE i \notin gone
        <4>1. mutex'[i] = mutex[i]
          BY <3>2, <1>9
        <4> QED
          BY <3>2, <4>1, <1>12 DEF LockInv, CountsUsers
      <3> QED
        BY <3>1, <3>2
    <2> QED
      BY <2>1 DEF CountsUsers
  <1>17. HolderWorks'
    <2>1. ASSUME NEW g \in Handlers, handler'[g].pc \in Holding
          PROVE  mutex'[handler'[g].lk].holder = g
      <3>1. handler'[g] = handler[g] /\ handler'[g].pc \in Locked
        BY <2>1, <1>4 DEF Locked
      <3>2. mutex[handler[g].lk].holder = g /\ handler[g].lk \in Handlers
        BY <2>1, <3>1 DEF LockInv, HolderWorks, UsersFindEntry, Locked, HandlersOK, HandlerType,
                          Handlers
      <3>3. PICK i \in Handlers : i = handler[g].lk
        BY <3>2
      <3>4. g \in Users(i)'
        BY <3>1, <3>3 DEF Users
      <3>5. i \notin gone
        BY <3>4, <1>11
      <3> QED
        BY <3>1, <3>2, <3>3, <3>5, <1>9
    <2>2. ASSUME NEW i \in Handlers, mutex'[i].holder # 0
          PROVE  mutex'[i].holder \in Users(i)' /\ handler'[mutex'[i].holder].pc \in Holding
      <3>1. i \notin gone /\ mutex'[i] = mutex[i]
        BY <2>2, <1>9 DEF FreeMutex
      <3>2. mutex[i].holder \in Users(i) /\ handler[mutex[i].holder].pc \in Holding
        BY <2>2, <3>1 DEF LockInv, HolderWorks
      <3>3. mutex[i].holder \in Users(i)'
        BY <3>1, <3>2, <1>12
      <3>4. handler'[mutex[i].holder] = handler[mutex[i].holder]
        BY <3>3, <1>4 DEF Users
      <3> QED
        BY <3>1, <3>2, <3>3, <3>4
    <2> QED
      BY <2>1, <2>2 DEF HolderWorks
  <1> QED
    BY <1>3, <1>10, <1>13, <1>14, <1>15, <1>16, <1>17 DEF LockInv

-----------------------------------------------------------------------------
(***************************************************************************)
(* Every step                                                              *)
(***************************************************************************)

\* A step of a handler keeps the lock table and the handlers well-formed.
LEMMA HandlerStep ==
  ASSUME HandlersOK, LocksOK, LockInv, NEW h \in Handlers,
         Acquire(h) \/ Proceed(h) \/ DatabaseFails(h)
  PROVE  HandlersOK' /\ LocksOK' /\ LockInv'
  <1>1. ASSUME HandlersOK', UNCHANGED lockVars, handler[h].pc \in Holding,
               NEW pc \in Holding, Moves(h, pc)
        PROVE  LocksOK' /\ LockInv'
    <2>1. \A g \in Handlers : /\ handler'[g].order = handler[g].order
                              /\ handler'[g].node = handler[g].node
                              /\ handler'[g].lk = handler[g].lk
                              /\ \/ handler'[g].pc = handler[g].pc
                                 \/ handler'[g].pc \in Holding /\ handler[g].pc \in Holding
      BY <1>1 DEF Moves
    <2> QED
      BY <2>1, <1>1, LockFrame
  <1>2. ASSUME HandlersOK', UNCHANGED lockVars, handler[h].pc \notin Locked,
               handler'[h].pc \notin Locked,
               \A g \in Handlers : g # h => handler'[g] = handler[g]
        PROVE  LocksOK' /\ LockInv'
    <2>1. \A g \in Handlers :
            \/ handler[g].pc \notin Locked /\ handler'[g].pc \notin Locked
            \/ /\ handler'[g].order = handler[g].order /\ handler'[g].node = handler[g].node
               /\ handler'[g].lk = handler[g].lk
               /\ \/ handler'[g].pc = handler[g].pc
                  \/ handler'[g].pc \in Holding /\ handler[g].pc \in Holding
      BY <1>2
    <2> QED
      BY <2>1, <1>2, LockFrame
  <1>3. /\ {"work", "save", "credit", "recharge", "commit", "unlock"} \subseteq Holding
        /\ InSection \subseteq Holding
        /\ "idle" \notin Locked /\ "resolve" \notin Locked /\ "lock" \notin Locked
        /\ "plain" \notin Locked /\ "answer" \notin Locked
    BY DEF Locked, Holding, InSection
  <1>4. CASE Resolve(h)
    <2>1. HandlersOK' /\ Moves(h, "lock") /\ handler[h].pc = "resolve"
      BY <1>4, GotoMoves DEF Resolve, At, Pcs
    <2>2. UNCHANGED lockVars
      BY <1>4 DEF Resolve
    <2> QED
      BY <2>1, <2>2, <1>2, <1>3 DEF Moves
  <1>5. CASE Answer(h)
    <2>1. HandlersOK' /\ Stops(h) /\ handler[h].pc = "answer"
      BY <1>5, IdleStops DEF Answer, At
    <2>2. UNCHANGED lockVars
      BY <1>5 DEF Answer
    <2> QED
      BY <2>1, <2>2, <1>2, <1>3 DEF Stops
  <1>6. CASE ReadTopUp(h)
    <2>1. UNCHANGED lockVars
      BY <1>6 DEF ReadTopUp
    <2> QED
      BY <1>6, <2>1, <1>1, <1>3, ReadTopUpMoves
  <1>7. CASE SaveTopUp(h)
    <2>1. UNCHANGED lockVars
      BY <1>7 DEF SaveTopUp
    <2> QED
      BY <1>7, <2>1, <1>1, <1>3, SaveTopUpMoves
  <1>8. CASE IncreaseUserQuota(h) \/ CompleteSubscriptionOrder(h) \/ Expire(h)
    <2>1. UNCHANGED lockVars
      BY <1>8 DEF IncreaseUserQuota, CompleteSubscriptionOrder, Expire
    <2> QED
      BY <1>8, <2>1, <1>1, <1>3, DoneMoves
  <1>9. CASE Recharge(h)
    <2>1. UNCHANGED lockVars
      BY <1>9 DEF Recharge
    <2> QED
      BY <1>9, <2>1, <1>1, <1>3, RechargeMoves
  <1>10. CASE CountSubscriptions(h)
    <2>1. UNCHANGED lockVars
      BY <1>10 DEF CountSubscriptions
    <2> QED
      BY <1>10, <2>1, <1>1, <1>3, CountMoves
  <1>11. CASE UpdatePendingTopUpStatus(h)
    <2>1. UNCHANGED lockVars
      BY <1>11 DEF UpdatePendingTopUpStatus
    <2> QED
      BY <1>11, <2>1, <1>2, <1>3, UpdateMoves DEF Stops
  <1>12. CASE DatabaseFails(h)
    <2>1. UNCHANGED lockVars
      BY <1>12 DEF DatabaseFails
    <2>2. HandlersOK'
      BY <1>12, FailsMoves
    <2>3. CASE handler[h].pc \in InSection /\ Moves(h, "unlock")
      BY <2>1, <2>2, <2>3, <1>1, <1>3
    <2>4. CASE handler[h].pc = "plain" /\ Stops(h)
      BY <2>1, <2>2, <2>4, <1>2, <1>3 DEF Stops
    <2>5. CASE handler[h].pc = "resolve" /\ Moves(h, "answer")
      BY <2>1, <2>2, <2>5, <1>2, <1>3 DEF Moves
    <2> QED
      BY <1>12, <2>2, <2>3, <2>4, <2>5, FailsMoves
  <1> QED
    BY <1>4, <1>5, <1>6, <1>7, <1>8, <1>9, <1>10, <1>11, <1>12, LockOrderInv, AcquireInv,
       UnlockOrderInv, DropLockInv DEF Proceed, Statement

\* Every step keeps the lock table and the handlers well-formed.
LEMMA LocksStep ==
  ASSUME HandlersOK, LocksOK, LockInv, [Next]_vars
  PROVE  HandlersOK' /\ LocksOK' /\ LockInv'
  <1>1. ASSUME UNCHANGED <<handler, lockVars>> PROVE HandlersOK' /\ LocksOK' /\ LockInv'
    <2>1. HandlersOK'
      BY <1>1 DEF HandlersOK
    <2> QED
      BY <1>1, <2>1, LockFrame
  <1>2. ASSUME NEW o \in Orders, Outside(o) PROVE UNCHANGED <<handler, lockVars>>
    BY <1>2 DEF Outside, RequestPay, CheckoutOpened, CheckoutFails, GatewayEnds
  <1>3. ASSUME NEW h \in Handlers, NEW o \in Orders, NEW n \in Nodes, NEW what \in Notices,
               Receive(h, o, n, what)
        PROVE  HandlersOK' /\ LocksOK' /\ LockInv'
    <2>1. UNCHANGED lockVars
      BY <1>3 DEF Receive
    <2>2. /\ HandlersOK'
          /\ handler[h].pc = "idle" /\ handler'[h].pc \in {"plain", "resolve", "lock"}
          /\ \A g \in Handlers : g # h => handler'[g] = handler[g]
      BY <1>3, ReceiveMoves
    <2>3. handler[h].pc \notin Locked /\ handler'[h].pc \notin Locked
      BY <2>2 DEF Locked, Holding, InSection
    <2> QED
      BY <2>1, <2>2, <2>3, LockFrame
  <1>4. CASE UNCHANGED vars
    BY <1>1, <1>4 DEF vars
  <1> QED
    BY <1>1, <1>2, <1>3, <1>4, HandlerStep, CrashInv DEF Next

\* Every step keeps the types of the rows, the gateways and the histories.
LEMMA RowsStep ==
  ASSUME RowsOK, SetupOK, HandlersOK, [Next]_vars
  PROVE  RowsOK' /\ SetupOK'
  <1>1. SetupOK'
    BY DEF SetupOK, Next, vars, Outside, RequestPay, CheckoutOpened, CheckoutFails, GatewayEnds,
           Receive, Acquire, Proceed, Resolve, LockOrder, Statement, ReadTopUp, SaveTopUp,
           IncreaseUserQuota, Recharge, CountSubscriptions, CompleteSubscriptionOrder, Expire,
           UpdatePendingTopUpStatus, UnlockOrder, DropLock, Answer, DatabaseFails, Crash
  <1>2. \A h \in Handlers : handler[h].order \in Orders
    BY DEF HandlersOK, HandlerType
  <1>3. ASSUME NEW o \in Orders, Outside(o) PROVE RowsOK'
    BY <1>3 DEF RowsOK, Outside, RequestPay, CheckoutOpened, CheckoutFails, GatewayEnds, rowVars,
                historyVars, Outcomes
  <1>4. ASSUME NEW h \in Handlers, NEW o \in Orders, NEW n \in Nodes, NEW what \in Notices,
               Receive(h, o, n, what)
        PROVE  RowsOK'
    BY <1>4 DEF RowsOK, Receive, rowVars
  <1>5. ASSUME NEW h \in Handlers,
               \/ Acquire(h) \/ Resolve(h) \/ LockOrder(h) \/ UnlockOrder(h) \/ DropLock(h)
               \/ ReadTopUp(h) \/ CountSubscriptions(h)
        PROVE  RowsOK'
    BY <1>5 DEF RowsOK, Acquire, Resolve, LockOrder, UnlockOrder, DropLock, ReadTopUp,
                CountSubscriptions, rowVars, historyVars
  <1>6. ASSUME NEW h \in Handlers, Statement(h) PROVE RowsOK'
    <2>1. UNCHANGED <<gateway, acked, historyVars>>
      BY <1>6 DEF Statement, ReadTopUp, SaveTopUp, IncreaseUserQuota, Recharge,
                  CountSubscriptions, CompleteSubscriptionOrder, Expire, UpdatePendingTopUpStatus
    <2>2. /\ row' \in [Orders -> {"none", "pending", "success", "failed", "expired"}]
          /\ credits' \in [Orders -> Nat]
      <3>1. CASE ReadTopUp(h) \/ CountSubscriptions(h)
        BY <3>1 DEF RowsOK, ReadTopUp, CountSubscriptions, rowVars
      <3>2. CASE Recharge(h)
        <4>1. \/ UNCHANGED rowVars
              \/ /\ row' = [row EXCEPT ![Order(h)] = "success"]
                 /\ credits' = [credits EXCEPT ![Order(h)] = @ + 1]
          BY <3>2, Zenon DEF Recharge
        <4> QED
          BY <4>1, <1>2 DEF RowsOK, rowVars, Order
      <3>3. CASE SaveTopUp(h)
        <4>1. PICK st \in {"success", "failed"} : row' = [row EXCEPT ![Order(h)] = st]
          BY <3>3, Zenon DEF SaveTopUp
        <4>2. credits' = credits
          BY <3>3 DEF SaveTopUp
        <4> QED
          BY <4>1, <4>2 DEF RowsOK
      <3>4. CASE IncreaseUserQuota(h)
        <4>1. row' = row /\ credits' = [credits EXCEPT ![Order(h)] = @ + 1]
          BY <3>4 DEF IncreaseUserQuota
        <4> QED
          BY <4>1, <1>2 DEF RowsOK, Order
      <3>5. CASE CompleteSubscriptionOrder(h)
        <4>1. /\ row' = [row EXCEPT ![Order(h)] = "success"]
              /\ credits' = [credits EXCEPT ![Order(h)] = @ + 1]
          BY <3>5 DEF CompleteSubscriptionOrder
        <4> QED
          BY <4>1, <1>2 DEF RowsOK, Order
      <3>6. CASE Expire(h)
        <4>1. /\ row' = [row EXCEPT ![Order(h)] = IF @ = "pending" THEN "expired" ELSE @]
              /\ credits' = credits
          BY <3>6 DEF Expire
        <4> QED
          BY <4>1, <1>2 DEF RowsOK, Order
      <3>7. CASE UpdatePendingTopUpStatus(h)
        <4>1. /\ row' = [row EXCEPT ![Order(h)] = IF @ = "pending" THEN "failed" ELSE @]
              /\ credits' = credits
          BY <3>7 DEF UpdatePendingTopUpStatus
        <4> QED
          BY <4>1, <1>2 DEF RowsOK, Order
      <3> QED
        BY <1>6, <3>1, <3>2, <3>3, <3>4, <3>5, <3>6, <3>7 DEF Statement
    <2> QED
      BY <2>1, <2>2 DEF RowsOK, historyVars
  <1>7. ASSUME NEW h \in Handlers, Answer(h) PROVE RowsOK'
    <2>1. acked' \subseteq acked \union {Order(h)}
      BY <1>7, Zenon DEF Answer
    <2> QED
      BY <2>1, <1>2, <1>7 DEF RowsOK, Answer, rowVars, historyVars, Order
  <1>8. ASSUME NEW h \in Handlers, DatabaseFails(h) PROVE RowsOK'
    <2>1. hurt' \subseteq hurt \union {Order(h)}
      BY <1>8, Zenon DEF DatabaseFails
    <2>2. UNCHANGED <<rowVars, gateway, acked, approved>>
      BY <1>8 DEF DatabaseFails
    <2> QED
      BY <2>1, <2>2, <1>2 DEF RowsOK, rowVars, Order
  <1>9. ASSUME NEW n \in Nodes, Crash(n) PROVE RowsOK'
    <2>1. hurt' \subseteq hurt \union {Order(h) : h \in Handlers}
      BY <1>9, Zenon DEF Crash
    <2>2. UNCHANGED <<rowVars, gateway, acked, approved>>
      BY <1>9 DEF Crash
    <2> QED
      BY <2>1, <2>2, <1>2 DEF RowsOK, rowVars, Order
  <1>10. CASE UNCHANGED vars
    <2>1. UNCHANGED <<row, gateway, credits, acked, approved, hurt>>
      BY <1>10, Zenon DEF vars, rowVars, historyVars
    <2> QED
      BY <2>1, <1>1 DEF RowsOK
  <1> QED
    BY <1>1, <1>3, <1>4, <1>5, <1>6, <1>7, <1>8, <1>9, <1>10 DEF Next, Proceed

\* Every step keeps the bound on failures.
LEMMA FaultsStep ==
  ASSUME FaultsOK, [Next]_vars
  PROVE  FaultsOK'
  <1>1. faults' = faults \/ (faults < MaxFaults /\ faults' = faults + 1)
    BY DEF Next, vars, Outside, RequestPay, CheckoutOpened, CheckoutFails, GatewayEnds, DatabaseFault,
           Receive, Acquire, Proceed, Resolve, LockOrder, Statement, ReadTopUp, SaveTopUp,
           IncreaseUserQuota, Recharge, CountSubscriptions, CompleteSubscriptionOrder, Expire,
           UpdatePendingTopUpStatus, UnlockOrder, DropLock, Answer, DatabaseFails, Crash
  <1> QED
    BY <1>1, PaymentsAssumption DEF FaultsOK

\* The initial states satisfy the invariants.
LEMMA InitTypes == Init => TypeOK /\ LockInv
  <1> SUFFICES ASSUME Init PROVE TypeOK /\ LockInv
    OBVIOUS
  <1>1. RowsOK
    BY DEF Init, RowsOK
  <1>2. SetupOK
    BY PaymentsAssumption DEF Init, SetupOK
  <1>3. HandlersOK
    BY IdleType DEF Init, HandlersOK
  <1>4. FaultsOK
    BY PaymentsAssumption DEF Init, FaultsOK
  <1>5. LocksOK
    BY PaymentsAssumption DEF Init, LocksOK, FreeMutex
  <1>6. \A h \in Handlers : handler[h].pc \notin Locked
    BY IdleType DEF Init, Locked, Holding, InSection
  <1>7. \A i : Users(i) = {}
    BY <1>6 DEF Users
  <1>8. UsersFindEntry /\ EntriesUsed /\ EntriesApart
    BY <1>6 DEF Init, UsersFindEntry, EntriesUsed, EntriesApart
  <1>9. CountsUsers
    BY <1>7, FS_EmptySet DEF Init, CountsUsers, FreeMutex
  <1>10. HolderWorks
    BY <1>6 DEF Init, HolderWorks, FreeMutex, Locked
  <1> QED
    BY <1>1, <1>2, <1>3, <1>4, <1>5, <1>8, <1>9, <1>10, TypeParts DEF LockInv

\* Every step keeps the invariants.
LEMMA TypesStep == TypeOK /\ LockInv /\ [Next]_vars => TypeOK' /\ LockInv'
  <1> SUFFICES ASSUME TypeOK, LockInv, [Next]_vars PROVE TypeOK' /\ LockInv'
    OBVIOUS
  <1>1. RowsOK /\ SetupOK /\ HandlersOK /\ FaultsOK /\ LocksOK
    BY TypeParts
  <1>2. RowsOK' /\ SetupOK' /\ HandlersOK' /\ FaultsOK' /\ LocksOK' /\ LockInv'
    BY <1>1, RowsStep, LocksStep, FaultsStep
  <1> QED
    BY <1>2, Zenon DEF TypeOK, RowsOK, SetupOK, HandlersOK, FaultsOK, LocksOK, HandlerType

\* The lock table's invariants make OneAtATime: two handlers at work on one
\* order of one node have one mutex, and it has one holder.
LEMMA LockInvExcludes == HandlersOK /\ LockInv => OneAtATime
  <1> SUFFICES ASSUME HandlersOK, LockInv PROVE OneAtATime
    OBVIOUS
  <1>1. ASSUME NEW g \in Handlers, NEW h \in Handlers,
               handler[g].pc \in InSection, handler[h].pc \in InSection,
               handler[g].node = handler[h].node, Order(g) = Order(h)
        PROVE  g = h
    <2>1. handler[g].pc \in Holding /\ handler[h].pc \in Holding
      BY <1>1 DEF Holding
    <2>2. handler[g].lk = handler[h].lk
      BY <1>1, <2>1 DEF LockInv, UsersFindEntry, Locked, Order
    <2> QED
      BY <2>1, <2>2 DEF LockInv, HolderWorks
  <1>2. InSection \union {"wait", "unlock", "drop"} = Locked
    BY DEF Locked, Holding
  <1>3. ASSUME NEW n \in Nodes, NEW o \in Orders
        PROVE  orderLocks[n][o] # 0
               <=> \E h \in Handlers : /\ handler[h].node = n /\ Order(h) = o
                                       /\ handler[h].pc \in Locked
    BY DEF LockInv, UsersFindEntry, EntriesUsed, Order
  <1> QED
    BY <1>1, <1>2, <1>3 DEF OneAtATime

\* The order rows, the gateways' states, the handlers and the lock table of
\* the payments keep their types, reference counts and holders included.
THEOREM TypeCorrect == Spec => []TypeOK
  <1>1. Spec => [](TypeOK /\ LockInv)
    BY InitTypes, TypesStep, PTL DEF Spec
  <1> QED
    BY <1>1, PTL

\* LockOrder and UnlockOrder exclude the handlers of one node from an order
\* that another is at work on, and an entry of orderLocks is there as long as
\* somebody needs it: for any number of nodes, orders and handlers, through
\* failures and restarts.
THEOREM LockExcludes == Spec => []OneAtATime
  <1>1. Spec => [](TypeOK /\ LockInv)
    BY InitTypes, TypesStep, PTL DEF Spec
  <1>2. TypeOK /\ LockInv => OneAtATime
    BY TypeParts, LockInvExcludes
  <1> QED
    BY <1>1, <1>2, PTL
=============================================================================
