------------------------- MODULE SystemTaskProofs ---------------------------
(***************************************************************************)
(* Proofs about SystemTask, for any number of runners, task types, rows    *)
(* and any lease, with every statement fallible, crashes anywhere and      *)
(* claims that outlast their leases: IInv is inductive, and SystemTask     *)
(* implements JobQueue.                                                    *)
(***************************************************************************)
EXTENDS SystemTask, TLAPS


(* The values a lock row can have.                                         *)
LEMMA NoLockFacts ==
  /\ NoLock.task = 0 /\ 0 \notin TaskIds
  /\ \A l \in LockRows :
        l # NoLock /\ l.task \in TaskIds /\ l.by \in Runners /\ l.until \in Int
  BY SystemTaskAssumption DEF NoLock, LockRows, TaskIds

(* A step of a runner's loop that ends outside ClaimSystemTask and leaves  *)
(* the tables, the handlers and the other runners alone.                   *)
LEMMA OutsideClaimStep ==
  ASSUME IInv, NEW r \in Runners,
         UNCHANGED <<clock, rows, lock, handler, beat>>,
         PassOK',
         pc'[r] \notin Claiming \cup {"delete"},
         now'[r] <= clock,
         \A q \in Runners \ {r} :
            /\ pc'[q] = pc[q] /\ now'[q] = now[q]
            /\ cur'[q] = cur[q] /\ seen'[q] = seen[q]
  PROVE IInv'
<1> USE SystemTaskAssumption DEF IInv, TypeOK
<1>1. RowsOK' /\ LockOK' /\ HandlerOK' /\ OneActivePerType' /\ HandlerClaimed'
      /\ LockTyped'
  BY DEF rows, RowsOK, LockOK, HandlerOK, OneActivePerType, HandlerClaimed,
      LockTyped
<1>2. InHand'
  BY DEF rows, InHand, Claiming
<1>4. BeatFresh'
  BY DEF rows, BeatFresh, Claiming
<1>3. OlderClaimEnded' /\ OlderLockEnded' /\ StolenTaskEnded'
  BY DEF rows, OlderClaimEnded, OlderLockEnded, StolenTaskEnded, Ended, Claiming
<1> QED
  BY <1>1, <1>2, <1>3, <1>4

(* A step that writes no lock row, starts no claim and no handler and      *)
(* sends no renewal.                                                       *)
LEMMA BeatKept ==
  ASSUME IInv, TypeOK', clock <= clock',
         \A t \in TaskIds : status[t] # "none" => type'[t] = type[t],
         \A ty \in Types : lock'[ty] = lock[ty] \/ lock'[ty] = NoLock,
         \A q \in Runners : pc'[q] \in Claiming => pc[q] \in Claiming /\ cur'[q] = cur[q],
         \A q \in Runners, t \in TaskIds :
            /\ beat'[q][t] \in {beat[q][t], NoBeat}
            /\ handler'[q][t] = "none" <=> handler[q][t] = "none"
  PROVE BeatFresh'
<1> USE SystemTaskAssumption DEF IInv, TypeOK
<1>1. \A ty \in Types : lock'[ty].until <= clock' + TTL
  BY NoLockFacts DEF BeatFresh, RowsOK, LockOK, NoLock
<1>2. \A q \in Runners : pc'[q] \in Claiming => handler'[q][cur'[q]] = "none"
  BY DEF BeatFresh, InHand
<1>3. ASSUME NEW q \in Runners, NEW t \in TaskIds, beat'[q][t] # NoBeat
      PROVE  /\ handler'[q][t] # "none"
             /\ beat'[q][t] <= clock'
             /\ lock'[type'[t]].task = t /\ lock'[type'[t]].by = q
                => lock'[type'[t]].until <= beat'[q][t] + TTL
  <2>1. beat'[q][t] = beat[q][t] /\ beat[q][t] # NoBeat
    BY <1>3
  <2>2. handler[q][t] # "none" /\ status[t] # "none"
    BY <2>1 DEF BeatFresh, HandlerClaimed
  <2>3. beat[q][t] \in Nat /\ clock \in Nat /\ clock' \in Nat
    BY <2>1 DEF HandlerOK, RowsOK
  <2>4. type'[t] = type[t] /\ type[t] \in Types
    BY <2>2 DEF RowsOK
  <2>5. lock'[type[t]].task = t => lock'[type[t]] = lock[type[t]]
    BY <2>4, NoLockFacts
  <2> QED
    BY <2>1, <2>2, <2>3, <2>4, <2>5 DEF BeatFresh
<1> QED
  BY <1>1, <1>2, <1>3 DEF BeatFresh

(* A claim writes its lock row: no renewal of its runner is in flight for  *)
(* the row it claims.                                                      *)
LEMMA BeatAtClaim ==
  ASSUME IInv, NEW r \in Runners, pc[r] \in Claiming,
         lock' = [lock EXCEPT ![type[cur[r]]] = Lease(r)],
         UNCHANGED <<clock, rows, handler, beat>>,
         \A q \in Runners : pc'[q] \in Claiming => pc[q] \in Claiming /\ cur'[q] = cur[q]
  PROVE BeatFresh'
<1> USE SystemTaskAssumption DEF IInv, TypeOK
<1>1. Lease(r).task = cur[r] /\ Lease(r).by = r /\ Lease(r).until <= clock + TTL
  BY DEF Lease, InHand, PassOK, RowsOK
<1>2. beat[r][cur[r]] = NoBeat /\ cur[r] \in TaskIds
  BY DEF BeatFresh, InHand
<1>3. \A ty \in Types : lock'[ty] = lock[ty] \/ lock'[ty] = Lease(r)
  BY DEF LockOK
<1> QED
  BY <1>1, <1>2, <1>3 DEF rows, BeatFresh, RowsOK

(* The cleanup reads the expired locks.                                    *)
LEMMA ExpireReadStep ==
  ASSUME IInv, NEW r \in Runners, ExpireRead(r)
  PROVE IInv'
<1> USE SystemTaskAssumption DEF IInv, TypeOK
<1>1. PassOK'
  BY DEF ExpireRead, Expired, Goto, PassOK, RowsOK, LockOK, PassPCs, PCs
<1> QED
  BY <1>1, OutsideClaimStep DEF ExpireRead, Goto, PassOK, Claiming

(* No cleanup in this pass.                                                *)
LEMMA ExpireSkipStep ==
  ASSUME IInv, NEW r \in Runners, ExpireSkip(r)
  PROVE IInv'
<1> USE SystemTaskAssumption DEF IInv, TypeOK
<1>1. PassOK'
  BY DEF ExpireSkip, Goto, pass, PassOK, PassPCs, PCs
<1> QED
  BY <1>1, OutsideClaimStep DEF ExpireSkip, Goto, pass, InHand, Claiming

(* The cleanup fails the row of a lock it read: only a running row changes. *)
LEMMA ExpireMarkStep ==
  ASSUME IInv, NEW r \in Runners, ExpireMark(r)
  PROVE IInv'
<1> USE SystemTaskAssumption DEF IInv, TypeOK
<1>1. LockOK' /\ HandlerOK'
  BY DEF ExpireMark, LockOK, HandlerOK
<1>2. RowsOK'
  BY DEF ExpireMark, MarkLeaseExpired, rows, RowsOK, EndStatuses
<1>3. PassOK'
  BY DEF ExpireMark, Goto, PassOK, PassPCs, PCs
<1>4. OneActivePerType'
  BY DEF ExpireMark, MarkLeaseExpired, rows, OneActivePerType, RowsOK,
      ActiveStatuses
<1>5. InHand'
  BY DEF ExpireMark, MarkLeaseExpired, Goto, rows, InHand, PassOK, RowsOK,
      Claiming
<1>6. HandlerClaimed'
  BY DEF ExpireMark, MarkLeaseExpired, rows, HandlerClaimed, RowsOK
<1>7. LockTyped'
  BY DEF ExpireMark, MarkLeaseExpired, rows, LockTyped, LockOK, RowsOK,
      LockRows
<1>8. OlderClaimEnded'
  BY DEF ExpireMark, MarkLeaseExpired, Goto, rows, OlderClaimEnded, Ended,
      InHand, RowsOK, Claiming, EndStatuses
<1>9. OlderLockEnded'
  BY DEF ExpireMark, MarkLeaseExpired, Goto, rows, OlderLockEnded, Ended,
      InHand, RowsOK, LockOK, LockRows, Claiming, EndStatuses
<1>10. StolenTaskEnded'
  BY DEF ExpireMark, MarkLeaseExpired, Goto, rows, StolenTaskEnded, InHand,
      RowsOK, LockRows, EndStatuses
<1>11. BeatFresh'
  BY <1>1, <1>2, <1>3, BeatKept DEF ExpireMark, MarkLeaseExpired, Goto, rows, pass, RowsOK, PassOK, HandlerOK, Claiming
<1> QED
  BY <1>1, <1>2, <1>3, <1>4, <1>5, <1>6, <1>7, <1>8, <1>9, <1>10, <1>11

(* The cleanup deletes a lock it read.                                     *)
LEMMA ExpireDeleteStep ==
  ASSUME IInv, NEW r \in Runners, ExpireDelete(r)
  PROVE IInv'
<1> USE SystemTaskAssumption DEF IInv, TypeOK
<1>1. RowsOK' /\ HandlerOK' /\ OneActivePerType' /\ HandlerClaimed'
  BY DEF ExpireDelete, rows, RowsOK, HandlerOK, OneActivePerType,
      HandlerClaimed
<1>2. LockOK'
  BY DEF ExpireDelete, LockOK
<1>3. PassOK'
  BY DEF ExpireDelete, Goto, PassOK, PassPCs, PCs
<1>4. InHand'
  BY DEF ExpireDelete, Goto, rows, InHand, PassOK, Claiming
<1>5. LockTyped'
  BY DEF ExpireDelete, rows, LockTyped
<1>6. OlderClaimEnded'
  BY DEF ExpireDelete, Goto, rows, OlderClaimEnded, Ended, Claiming
<1>7. OlderLockEnded'
  BY DEF ExpireDelete, Goto, rows, OlderLockEnded, Ended, InHand, RowsOK,
      Claiming
<1>8. StolenTaskEnded'
  BY DEF ExpireDelete, Goto, rows, StolenTaskEnded
<1>9. BeatFresh'
  BY <1>1, <1>2, <1>3, BeatKept DEF ExpireDelete, Goto, rows, pass, RowsOK, PassOK, HandlerOK, Claiming
<1> QED
  BY <1>1, <1>2, <1>3, <1>4, <1>5, <1>6, <1>7, <1>8, <1>9

(* The cleanup ends.                                                       *)
LEMMA ExpireEndStep ==
  ASSUME IInv, NEW r \in Runners, ExpireEnd(r)
  PROVE IInv'
<1> USE SystemTaskAssumption DEF IInv, TypeOK
<1>1. PassOK'
  BY DEF ExpireEnd, Goto, PassOK, PassPCs, PCs
<1> QED
  BY <1>1, OutsideClaimStep DEF ExpireEnd, Goto, PassOK, RowsOK, Claiming

(* The scheduler finds the types that are due.                             *)
LEMMA SchedReadStep ==
  ASSUME IInv, NEW r \in Runners, SchedRead(r)
  PROVE IInv'
<1> USE SystemTaskAssumption DEF IInv, TypeOK
<1>1. PassOK'
  BY DEF SchedRead, Goto, PassOK, PassPCs, PCs
<1> QED
  BY <1>1, OutsideClaimStep DEF SchedRead, Goto, InHand, Claiming

(* No scheduling in this pass.                                             *)
LEMMA SchedSkipStep ==
  ASSUME IInv, NEW r \in Runners, SchedSkip(r)
  PROVE IInv'
<1> USE SystemTaskAssumption DEF IInv, TypeOK
<1>1. PassOK'
  BY DEF SchedSkip, Goto, pass, PassOK, PassPCs, PCs
<1> QED
  BY <1>1, OutsideClaimStep DEF SchedSkip, Goto, pass, InHand, Claiming

(* The scheduler inserts a row; the index keeps the type unique.           *)
LEMMA SchedCreateStep ==
  ASSUME IInv, NEW r \in Runners, SchedCreate(r)
  PROVE IInv'
<1> USE SystemTaskAssumption DEF IInv, TypeOK
<1>1. LockOK' /\ HandlerOK'
  BY DEF SchedCreate, LockOK, HandlerOK
<1>2. RowsOK'
  BY DEF SchedCreate, InsertRow, rows, RowsOK, PassOK, ActiveStatuses
<1>3. PassOK'
  BY DEF SchedCreate, PassOK
<1>4. OneActivePerType'
  BY DEF SchedCreate, InsertRow, KeyFree, rows, OneActivePerType, RowsOK,
      ActiveStatuses
<1>5. InHand'
  BY DEF SchedCreate, InsertRow, rows, InHand, RowsOK
<1>6. HandlerClaimed'
  BY DEF SchedCreate, InsertRow, Fresh, rows, HandlerClaimed, RowsOK
<1>7. LockTyped'
  BY DEF SchedCreate, InsertRow, Fresh, rows, LockTyped, LockOK, RowsOK,
      LockRows
<1>8. OlderClaimEnded'
  BY DEF SchedCreate, InsertRow, Fresh, rows, OlderClaimEnded, Ended, InHand,
      RowsOK
<1>9. OlderLockEnded'
  BY DEF SchedCreate, InsertRow, Fresh, rows, OlderLockEnded, Ended, InHand,
      RowsOK, LockOK, LockRows, Claiming, PCs, EndStatuses
<1>10. StolenTaskEnded'
  BY DEF SchedCreate, InsertRow, Fresh, rows, StolenTaskEnded, InHand, RowsOK,
      LockRows, EndStatuses
<1>11. BeatFresh'
  BY <1>1, <1>2, <1>3, BeatKept DEF SchedCreate, InsertRow, Fresh, rows, pass, RowsOK, PassOK, HandlerOK, Claiming
<1> QED
  BY <1>1, <1>2, <1>3, <1>4, <1>5, <1>6, <1>7, <1>8, <1>9, <1>10, <1>11

(* The scheduler ends.                                                     *)
LEMMA SchedEndStep ==
  ASSUME IInv, NEW r \in Runners, SchedEnd(r)
  PROVE IInv'
<1> USE SystemTaskAssumption DEF IInv, TypeOK
<1>1. PassOK'
  BY DEF SchedEnd, Goto, pass, PassOK, PassPCs, PCs
<1> QED
  BY <1>1, OutsideClaimStep DEF SchedEnd, Goto, pass, InHand, Claiming

(* The claim pass reads the pending rows.                                  *)
LEMMA FindPendingStep ==
  ASSUME IInv, NEW r \in Runners, FindPending(r)
  PROVE IInv'
<1> USE SystemTaskAssumption DEF IInv, TypeOK
<1>1. PassOK'
  BY DEF FindPending, EarliestPending, Goto, PassOK, Claiming, PassPCs, PCs
<1> QED
  BY <1>1, OutsideClaimStep DEF FindPending, Goto, PassOK, InHand, Claiming

(* A claim begins with a row that is pending now, later than every other claim. *)
LEMMA ClaimReadStep ==
  ASSUME IInv, NEW r \in Runners, ClaimRead(r)
  PROVE IInv'
<1> USE SystemTaskAssumption DEF IInv, TypeOK
<1>1. RowsOK' /\ LockOK' /\ HandlerOK' /\ OneActivePerType' /\ HandlerClaimed'
      /\ LockTyped'
  BY DEF ClaimRead, rows, RowsOK, LockOK, HandlerOK, OneActivePerType,
      HandlerClaimed, LockTyped
<1>2. PassOK'
  BY DEF ClaimRead, Goto, rows, PassOK, RowsOK, LockRows, NoLock, Claiming,
      PassPCs, PCs
<1>3. InHand'
  BY DEF ClaimRead, Goto, rows, InHand, PassOK, RowsOK
<1>4. OlderClaimEnded'
  BY DEF ClaimRead, Goto, rows, OlderClaimEnded, OneActivePerType, Ended,
      InHand, RowsOK, PassOK, ActiveStatuses
<1>5. OlderLockEnded'
  <2>1. ASSUME NEW t \in TaskIds, status[t] = "pending", lock[type[t]] # NoLock,
               lock[type[t]].task # t
        PROVE  Ended(lock[type[t]].task)
    <3>1. lock[type[t]].task \in TaskIds /\ type[lock[type[t]].task] = type[t]
          /\ status[lock[type[t]].task] # "none"
      BY <2>1, NoLockFacts DEF LockTyped, LockOK, RowsOK
    <3> QED
      BY <2>1, <3>1 DEF OneActivePerType, Ended, RowsOK, ActiveStatuses
  <2>2. rows' = rows /\ lock' = lock
    BY DEF ClaimRead, rows
  <2>3. \A q \in Runners :
           \/ pc'[q] = pc[q] /\ cur'[q] = cur[q] /\ now'[q] = now[q]
           \/ cur'[q] \in TaskIds /\ status[cur'[q]] = "pending"
    BY DEF ClaimRead, Goto, PassOK
  <2> QED
    BY <2>1, <2>2, <2>3 DEF rows, OlderLockEnded, Ended
<1>6. StolenTaskEnded'
  BY DEF ClaimRead, Goto, rows, StolenTaskEnded, PassOK
<1>7. BeatFresh'
  <2>1. \A q \in Runners, t \in TaskIds : status[t] = "pending" => handler[q][t] = "none"
    BY DEF HandlerClaimed
  <2>2. \A q \in Runners :
           \/ pc'[q] = pc[q] /\ cur'[q] = cur[q]
           \/ cur'[q] \in TaskIds /\ status[cur'[q]] = "pending"
    BY DEF ClaimRead, Goto, PassOK
  <2> QED
    BY <2>1, <2>2 DEF ClaimRead, rows, BeatFresh
<1> QED
  BY <1>1, <1>2, <1>3, <1>4, <1>5, <1>6, <1>7

(* The claim pass ends.                                                    *)
LEMMA ClaimEndStep ==
  ASSUME IInv, NEW r \in Runners, ClaimEnd(r)
  PROVE IInv'
<1> USE SystemTaskAssumption DEF IInv, TypeOK
<1>1. PassOK'
  BY DEF ClaimEnd, Goto, PassOK, PassPCs, PCs
<1> QED
  BY <1>1, OutsideClaimStep DEF ClaimEnd, Goto, InHand, Claiming

(* A claim inserts its lock where there was none.                          *)
LEMMA AcquireInsertStep ==
  ASSUME IInv, NEW r \in Runners, AcquireInsert(r)
  PROVE IInv'
<1> USE SystemTaskAssumption DEF IInv, TypeOK
<1>1. RowsOK' /\ HandlerOK' /\ OneActivePerType' /\ HandlerClaimed'
  BY DEF AcquireInsert, rows, RowsOK, HandlerOK, OneActivePerType,
      HandlerClaimed
<1>2. LockOK'
  BY DEF AcquireInsert, Lease, LockOK, PassOK, InHand, Claiming, LockRows
<1>3. PassOK'
  BY DEF AcquireInsert, Goto, pass, PassOK, Claiming, PCs
<1>4. InHand'
  BY DEF AcquireInsert, Goto, rows, pass, InHand, PassOK, Claiming
<1>5. LockTyped'
  BY DEF AcquireInsert, Lease, rows, LockTyped, LockOK, InHand, Claiming
<1>6. OlderClaimEnded'
  BY DEF AcquireInsert, Goto, rows, pass, OlderClaimEnded, Ended, PassOK,
      Claiming
<1>7. OlderLockEnded'
  BY DEF AcquireInsert, Lease, Goto, rows, pass, OlderLockEnded,
      OlderClaimEnded, Ended, InHand, RowsOK, LockOK, PassOK, LockRows, NoLock,
      Claiming, ActiveStatuses
<1>8. StolenTaskEnded'
  BY DEF AcquireInsert, Goto, rows, pass, StolenTaskEnded, PassOK
<1>9. BeatFresh'
  <2>1. \A q \in Runners : pc'[q] \in Claiming => pc[q] \in Claiming /\ cur'[q] = cur[q]
    BY DEF AcquireInsert, Goto, pass, PassOK, Claiming
  <2>2. CASE lock' = [lock EXCEPT ![type[cur[r]]] = Lease(r)]
    BY <2>1, <2>2, BeatAtClaim DEF AcquireInsert, Claiming
  <2>3. CASE lock' = lock
    BY <2>1, <2>3, <1>1, <1>2, <1>3, BeatKept DEF AcquireInsert, rows, RowsOK
  <2> QED
    BY <2>2, <2>3 DEF AcquireInsert
<1> QED
  BY <1>1, <1>2, <1>3, <1>4, <1>5, <1>6, <1>7, <1>8, <1>9

(* A claim finds an expired lock, on its own row or on an ended one.       *)
LEMMA AcquireInspectStep ==
  ASSUME IInv, NEW r \in Runners, AcquireInspect(r)
  PROVE IInv'
<1> USE SystemTaskAssumption DEF IInv, TypeOK
<1>1. RowsOK' /\ LockOK' /\ HandlerOK' /\ OneActivePerType' /\ HandlerClaimed'
      /\ LockTyped'
  BY DEF AcquireInspect, rows, RowsOK, LockOK, HandlerOK, OneActivePerType,
      HandlerClaimed, LockTyped
<1>2. PassOK'
  <2>1. CASE NextClaim(r)
    BY <2>1 DEF AcquireInspect, NextClaim, Goto, PassOK, LockOK, RowsOK, LockRows, NoLock, Claiming, PassPCs, PCs
  <2>2. CASE ~NextClaim(r)
    <3> HIDE DEF NextClaim
    <3>1. lock[type[cur[r]]] \in LockRows
      BY <2>2 DEF AcquireInspect, InHand, LockOK, RowsOK, Claiming, PassOK
    <3> QED
      BY <2>2, <3>1 DEF AcquireInspect, Goto, PassOK, PassPCs, Claiming, PCs
  <2> QED
    BY <2>1, <2>2
<1>3. InHand'
  BY DEF AcquireInspect, NextClaim, Goto, rows, InHand, PassOK, RowsOK, LockOK,
      Claiming
<1>4. OlderClaimEnded'
  BY DEF AcquireInspect, NextClaim, Goto, rows, OlderClaimEnded, Ended, PassOK,
      Claiming
<1>5. OlderLockEnded'
  BY DEF AcquireInspect, NextClaim, Goto, rows, OlderLockEnded, Ended, PassOK,
      Claiming
<1>6. StolenTaskEnded'
  BY DEF AcquireInspect, NextClaim, Goto, rows, StolenTaskEnded,
      OlderLockEnded, Ended, PassOK, Claiming
<1>7. BeatFresh'
  BY <1>1, <1>2, <1>3, BeatKept DEF AcquireInspect, NextClaim, Goto, rows, pass, RowsOK, PassOK, HandlerOK, Claiming
<1> QED
  BY <1>1, <1>2, <1>3, <1>4, <1>5, <1>6, <1>7

(* A claim takes an expired lock over.                                     *)
LEMMA AcquireStealStep ==
  ASSUME IInv, NEW r \in Runners, AcquireSteal(r)
  PROVE IInv'
<1> USE SystemTaskAssumption DEF IInv, TypeOK
<1>1. RowsOK' /\ HandlerOK' /\ OneActivePerType' /\ HandlerClaimed'
  BY DEF AcquireSteal, rows, RowsOK, HandlerOK, OneActivePerType,
      HandlerClaimed
<1>2. LockOK'
  BY DEF AcquireSteal, Lease, LockOK, PassOK, InHand, Claiming, LockRows
<1>3. PassOK'
  <2>1. CASE NextClaim(r)
    BY <2>1 DEF AcquireSteal, NextClaim, Goto, PassOK, LockRows, NoLock, Claiming, PassPCs, PCs
  <2>2. CASE ~NextClaim(r)
    BY <2>2 DEF AcquireSteal, Goto, PassOK, PassPCs, Claiming, PCs
  <2> QED
    BY <2>1, <2>2
<1>4. InHand'
  BY DEF AcquireSteal, NextClaim, Goto, rows, InHand, PassOK, RowsOK, Claiming
<1>5. LockTyped'
  BY DEF AcquireSteal, Lease, rows, LockTyped, LockOK, InHand, Claiming
<1>6. OlderClaimEnded'
  BY DEF AcquireSteal, NextClaim, Goto, rows, OlderClaimEnded, Ended, PassOK,
      Claiming
<1>7. OlderLockEnded'
  BY DEF AcquireSteal, NextClaim, Goto, Lease, rows, OlderLockEnded,
      OlderClaimEnded, LockTyped, Ended, InHand, RowsOK, LockOK, PassOK,
      LockRows, NoLock, Claiming, EndStatuses
<1>8. StolenTaskEnded'
  BY DEF AcquireSteal, NextClaim, Goto, rows, StolenTaskEnded, PassOK
<1>9. BeatFresh'
  <2>1. \A q \in Runners : pc'[q] \in Claiming => pc[q] \in Claiming /\ cur'[q] = cur[q]
    BY DEF AcquireSteal, NextClaim, Goto, pass, PassOK, Claiming
  <2>2. CASE lock' = [lock EXCEPT ![type[cur[r]]] = Lease(r)]
    BY <2>1, <2>2, BeatAtClaim DEF AcquireSteal, Claiming
  <2>3. CASE lock' = lock
    BY <2>1, <2>3, <1>1, <1>2, <1>3, BeatKept DEF AcquireSteal, rows, RowsOK
  <2> QED
    BY <2>2, <2>3 DEF AcquireSteal
<1> QED
  BY <1>1, <1>2, <1>3, <1>4, <1>5, <1>6, <1>7, <1>8, <1>9

(* The row of the old lock is failed.                                      *)
LEMMA ClaimMarkStep ==
  ASSUME IInv, NEW r \in Runners, ClaimMark(r)
  PROVE IInv'
<1> USE SystemTaskAssumption DEF IInv, TypeOK
<1>1. LockOK' /\ HandlerOK'
  BY DEF ClaimMark, LockOK, HandlerOK
<1>2. RowsOK'
  BY DEF ClaimMark, MarkLeaseExpired, rows, RowsOK, EndStatuses
<1>3. PassOK'
  BY DEF ClaimMark, Goto, pass, PassOK, Claiming, PCs
<1>4. OneActivePerType'
  BY DEF ClaimMark, MarkLeaseExpired, rows, OneActivePerType, RowsOK,
      ActiveStatuses
<1>5. InHand'
  BY DEF ClaimMark, MarkLeaseExpired, Goto, rows, pass, InHand, PassOK, RowsOK,
      Claiming
<1>6. HandlerClaimed'
  BY DEF ClaimMark, MarkLeaseExpired, rows, HandlerClaimed, RowsOK
<1>7. LockTyped'
  BY DEF ClaimMark, MarkLeaseExpired, rows, LockTyped, LockOK, RowsOK, LockRows
<1>8. OlderClaimEnded'
  BY DEF ClaimMark, MarkLeaseExpired, Goto, rows, pass, OlderClaimEnded, Ended,
      InHand, RowsOK, PassOK, Claiming, EndStatuses
<1>9. OlderLockEnded'
  BY DEF ClaimMark, MarkLeaseExpired, Goto, rows, pass, OlderLockEnded, Ended,
      InHand, RowsOK, LockOK, PassOK, LockRows, Claiming, EndStatuses
<1>10. StolenTaskEnded'
  BY DEF ClaimMark, MarkLeaseExpired, Goto, rows, pass, StolenTaskEnded,
      InHand, RowsOK, PassOK, LockRows, EndStatuses
<1>11. BeatFresh'
  BY <1>1, <1>2, <1>3, BeatKept DEF ClaimMark, MarkLeaseExpired, Goto, rows, pass, RowsOK, PassOK, HandlerOK, Claiming
<1> QED
  BY <1>1, <1>2, <1>3, <1>4, <1>5, <1>6, <1>7, <1>8, <1>9, <1>10, <1>11

(* The claimed row starts, if it is still pending.                         *)
LEMMA ClaimCasStep ==
  ASSUME IInv, NEW r \in Runners, ClaimCas(r)
  PROVE IInv'
<1> USE SystemTaskAssumption DEF IInv, TypeOK
<1>1. LockOK'
  BY DEF ClaimCas, LockOK
<1>2. RowsOK'
  BY DEF ClaimCas, RowsOK, PassOK, ActiveStatuses
<1>3. PassOK'
  <2>1. CASE NextClaim(r)
    BY <2>1 DEF ClaimCas, NextClaim, Goto, PassOK, LockRows, NoLock, Claiming, PassPCs, PCs
  <2>2. CASE ~NextClaim(r)
    BY <2>2 DEF ClaimCas, Goto, PassOK, PassPCs, Claiming, PCs
  <2> QED
    BY <2>1, <2>2
<1>4. HandlerOK'
  BY DEF ClaimCas, HandlerOK
<1>5. OneActivePerType'
  BY DEF ClaimCas, CasHits, OneActivePerType, RowsOK, ActiveStatuses
<1>6. InHand'
  BY DEF ClaimCas, NextClaim, Goto, InHand, PassOK, RowsOK, Claiming
<1>7. HandlerClaimed'
  <2>1. cur[r] \in TaskIds
    BY DEF ClaimCas, InHand, Claiming
  <2>2. CASE status' = [status EXCEPT ![cur[r]] = "running"] /\ CasHits(cur[r])
             /\ lockedBy' = [lockedBy EXCEPT ![cur[r]] = r]
    <3>1. \A q \in Runners, t \in TaskIds :
             handler'[q][t] = handler[q][t] \/ (q = r /\ t = cur[r])
      BY <2>1 DEF ClaimCas, HandlerOK
    <3>2. \A q \in Runners : handler[q][cur[r]] = "none"
      BY <2>1, <2>2 DEF CasHits, HandlerClaimed
    <3> QED
      BY <2>1, <2>2, <3>1, <3>2 DEF HandlerClaimed, RowsOK
  <2>3. CASE UNCHANGED <<status, lockedBy, handler>>
    BY <2>3 DEF HandlerClaimed
  <2> QED
    BY <2>2, <2>3 DEF ClaimCas
<1>8. LockTyped'
  BY DEF ClaimCas, LockTyped, LockOK, RowsOK, LockRows
<1>9. OlderClaimEnded'
  BY DEF ClaimCas, CasHits, NextClaim, Goto, OlderClaimEnded, Ended, InHand,
      RowsOK, PassOK, Claiming, EndStatuses
<1>10. OlderLockEnded'
  BY DEF ClaimCas, CasHits, NextClaim, Goto, OlderLockEnded, Ended, InHand,
      RowsOK, LockOK, PassOK, LockRows, Claiming, EndStatuses
<1>11. StolenTaskEnded'
  BY DEF ClaimCas, CasHits, NextClaim, Goto, StolenTaskEnded, InHand, RowsOK,
      PassOK, LockRows, EndStatuses
<1>12. BeatFresh'
  <2>1. cur[r] \in TaskIds
    BY DEF ClaimCas, InHand, Claiming
  <2>2. \A q \in Runners, t \in TaskIds :
           \/ handler'[q][t] = handler[q][t]
           \/ q = r /\ t = cur[r] /\ pc'[r] = "claim" /\ handler'[q][t] = "running"
    BY <2>1 DEF ClaimCas, NextClaim, Goto, HandlerOK, PassOK
  <2>3. \A q \in Runners : pc'[q] \in Claiming => pc[q] \in Claiming /\ cur'[q] = cur[q]
    BY DEF ClaimCas, NextClaim, Goto, PassOK, Claiming
  <2>4. UNCHANGED <<clock, type, lock, beat>>
    BY DEF ClaimCas
  <2> QED
    BY <2>1, <2>2, <2>3, <2>4 DEF BeatFresh, InHand, Claiming
<1> QED
  BY <1>1, <1>2, <1>3, <1>4, <1>5, <1>6, <1>7, <1>8, <1>9, <1>10, <1>11, <1>12

(* A claim releases its lock.                                              *)
LEMMA ClaimGiveUpStep ==
  ASSUME IInv, NEW r \in Runners, ClaimGiveUp(r)
  PROVE IInv'
<1> USE SystemTaskAssumption DEF IInv, TypeOK
<1>1. RowsOK' /\ HandlerOK' /\ OneActivePerType' /\ HandlerClaimed'
  BY DEF ClaimGiveUp, rows, RowsOK, HandlerOK, OneActivePerType, HandlerClaimed
<1>2. LockOK'
  BY DEF ClaimGiveUp, ReleaseLock, LockOK
<1>3. PassOK'
  BY DEF ClaimGiveUp, NextClaim, Goto, PassOK, PassPCs, PCs
<1>4. InHand'
  BY DEF ClaimGiveUp, NextClaim, Goto, rows, InHand, PassOK, RowsOK, Claiming
<1>5. LockTyped'
  BY DEF ClaimGiveUp, ReleaseLock, rows, LockTyped
<1>6. OlderClaimEnded'
  BY DEF ClaimGiveUp, NextClaim, Goto, rows, OlderClaimEnded, Ended, PassOK,
      Claiming
<1>7. OlderLockEnded'
  BY DEF ClaimGiveUp, ReleaseLock, NextClaim, Goto, rows, OlderLockEnded,
      Ended, InHand, RowsOK, PassOK, Claiming
<1>8. StolenTaskEnded'
  BY DEF ClaimGiveUp, NextClaim, Goto, rows, StolenTaskEnded
<1>9. BeatFresh'
  BY <1>1, <1>2, <1>3, BeatKept DEF ClaimGiveUp, ReleaseLock, NextClaim, Goto, rows, pass, RowsOK, PassOK, HandlerOK, Claiming
<1> QED
  BY <1>1, <1>2, <1>3, <1>4, <1>5, <1>6, <1>7, <1>8, <1>9

(* A runner dies.                                                          *)
LEMMA CrashStep ==
  ASSUME IInv, NEW r \in Runners, Crash(r)
  PROVE IInv'
<1> USE SystemTaskAssumption DEF IInv, TypeOK
<1>1. RowsOK' /\ LockOK' /\ OneActivePerType' /\ LockTyped'
  BY DEF Crash, rows, RowsOK, LockOK, OneActivePerType, LockTyped
<1>2. PassOK'
  BY DEF Crash, Goto, PassOK, PCs
<1>3. HandlerOK'
  BY DEF Crash, HandlerOK
<1>4. InHand'
  BY DEF Crash, Goto, rows, InHand, PassOK, RowsOK, Claiming
<1>5. HandlerClaimed'
  BY DEF Crash, rows, HandlerClaimed
<1>6. OlderClaimEnded'
  BY DEF Crash, Goto, rows, OlderClaimEnded, Ended, PassOK, Claiming
<1>7. OlderLockEnded'
  BY DEF Crash, Goto, rows, OlderLockEnded, Ended, PassOK, Claiming
<1>8. StolenTaskEnded'
  BY DEF Crash, Goto, rows, StolenTaskEnded, PassOK
<1>9. BeatFresh'
  BY <1>1, <1>2, <1>3, BeatKept DEF Crash, Goto, rows, pass, RowsOK, PassOK, HandlerOK, Claiming
<1> QED
  BY <1>1, <1>2, <1>3, <1>4, <1>5, <1>6, <1>7, <1>8, <1>9

(* The API inserts a row; the index keeps the type unique.                 *)
LEMMA EnqueueStep ==
  ASSUME IInv, NEW ty \in Types, Enqueue(ty)
  PROVE IInv'
<1> USE SystemTaskAssumption DEF IInv, TypeOK
<1>1. LockOK' /\ PassOK' /\ HandlerOK'
  BY DEF Enqueue, pass, LockOK, PassOK, HandlerOK
<1>2. RowsOK'
  BY DEF Enqueue, InsertRow, RowsOK, ActiveStatuses
<1>3. OneActivePerType'
  BY DEF Enqueue, KeyFree, InsertRow, OneActivePerType, RowsOK, ActiveStatuses
<1>4. InHand'
  BY DEF Enqueue, InsertRow, pass, InHand
<1>5. HandlerClaimed'
  BY DEF Enqueue, Fresh, InsertRow, HandlerClaimed
<1>6. LockTyped'
  BY DEF Enqueue, Fresh, InsertRow, LockTyped
<1>7. OlderClaimEnded'
  BY DEF Enqueue, Fresh, InsertRow, pass, OlderClaimEnded, Ended, InHand
<1>8. OlderLockEnded'
  BY DEF Enqueue, Fresh, InsertRow, pass, OlderLockEnded, LockTyped, Ended,
      InHand, RowsOK
<1>9. StolenTaskEnded'
  BY DEF Enqueue, Fresh, InsertRow, pass, StolenTaskEnded, EndStatuses
<1>10. BeatFresh'
  BY <1>1, <1>2, <1>3, BeatKept DEF Enqueue, InsertRow, Fresh, rows, pass, RowsOK, PassOK, HandlerOK, Claiming
<1> QED
  BY <1>1, <1>2, <1>3, <1>4, <1>5, <1>6, <1>7, <1>8, <1>9, <1>10

(* The heartbeat reads the time.                                           *)
LEMMA BeatStep ==
  ASSUME IInv, NEW r \in Runners, NEW t \in TaskIds, Beat(r, t)
  PROVE IInv'
<1> USE SystemTaskAssumption DEF IInv, TypeOK
<1>1. RowsOK' /\ LockOK' /\ PassOK' /\ OneActivePerType' /\ InHand' /\
      HandlerClaimed' /\ LockTyped' /\ OlderClaimEnded' /\ OlderLockEnded' /\
      StolenTaskEnded'
  BY DEF Beat, rows, pass, RowsOK, LockOK, PassOK, OneActivePerType, InHand,
      HandlerClaimed, LockTyped, OlderClaimEnded, Ended, OlderLockEnded,
      StolenTaskEnded
<1>2. HandlerOK'
  BY DEF Beat, SetBeat, HandlerOK, RowsOK
<1>3. BeatFresh'
  BY DEF Beat, SetBeat, rows, pass, BeatFresh, RowsOK, HandlerOK
<1> QED
  BY <1>1, <1>2, <1>3

(* The heartbeat extends a lease that has not run out.                     *)
LEMMA RenewStep ==
  ASSUME IInv, NEW r \in Runners, NEW t \in TaskIds, Renew(r, t)
  PROVE IInv'
<1> USE SystemTaskAssumption DEF IInv, TypeOK
<1>1. RowsOK' /\ PassOK' /\ OneActivePerType' /\ InHand' /\
      HandlerClaimed' /\ OlderClaimEnded' /\ StolenTaskEnded'
  BY DEF Renew, rows, pass, RowsOK, PassOK, OneActivePerType,
      InHand, HandlerClaimed, OlderClaimEnded, Ended, StolenTaskEnded
<1>2. LockOK' /\ HandlerOK'
  BY DEF Renew, SetBeat, LockOK, RowsOK, HandlerOK, LockRows
<1>3. LockTyped'
  BY DEF Renew, LeaseAt, rows, LockTyped, NoLock
<1>4. OlderLockEnded'
  <2>1. /\ lock[type[t]].until <= beat[r][t] + TTL
        /\ lock[type[t]].task = t /\ lock[type[t]].by = r
    BY DEF Renew, LeaseAt, BeatFresh
  <2>2. \A ty \in Types : \/ lock'[ty] = lock[ty]
                          \/ /\ lock'[ty].task = lock[ty].task
                             /\ lock[ty] # NoLock
                             /\ lock[ty].until <= lock'[ty].until
    BY <2>1, NoLockFacts DEF Renew, LockOK, RowsOK
  <2>3. \A ty \in Types : lock[ty].until \in Int /\ lock'[ty].until \in Int
    BY <1>2, NoLockFacts DEF LockOK, NoLock
  <2> QED
    BY <2>2, <2>3 DEF Renew, rows, pass, OlderLockEnded, Ended, InHand, RowsOK, PassOK
<1>5. BeatFresh'
  <2>1. beat[r][t] \in Nat /\ beat[r][t] <= clock /\ clock \in Nat
    BY DEF Renew, BeatFresh, HandlerOK, RowsOK
  <2>2. \A q \in Runners, u \in TaskIds :
           /\ beat'[q][u] \in {beat[q][u], NoBeat}
           /\ beat'[q][u] # NoBeat => q # r \/ u # t
    BY DEF Renew, SetBeat, HandlerOK
  <2>3. \A ty \in Types : \/ lock'[ty] = lock[ty]
                          \/ /\ lock'[ty].task = t /\ lock'[ty].by = r
                             /\ lock'[ty].until = beat[r][t] + TTL
    BY DEF Renew, LockOK
  <2>4. UNCHANGED <<clock, type, pc, cur, handler>>
    BY DEF Renew, rows, pass
  <2> QED
    BY <2>1, <2>2, <2>3, <2>4 DEF BeatFresh, RowsOK
<1> QED
  BY <1>1, <1>2, <1>3, <1>4, <1>5

(* The heartbeat fails and cancels the handler.                            *)
LEMMA RenewFailsStep ==
  ASSUME IInv, NEW r \in Runners, NEW t \in TaskIds, RenewFails(r, t)
  PROVE IInv'
<1> USE SystemTaskAssumption DEF IInv, TypeOK
<1>1. RowsOK' /\ LockOK' /\ PassOK' /\ OneActivePerType' /\ InHand' /\
      LockTyped' /\ OlderClaimEnded' /\ OlderLockEnded' /\ StolenTaskEnded'
  BY DEF RenewFails, rows, pass, RowsOK, LockOK, PassOK, OneActivePerType,
      InHand, LockTyped, OlderClaimEnded, Ended, OlderLockEnded,
      StolenTaskEnded
<1>2. HandlerOK'
  BY DEF RenewFails, SetHandler, SetBeat, HandlerOK
<1>3. HandlerClaimed'
  BY DEF RenewFails, SetHandler, rows, HandlerClaimed
<1>4. BeatFresh'
  BY <1>1, <1>2, BeatKept DEF RenewFails, SetBeat, SetHandler, rows, pass, RowsOK, PassOK, HandlerOK, Claiming
<1> QED
  BY <1>1, <1>2, <1>3, <1>4

(* A handler saves its outcome under its lease.                            *)
LEMMA FinishStep ==
  ASSUME IInv, NEW r \in Runners, NEW t \in TaskIds, Finish(r, t)
  PROVE IInv'
<1> USE SystemTaskAssumption DEF IInv, TypeOK
<1>1. LockOK' /\ PassOK'
  BY DEF Finish, pass, LockOK, PassOK
<1>2. RowsOK'
  BY DEF Finish, SaveOutcome, ReadTimes, RowsOK
<1>3. HandlerOK'
  BY DEF Finish, SetHandler, HandlerOK
<1>4. OneActivePerType'
  BY DEF Finish, SaveOutcome, OneActivePerType, RowsOK, ActiveStatuses,
      EndStatuses
<1>5. InHand'
  BY DEF Finish, SaveOutcome, pass, InHand, EndStatuses
<1>6. HandlerClaimed'
  BY DEF Finish, SaveOutcome, SetHandler, HandlerClaimed, EndStatuses
<1>7. LockTyped'
  BY DEF Finish, SaveOutcome, LockTyped, EndStatuses
<1>8. OlderClaimEnded'
  BY DEF Finish, SaveOutcome, pass, OlderClaimEnded, Ended
<1>9. OlderLockEnded'
  BY DEF Finish, SaveOutcome, pass, OlderLockEnded, Ended
<1>10. StolenTaskEnded'
  BY DEF Finish, SaveOutcome, pass, StolenTaskEnded
<1>11. BeatFresh'
  BY <1>1, <1>2, <1>3, BeatKept DEF Finish, SaveOutcome, SetHandler, rows, pass, RowsOK, PassOK, HandlerOK, Claiming
<1> QED
  BY <1>1, <1>2, <1>3, <1>4, <1>5, <1>6, <1>7, <1>8, <1>9, <1>10, <1>11

(* A handler returns without an outcome.                                   *)
LEMMA LeaseLostStep ==
  ASSUME IInv, NEW r \in Runners, NEW t \in TaskIds, LeaseLost(r, t)
  PROVE IInv'
<1> USE SystemTaskAssumption DEF IInv, TypeOK
<1>1. RowsOK' /\ LockOK' /\ PassOK' /\ OneActivePerType' /\ InHand' /\
      LockTyped' /\ OlderClaimEnded' /\ OlderLockEnded' /\ StolenTaskEnded'
  BY DEF LeaseLost, rows, pass, RowsOK, LockOK, PassOK, OneActivePerType,
      InHand, LockTyped, OlderClaimEnded, Ended, OlderLockEnded,
      StolenTaskEnded
<1>2. HandlerOK'
  BY DEF LeaseLost, SetHandler, HandlerOK
<1>3. HandlerClaimed'
  BY DEF LeaseLost, SetHandler, rows, HandlerClaimed
<1>4. BeatFresh'
  BY <1>1, <1>2, BeatKept DEF LeaseLost, SetHandler, rows, pass, RowsOK, PassOK, HandlerOK, Claiming
<1> QED
  BY <1>1, <1>2, <1>3, <1>4

(* A finished handler releases its lock.                                   *)
LEMMA FinishReleaseStep ==
  ASSUME IInv, NEW r \in Runners, NEW t \in TaskIds, FinishRelease(r, t)
  PROVE IInv'
<1> USE SystemTaskAssumption DEF IInv, TypeOK
<1>1. RowsOK' /\ PassOK' /\ OneActivePerType' /\ InHand' /\ OlderClaimEnded' /\
      StolenTaskEnded'
  BY DEF FinishRelease, rows, pass, RowsOK, PassOK, OneActivePerType, InHand,
      OlderClaimEnded, Ended, StolenTaskEnded
<1>2. LockOK'
  BY DEF FinishRelease, ReleaseLock, LockOK
<1>3. HandlerOK'
  BY DEF FinishRelease, SetHandler, HandlerOK
<1>4. HandlerClaimed'
  BY DEF FinishRelease, SetHandler, rows, HandlerClaimed
<1>5. LockTyped'
  BY DEF FinishRelease, ReleaseLock, rows, LockTyped
<1>6. OlderLockEnded'
  BY DEF FinishRelease, ReleaseLock, rows, pass, OlderLockEnded, Ended, InHand,
      RowsOK
<1>7. BeatFresh'
  BY <1>1, <1>2, <1>3, BeatKept DEF FinishRelease, ReleaseLock, SetHandler, rows, pass, RowsOK, PassOK, HandlerOK, Claiming
<1> QED
  BY <1>1, <1>2, <1>3, <1>4, <1>5, <1>6, <1>7

(* Time passes.                                                            *)
LEMMA TickStep ==
  ASSUME IInv, Tick
  PROVE IInv'
<1> USE SystemTaskAssumption DEF IInv, TypeOK
<1>1. LockOK' /\ PassOK' /\ HandlerOK' /\ OneActivePerType' /\ HandlerClaimed'
      /\ LockTyped' /\ OlderClaimEnded' /\ OlderLockEnded' /\ StolenTaskEnded'
  BY DEF Tick, rows, pass, LockOK, PassOK, HandlerOK, OneActivePerType,
      HandlerClaimed, LockTyped, OlderClaimEnded, Ended, OlderLockEnded,
      StolenTaskEnded
<1>2. RowsOK'
  BY DEF Tick, rows, RowsOK
<1>3. InHand'
  BY DEF Tick, rows, pass, InHand, PassOK, RowsOK
<1>4. BeatFresh'
  BY <1>1, <1>2, BeatKept DEF Tick, rows, pass, RowsOK, PassOK, HandlerOK, Claiming
<1> QED
  BY <1>1, <1>2, <1>3, <1>4

-----------------------------------------------------------------------------
(* The tables start empty, the runners idle.                               *)
LEMMA InitOK == Init => IInv
<1> SUFFICES ASSUME Init PROVE IInv
  OBVIOUS
<1> USE SystemTaskAssumption DEF Init
<1>1. RowsOK
  BY DEF RowsOK
<1>2. LockOK
  BY DEF LockOK
<1>3. PassOK /\ HandlerOK
  BY DEF PassOK, HandlerOK, PCs, PassPCs
<1>4. OneActivePerType
  BY DEF OneActivePerType, ActiveStatuses
<1>7. BeatFresh
  BY DEF BeatFresh, Claiming, NoLock
<1>5. InHand /\ OlderClaimEnded /\ OlderLockEnded /\ StolenTaskEnded
  BY DEF InHand, OlderClaimEnded, OlderLockEnded, StolenTaskEnded, Claiming
<1>6. HandlerClaimed /\ LockTyped
  BY DEF HandlerClaimed, LockTyped
<1> QED
  BY <1>1, <1>2, <1>3, <1>4, <1>5, <1>6, <1>7 DEF IInv, TypeOK

(* Every step preserves the invariant.                                     *)
LEMMA NextOK == IInv /\ [Next]_vars => IInv'
<1> SUFFICES ASSUME IInv, [Next]_vars PROVE IInv'
  OBVIOUS
<1>1. CASE UNCHANGED vars
  BY <1>1 DEF vars, rows, pass, IInv, TypeOK, RowsOK, LockOK, PassOK, HandlerOK,
     OneActivePerType, InHand, HandlerClaimed, LockTyped, OlderClaimEnded,
     OlderLockEnded, StolenTaskEnded, BeatFresh, Ended
<1>2. ASSUME NEW ty \in Types, Enqueue(ty) PROVE IInv'
  BY <1>2, EnqueueStep
<1>3. ASSUME NEW r \in Runners, ExpireStale(r) PROVE IInv'
  BY <1>3, ExpireReadStep, ExpireSkipStep, ExpireMarkStep, ExpireDeleteStep,
     ExpireEndStep DEF ExpireStale
<1>4. ASSUME NEW r \in Runners, Scheduler(r) PROVE IInv'
  BY <1>4, SchedReadStep, SchedSkipStep, SchedCreateStep, SchedEndStep DEF Scheduler
<1>5. ASSUME NEW r \in Runners, ClaimPass(r) PROVE IInv'
  BY <1>5, FindPendingStep, ClaimReadStep, ClaimEndStep, AcquireInsertStep,
     AcquireInspectStep, AcquireStealStep, ClaimMarkStep, ClaimCasStep,
     ClaimGiveUpStep DEF ClaimPass
<1>6. ASSUME NEW r \in Runners, Crash(r) PROVE IInv'
  BY <1>6, CrashStep
<1>7. ASSUME NEW r \in Runners, NEW t \in TaskIds, HandlerStep(r, t) PROVE IInv'
  BY <1>7, BeatStep, RenewStep, RenewFailsStep, FinishStep, LeaseLostStep,
     FinishReleaseStep DEF HandlerStep, RenewEnds
<1>8. CASE Tick
  BY <1>8, TickStep
<1> QED
  BY <1>1, <1>2, <1>3, <1>4, <1>5, <1>6, <1>7, <1>8 DEF Next, Loop

(* The invariant holds in every reachable state.                           *)
THEOREM Invariance == Spec => []IInv
  BY InitOK, NextOK, PTL DEF Spec

(* The variables of the tables, the runners and the handlers keep their    *)
(* types, whatever fails, crashes or stalls.                               *)
THEOREM TypeCorrect == Spec => []TypeOK
<1>1. IInv => TypeOK
  BY DEF IInv
<1> QED
  BY <1>1, Invariance, PTL

(* CreateSystemTask and the finishing statements keep at most one pending  *)
(* or running row of a type, although every check before them is stale.    *)
THEOREM OneActive == Spec => []OneActivePerType
<1>1. IInv => OneActivePerType
  BY DEF IInv
<1> QED
  BY <1>1, Invariance, PTL

(* ClaimSystemTask starts the handler of a row for one runner only, even   *)
(* when claims outlast their leases.                                       *)
THEOREM OneExecutor == Spec => []SingleExecutor
<1>1. IInv => SingleExecutor
  BY DEF IInv, HandlerClaimed, SingleExecutor
<1> QED
  BY <1>1, Invariance, PTL

(* acquireSystemTaskLock takes over locks of rows that have ended, or of   *)
(* the row being claimed.                                                  *)
THEOREM TakeoverSafe == Spec => []StolenTaskEnded
<1>1. IInv => StolenTaskEnded
  BY DEF IInv
<1> QED
  BY <1>1, Invariance, PTL

-----------------------------------------------------------------------------
(* Refinement of JobQueue.                                                 *)

QueueVars == <<status, type, lockedBy>>

(* An insert that the index lets through submits a task.                   *)
LEMMA InsertSubmits ==
  ASSUME IInv, NEW t \in TaskIds, NEW ty \in Types,
         KeyFree(ty), Fresh(t), InsertRow(t, ty)
  PROVE  Queue!JQNext
<1>1. \A u \in TaskIds : type[u] = ty => status[u] \notin Queue!ActiveStatuses
  BY DEF IInv, OneActivePerType, KeyFree, ActiveStatuses, Queue!ActiveStatuses
<1>2. Queue!Submit(t, ty)
  BY <1>1 DEF Fresh, InsertRow, Queue!Submit
<1> QED
  BY <1>2 DEF Queue!JQNext

(* Marking a row whose lease expired ends it, if it does anything.         *)
LEMMA MarkEnds ==
  ASSUME NEW t \in TaskIds, MarkLeaseExpired(t)
  PROVE  Queue!JQNext \/ UNCHANGED QueueVars
<1>1. CASE status[t] = "running"
  <2>1. Queue!End(t, "failed")
    BY <1>1 DEF MarkLeaseExpired, Queue!End
  <2> QED
    BY <2>1 DEF Queue!JQNext, Queue!EndStatuses
<1>2. CASE status[t] # "running"
  BY <1>2 DEF MarkLeaseExpired, rows, QueueVars
<1> QED
  BY <1>1, <1>2

(* Every step of the tables is a step of the queue or changes nothing      *)
(* there.                                                                  *)
LEMMA StepSimulation ==
  ASSUME IInv, [Next]_vars
  PROVE  Queue!JQNext \/ UNCHANGED QueueVars
<1>1. CASE UNCHANGED vars
  BY <1>1 DEF vars, rows, QueueVars
<1>2. ASSUME NEW ty \in Types, Enqueue(ty) PROVE Queue!JQNext
  BY <1>2, InsertSubmits DEF Enqueue
<1>3. ASSUME NEW r \in Runners, ExpireStale(r)
      PROVE  Queue!JQNext \/ UNCHANGED QueueVars
  <2>1. CASE ExpireMark(r)
    <3>1. PICK l \in stale[r] : MarkLeaseExpired(l.task)
      BY <2>1 DEF ExpireMark
    <3>2. l.task \in TaskIds
      BY NoLockFacts DEF IInv, TypeOK, PassOK
    <3> QED
      BY <3>1, <3>2, MarkEnds
  <2> QED
    BY <1>3, <2>1 DEF ExpireStale, ExpireRead, ExpireSkip, ExpireDelete, ExpireEnd,
       rows, QueueVars
<1>4. ASSUME NEW r \in Runners, Scheduler(r)
      PROVE  Queue!JQNext \/ UNCHANGED QueueVars
  <2>1. CASE SchedCreate(r)
    <3>1. PICK ty \in due[r] :
             \/ KeyFree(ty) /\ \E t \in TaskIds : Fresh(t) /\ InsertRow(t, ty)
             \/ UNCHANGED rows
      BY <2>1 DEF SchedCreate
    <3>2. ty \in Types
      BY SystemTaskAssumption DEF IInv, TypeOK, PassOK
    <3> QED
      BY <3>1, <3>2, InsertSubmits DEF rows, QueueVars
  <2> QED
    BY <1>4, <2>1 DEF Scheduler, SchedRead, SchedSkip, SchedEnd, rows, QueueVars
<1>5. ASSUME NEW r \in Runners, ClaimPass(r)
      PROVE  Queue!JQNext \/ UNCHANGED QueueVars
  <2>1. CASE ClaimMark(r)
    <3>1. seen[r].task \in TaskIds
      BY <2>1, NoLockFacts DEF ClaimMark, IInv, InHand
    <3> QED
      BY <2>1, <3>1, MarkEnds DEF ClaimMark, rows, QueueVars
  <2>2. CASE ClaimCas(r)
    <3>1. cur[r] \in TaskIds
      BY <2>2 DEF ClaimCas, IInv, InHand, Claiming
    <3>2. CASE CasHits(cur[r]) /\ status' = [status EXCEPT ![cur[r]] = "running"]
               /\ lockedBy' = [lockedBy EXCEPT ![cur[r]] = r] /\ UNCHANGED type
      <4>1. Queue!Start(cur[r], r)
        BY <3>2 DEF CasHits, Queue!Start
      <4> QED
        BY <3>1, <4>1 DEF Queue!JQNext
    <3> QED
      BY <2>2, <3>2 DEF ClaimCas, QueueVars
  <2> QED
    BY <1>5, <2>1, <2>2 DEF ClaimPass, FindPending, ClaimRead, ClaimEnd,
       AcquireInsert, AcquireInspect, AcquireSteal, ClaimGiveUp, rows, QueueVars
<1>6. ASSUME NEW r \in Runners, Crash(r) PROVE UNCHANGED QueueVars
  BY <1>6 DEF Crash, rows, QueueVars
<1>7. ASSUME NEW r \in Runners, NEW t \in TaskIds, HandlerStep(r, t)
      PROVE  Queue!JQNext \/ UNCHANGED QueueVars
  <2>1. CASE Finish(r, t)
    <3>1. PICK outcome \in EndStatuses : SaveOutcome(t, r, outcome)
      BY <2>1 DEF Finish
    <3>2. Queue!End(t, outcome)
      BY <3>1 DEF SaveOutcome, Queue!End
    <3> QED
      BY <3>2 DEF Queue!JQNext, Queue!EndStatuses, EndStatuses
  <2> QED
    BY <1>7, <2>1 DEF HandlerStep, Beat, RenewEnds, Renew, RenewFails, LeaseLost,
       FinishRelease, rows, QueueVars
<1>8. CASE Tick
  BY <1>8 DEF Tick, rows, QueueVars
<1> QED
  BY <1>1, <1>2, <1>3, <1>4, <1>5, <1>6, <1>7, <1>8 DEF Next, Loop

(* The tables implement the job queue: whatever leases, crashes and errors *)
(* do, a row is submitted while its type is free, started once and ended   *)
(* once.                                                                   *)
THEOREM Refinement == Spec => ImplementsJobQueue
<1>1. Init => Queue!JQInit
  BY DEF Init, Queue!JQInit
<1>2. IInv /\ [Next]_vars => [Queue!JQNext]_(Queue!jqVars)
  BY StepSimulation DEF QueueVars, Queue!jqVars
<1> QED
  BY <1>1, <1>2, Invariance, PTL DEF Spec, ImplementsJobQueue, Queue!JQSpec
=============================================================================
