----------------------- MODULE SystemTaskLeaseProofs ------------------------
(***************************************************************************)
(* Proofs about SystemTask when no claim outlasts its lease: CoveredInv is *)
(* inductive, so a running row always has its lock.                        *)
(***************************************************************************)
EXTENDS SystemTaskProofs, TLAPS


(* A step that only deletes lock rows, and leaves the rows of system_tasks *)
(* and the runners inside a claim or a cleanup alone.                      *)
LEMMA LockShrinks ==
  ASSUME CoveredInv, UNCHANGED rows,
         \A ty \in Types : lock'[ty] = lock[ty] \/ lock'[ty] = NoLock,
         \A q \in Runners :
            \/ pc'[q] \notin Claiming \cup {"delete"}
            \/ /\ pc'[q] = pc[q] /\ now'[q] = now[q]
               /\ cur'[q] = cur[q] /\ seen'[q] = seen[q]
  PROVE ExpiredNotRunning'
<1> USE SystemTaskAssumption DEF CoveredInv, IInv, TypeOK
<1>2. \A ty \in Types : lock'[ty].task # 0 => lock'[ty] = lock[ty]
  BY NoLockFacts
<1>5. \A q \in Runners : /\ pc[q] \in Claiming => cur[q] # 0 /\ type[cur[q]] \in Types
                         /\ pc[q] = "delete" => seen[q].task # 0
  BY NoLockFacts DEF InHand, RowsOK
<1> QED
  BY <1>2, <1>5 DEF rows, ExpiredNotRunning, Claiming

(* A step of a runner's loop that ends outside ClaimSystemTask and leaves  *)
(* the tables, the handlers and the other runners alone.                   *)
LEMMA OutsideClaimCovered ==
  ASSUME CoveredInv, IInv', NEW r \in Runners,
         UNCHANGED <<clock, rows, lock, handler>>,
         pc'[r] \notin Claiming \cup {"delete"},
         \A q \in Runners \ {r} :
            /\ pc'[q] = pc[q] /\ now'[q] = now[q]
            /\ cur'[q] = cur[q] /\ seen'[q] = seen[q]
  PROVE CoveredInv'
<1> USE SystemTaskAssumption DEF CoveredInv
<1>1. RunningIsCovered'
  BY DEF rows, RunningIsCovered
<1>2. ClaimIsNew' /\ ClaimHasLock' /\ ExpiredNotRunning'
  BY DEF rows, ClaimIsNew, ClaimHasLock, ExpiredNotRunning, Ended, Lease, Claiming
<1> QED
  BY <1>1, <1>2

(* The cleanup reads the expired locks.                                    *)
LEMMA ExpireReadCovered ==
  ASSUME CoveredInv, IInv', SlowClaims = {},
         NEW r \in Runners, ExpireRead(r)
  PROVE CoveredInv'
<1> USE SystemTaskAssumption DEF IInv, TypeOK, CoveredInv
<1> QED
  BY OutsideClaimCovered DEF ExpireRead, Goto, Claiming

(* No cleanup in this pass.                                                *)
LEMMA ExpireSkipCovered ==
  ASSUME CoveredInv, IInv', SlowClaims = {},
         NEW r \in Runners, ExpireSkip(r)
  PROVE CoveredInv'
<1> USE SystemTaskAssumption DEF IInv, TypeOK, CoveredInv
<1> QED
  BY OutsideClaimCovered DEF ExpireSkip, Goto, pass, Claiming

(* The cleanup fails the row of a lock it read: only a running row changes. *)
LEMMA ExpireMarkCovered ==
  ASSUME CoveredInv, IInv', SlowClaims = {},
         NEW r \in Runners, ExpireMark(r)
  PROVE CoveredInv'
<1> USE SystemTaskAssumption DEF IInv, TypeOK, CoveredInv
<1>1. RunningIsCovered'
  BY DEF ExpireMark, MarkLeaseExpired, rows, RunningIsCovered, RowsOK
<1>2. ClaimIsNew'
  <2>1. PICK l \in stale[r] : MarkLeaseExpired(l.task)
    BY DEF ExpireMark
  <2>2. l.task \in TaskIds
    BY <2>1, NoLockFacts DEF PassOK
  <2>3. \A t \in TaskIds : status'[t] = status[t] \/ (status[t] = "running" /\ status'[t] = "failed")
    BY <2>1, <2>2 DEF MarkLeaseExpired, rows, RowsOK
  <2>4. lockedBy' = lockedBy
    BY <2>1 DEF MarkLeaseExpired, rows
  <2> QED
    BY <2>3, <2>4 DEF ExpireMark, Goto, ClaimIsNew, Ended, PassOK, RowsOK, InHand, Claiming, EndStatuses
<1>3. ClaimHasLock'
  BY DEF ExpireMark, MarkLeaseExpired, Goto, rows, ClaimHasLock, Lease,
      Claiming
<1>4. ExpiredNotRunning'
  BY DEF ExpireMark, MarkLeaseExpired, Goto, rows, ExpiredNotRunning, InHand,
      RowsOK, PassOK, LockRows, Claiming
<1> QED
  BY <1>1, <1>2, <1>3, <1>4

(* The cleanup deletes a lock it read.                                     *)
LEMMA ExpireDeleteCovered ==
  ASSUME CoveredInv, IInv', SlowClaims = {},
         NEW r \in Runners, ExpireDelete(r)
  PROVE CoveredInv'
<1> USE SystemTaskAssumption DEF IInv, TypeOK, CoveredInv
<1>1. RunningIsCovered'
  BY DEF ExpireDelete, rows, RunningIsCovered, ExpiredNotRunning, RowsOK
<1>2. ClaimIsNew'
  BY DEF ExpireDelete, Goto, rows, ClaimIsNew, Ended, Claiming
<1>3. ClaimHasLock'
  BY DEF ExpireDelete, Goto, rows, ClaimHasLock, Lease, InHand, RowsOK, PassOK,
      Claiming
<1>4. ExpiredNotRunning'
  <2>1. \A ty \in Types : lock'[ty] = lock[ty] \/ lock'[ty] = NoLock
    BY DEF ExpireDelete
  <2> QED
    BY <2>1, LockShrinks DEF ExpireDelete, Goto, PassOK, Claiming
<1> QED
  BY <1>1, <1>2, <1>3, <1>4

(* The cleanup ends.                                                       *)
LEMMA ExpireEndCovered ==
  ASSUME CoveredInv, IInv', SlowClaims = {},
         NEW r \in Runners, ExpireEnd(r)
  PROVE CoveredInv'
<1> USE SystemTaskAssumption DEF IInv, TypeOK, CoveredInv
<1> QED
  BY OutsideClaimCovered DEF ExpireEnd, Goto, PassOK, Claiming

(* The scheduler finds the types that are due.                             *)
LEMMA SchedReadCovered ==
  ASSUME CoveredInv, IInv', SlowClaims = {},
         NEW r \in Runners, SchedRead(r)
  PROVE CoveredInv'
<1> USE SystemTaskAssumption DEF IInv, TypeOK, CoveredInv
<1> QED
  BY OutsideClaimCovered DEF SchedRead, Goto, Claiming

(* No scheduling in this pass.                                             *)
LEMMA SchedSkipCovered ==
  ASSUME CoveredInv, IInv', SlowClaims = {},
         NEW r \in Runners, SchedSkip(r)
  PROVE CoveredInv'
<1> USE SystemTaskAssumption DEF IInv, TypeOK, CoveredInv
<1> QED
  BY OutsideClaimCovered DEF SchedSkip, Goto, pass, Claiming

(* The scheduler inserts a row; the index keeps the type unique.           *)
LEMMA SchedCreateCovered ==
  ASSUME CoveredInv, IInv', SlowClaims = {},
         NEW r \in Runners, SchedCreate(r)
  PROVE CoveredInv'
<1> USE SystemTaskAssumption DEF IInv, TypeOK, CoveredInv
<1>1. RunningIsCovered'
  BY DEF SchedCreate, InsertRow, rows, RunningIsCovered, RowsOK
<1>2. ClaimIsNew'
  BY DEF SchedCreate, InsertRow, Fresh, rows, ClaimIsNew, Ended, RowsOK,
      Claiming, PCs, EndStatuses
<1>3. ClaimHasLock'
  <2>1. \A u \in TaskIds : status[u] # "none" => type'[u] = type[u]
    BY DEF SchedCreate, InsertRow, Fresh, rows, RowsOK
  <2> QED
    BY <2>1 DEF SchedCreate, ClaimHasLock, InHand, Lease, Claiming
<1>4. ExpiredNotRunning'
  BY DEF SchedCreate, InsertRow, rows, ExpiredNotRunning, InHand, RowsOK,
      LockRows, ActiveStatuses
<1> QED
  BY <1>1, <1>2, <1>3, <1>4

(* The scheduler ends.                                                     *)
LEMMA SchedEndCovered ==
  ASSUME CoveredInv, IInv', SlowClaims = {},
         NEW r \in Runners, SchedEnd(r)
  PROVE CoveredInv'
<1> USE SystemTaskAssumption DEF IInv, TypeOK, CoveredInv
<1> QED
  BY OutsideClaimCovered DEF SchedEnd, Goto, pass, Claiming

(* The claim pass reads the pending rows.                                  *)
LEMMA FindPendingCovered ==
  ASSUME CoveredInv, IInv', SlowClaims = {},
         NEW r \in Runners, FindPending(r)
  PROVE CoveredInv'
<1> USE SystemTaskAssumption DEF IInv, TypeOK, CoveredInv
<1> QED
  BY OutsideClaimCovered DEF FindPending, Goto, PassOK, Claiming

(* A claim begins with a row that is pending now, later than every other claim. *)
LEMMA ClaimReadCovered ==
  ASSUME CoveredInv, IInv', SlowClaims = {},
         NEW r \in Runners, ClaimRead(r)
  PROVE CoveredInv'
<1> USE SystemTaskAssumption DEF IInv, TypeOK, CoveredInv
<1>1. RunningIsCovered'
  BY DEF ClaimRead, rows, RunningIsCovered
<1>2. ClaimIsNew'
  BY DEF ClaimRead, Goto, rows, ClaimIsNew, Ended, PassOK, Claiming, PassPCs,
      PCs, ActiveStatuses, EndStatuses
<1>3. ClaimHasLock'
  BY DEF ClaimRead, Goto, rows, ClaimHasLock, Lease, PassOK
<1>4. ExpiredNotRunning'
  BY DEF ClaimRead, Goto, rows, ExpiredNotRunning, PassOK
<1> QED
  BY <1>1, <1>2, <1>3, <1>4

(* The claim pass ends.                                                    *)
LEMMA ClaimEndCovered ==
  ASSUME CoveredInv, IInv', SlowClaims = {},
         NEW r \in Runners, ClaimEnd(r)
  PROVE CoveredInv'
<1> USE SystemTaskAssumption DEF IInv, TypeOK, CoveredInv
<1> QED
  BY OutsideClaimCovered DEF ClaimEnd, Goto, Claiming

(* A claim inserts its lock where there was none.                          *)
LEMMA AcquireInsertCovered ==
  ASSUME CoveredInv, IInv', SlowClaims = {},
         NEW r \in Runners, AcquireInsert(r)
  PROVE CoveredInv'
<1> USE SystemTaskAssumption DEF IInv, TypeOK, CoveredInv
<1>1. RunningIsCovered'
  <2>1. \A ty \in Types : lock'[ty] = lock[ty] \/ lock[ty] = NoLock
    BY DEF AcquireInsert, LockOK
  <2> QED
    BY <2>1, NoLockFacts DEF AcquireInsert, rows, RunningIsCovered, RowsOK
<1>2. ClaimIsNew'
  BY DEF AcquireInsert, Goto, rows, pass, ClaimIsNew, Ended, PassOK, Claiming
<1>3. ClaimHasLock'
  BY DEF AcquireInsert, Lease, Goto, rows, pass, ClaimHasLock, InHand, RowsOK,
      LockOK, PassOK, NoLock, Claiming
<1>4. ExpiredNotRunning'
  BY DEF AcquireInsert, Lease, Goto, rows, pass, ExpiredNotRunning,
      ClaimHasLock, InHand, RowsOK, LockOK, PassOK, Claiming, PassPCs, PCs,
      ActiveStatuses, EndStatuses
<1> QED
  BY <1>1, <1>2, <1>3, <1>4

(* A claim finds an expired lock, on its own row or on an ended one.       *)
LEMMA AcquireInspectCovered ==
  ASSUME CoveredInv, IInv', SlowClaims = {},
         NEW r \in Runners, AcquireInspect(r)
  PROVE CoveredInv'
<1> USE SystemTaskAssumption DEF IInv, TypeOK, CoveredInv
<1>1. RunningIsCovered'
  BY DEF AcquireInspect, rows, RunningIsCovered
<1>2. ClaimIsNew'
  BY DEF AcquireInspect, NextClaim, Goto, rows, ClaimIsNew, Ended, PassOK,
      Claiming, PassPCs, PCs
<1>3. ClaimHasLock'
  BY DEF AcquireInspect, NextClaim, Goto, rows, ClaimHasLock, Lease, PassOK,
      Claiming
<1>4. ExpiredNotRunning'
  BY DEF AcquireInspect, NextClaim, Goto, rows, ExpiredNotRunning, PassOK,
      Claiming
<1> QED
  BY <1>1, <1>2, <1>3, <1>4

(* A claim takes an expired lock over.                                     *)
LEMMA AcquireStealCovered ==
  ASSUME CoveredInv, IInv', SlowClaims = {},
         NEW r \in Runners, AcquireSteal(r)
  PROVE CoveredInv'
<1> USE SystemTaskAssumption DEF IInv, TypeOK, CoveredInv
<1>1. RunningIsCovered'
  <2>1. \A ty \in Types : \/ lock'[ty] = lock[ty]
                          \/ ty = type[cur[r]] /\ StealHits(r)
    BY DEF AcquireSteal, LockOK
  <2>2. StealHits(r) => status[lock[type[cur[r]]].task] # "running"
    BY DEF AcquireSteal, StealHits, ExpiredNotRunning, OlderLockEnded, Ended, EndStatuses, Claiming
  <2> QED
    BY <2>1, <2>2 DEF AcquireSteal, rows, RunningIsCovered, RowsOK
<1>2. ClaimIsNew'
  <2>1. \A q \in Runners : pc'[q] \in Claiming => pc[q] \in Claiming /\ cur'[q] = cur[q]
    BY DEF AcquireSteal, NextClaim, Goto, PassOK, Claiming
  <2> QED
    BY <2>1 DEF AcquireSteal, rows, ClaimIsNew, Ended
<1>3. ClaimHasLock'
  <2>1. /\ clock \in Nat /\ TTL \in Nat
        /\ \A q \in Runners : now[q] \in Nat /\ now[q] <= clock
    BY DEF RowsOK, PassOK, InHand
  <2>2. \A ty \in Types : \/ lock'[ty] = lock[ty]
                          \/ lock'[ty] = Lease(r) /\ ty = type[cur[r]] /\ StealHits(r)
    BY DEF AcquireSteal, LockOK
  <2>3. \A q \in Runners \ {r} :
           pc[q] \in {"mark", "cas"} /\ StealHits(r) => type[cur[q]] # type[cur[r]]
    <3>1. SUFFICES ASSUME NEW q \in Runners \ {r}, pc[q] \in {"mark", "cas"},
                          StealHits(r), type[cur[q]] = type[cur[r]]
                   PROVE FALSE
      OBVIOUS
    <3>2. lock[type[cur[r]]] = Lease(q) /\ clock <= now[q] + TTL
      BY <3>1 DEF ClaimHasLock, Claiming
    <3>3. Lease(q).until = now[q] + TTL /\ Lease(q).until < now[r]
      BY <3>1, <3>2 DEF Lease, StealHits
    <3> QED
      BY <2>1, <3>2, <3>3
  <2>4. \A q \in Runners \ {r} : pc'[q] = pc[q] /\ now'[q] = now[q] /\ cur'[q] = cur[q]
    BY DEF AcquireSteal, NextClaim, Goto, PassOK
  <2>5. \/ pc'[r] = "claim"
        \/ /\ pc'[r] \in Claiming /\ now'[r] = now[r] /\ cur'[r] = cur[r]
           /\ lock'[type[cur[r]]] = Lease(r)
    BY DEF AcquireSteal, NextClaim, Goto, PassOK, Claiming, LockOK, InHand, RowsOK
  <2>6. clock' = clock /\ type' = type /\ pc[r] \in Claiming
    BY DEF AcquireSteal, rows, Claiming
  <2>7. \A q \in Runners : pc[q] \in Claiming => type[cur[q]] \in Types
    BY DEF InHand, RowsOK
  <2> QED
    BY <2>2, <2>3, <2>4, <2>5, <2>6, <2>7 DEF ClaimHasLock, Lease, Claiming
<1>4. ExpiredNotRunning'
  <2>1. \A ty \in Types : \/ lock'[ty] = lock[ty]
                          \/ lock'[ty] = Lease(r)
    BY DEF AcquireSteal, LockOK
  <2>2. Lease(r).until >= clock /\ clock \in Nat /\ Lease(r).until \in Nat /\ \A q \in Runners : now[q] <= clock /\ now[q] \in Nat
    BY DEF AcquireSteal, ClaimHasLock, Claiming, InHand, Lease, PassOK, RowsOK
  <2>3. \A q \in Runners \ {r} : pc'[q] = pc[q] /\ now'[q] = now[q] /\ cur'[q] = cur[q] /\ seen'[q] = seen[q]
    BY DEF AcquireSteal, NextClaim, Goto, PassOK
  <2>4. pc'[r] = "claim" \/ (pc'[r] \in Claiming \ {"delete"} /\ now'[r] = now[r] /\ cur'[r] = cur[r])
    BY DEF AcquireSteal, NextClaim, Goto, PassOK, Claiming
  <2>5. rows' = rows /\ pc[r] \in Claiming /\ \A q \in Runners : pc[q] \in Claiming => type[cur[q]] \in Types
    BY DEF AcquireSteal, Claiming, InHand, RowsOK, rows
  <2> QED
    BY <2>1, <2>2, <2>3, <2>4, <2>5 DEF rows, ExpiredNotRunning, Claiming
<1> QED
  BY <1>1, <1>2, <1>3, <1>4

(* The row of the old lock is failed.                                      *)
LEMMA ClaimMarkCovered ==
  ASSUME CoveredInv, IInv', SlowClaims = {},
         NEW r \in Runners, ClaimMark(r)
  PROVE CoveredInv'
<1> USE SystemTaskAssumption DEF IInv, TypeOK, CoveredInv
<1>1. RunningIsCovered'
  BY DEF ClaimMark, MarkLeaseExpired, rows, RunningIsCovered, RowsOK
<1>2. ClaimIsNew'
  <2>1. \A t \in TaskIds : status'[t] = status[t] \/ (status[t] = "running" /\ status'[t] = "failed")
    BY DEF ClaimMark, MarkLeaseExpired, rows, RowsOK
  <2>2. \A q \in Runners : pc'[q] \in Claiming => pc[q] \in Claiming
    BY DEF ClaimMark, Goto, PassOK, Claiming
  <2>3. UNCHANGED <<lockedBy, cur, handler>>
    BY DEF ClaimMark, MarkLeaseExpired, rows, pass
  <2> QED
    BY <2>1, <2>2, <2>3 DEF ClaimIsNew, Ended, EndStatuses
<1>3. ClaimHasLock'
  BY DEF ClaimMark, MarkLeaseExpired, Goto, rows, pass, ClaimHasLock, Lease,
      PassOK, Claiming
<1>4. ExpiredNotRunning'
  BY DEF ClaimMark, MarkLeaseExpired, Goto, rows, pass, ExpiredNotRunning,
      InHand, RowsOK, PassOK, LockRows, Claiming
<1> QED
  BY <1>1, <1>2, <1>3, <1>4

(* The claimed row starts, if it is still pending.                         *)
LEMMA ClaimCasCovered ==
  ASSUME CoveredInv, IInv', SlowClaims = {},
         NEW r \in Runners, ClaimCas(r)
  PROVE CoveredInv'
<1> USE SystemTaskAssumption DEF IInv, TypeOK, CoveredInv
<1>1. RunningIsCovered'
  <2>1. lock[type[cur[r]]] = Lease(r) /\ cur[r] \in TaskIds
    BY DEF ClaimCas, ClaimHasLock, Claiming, InHand
  <2>2. lock' = lock /\ type' = type
    BY DEF ClaimCas
  <2>3. \A t \in TaskIds : \/ status'[t] = status[t] /\ lockedBy'[t] = lockedBy[t]
                           \/ t = cur[r] /\ lockedBy'[t] = r
    BY <2>1 DEF ClaimCas, RowsOK
  <2> QED
    BY <2>1, <2>2, <2>3 DEF RunningIsCovered, Lease
<1>2. ClaimIsNew'
  <2>1. cur[r] \in TaskIds
    BY DEF ClaimCas, Claiming, InHand
  <2>2. \A q \in Runners \ {r} : pc'[q] = pc[q] /\ cur'[q] = cur[q]
    BY DEF ClaimCas, NextClaim, Goto, PassOK
  <2>3. \/ pc'[r] = "claim"
        \/ pc'[r] = "giveup" /\ cur'[r] = cur[r] /\ lockedBy' = lockedBy
    BY DEF ClaimCas, NextClaim, Goto, PassOK
  <2>4. \A t \in TaskIds : \/ status'[t] = status[t] /\ lockedBy'[t] = lockedBy[t]
                           \/ t = cur[r] /\ status'[t] = "running" /\ status[t] = "pending" /\ lockedBy'[t] = r
    BY <2>1 DEF ClaimCas, CasHits, RowsOK
  <2>5. \A q \in Runners, t \in TaskIds : handler'[q][t] = handler[q][t] \/ handler'[q][t] = "running"
    BY <2>1 DEF ClaimCas, HandlerOK
  <2>6. \A q \in Runners : pc'[q] \in Claiming => lockedBy'[cur'[q]] # q
    BY <2>1, <2>2, <2>3, <2>4 DEF ClaimIsNew, InHand, Claiming, ClaimCas
  <2>7. \A q \in Runners, t \in TaskIds : handler'[q][t] = "finished" => Ended(t)'
    BY <2>4, <2>5 DEF ClaimIsNew, Ended, EndStatuses
  <2> QED
    BY <2>4, <2>6, <2>7 DEF ClaimIsNew
<1>3. ClaimHasLock'
  BY DEF ClaimCas, NextClaim, Goto, ClaimHasLock, Lease, PassOK, Claiming
<1>4. ExpiredNotRunning'
  <2>1. lock[type[cur[r]]] = Lease(r) /\ cur[r] \in TaskIds /\ Lease(r).until >= clock
    BY DEF ClaimCas, ClaimHasLock, Claiming, InHand, Lease
  <2>2. lock' = lock /\ type' = type
    BY DEF ClaimCas
  <2>3. \A t \in TaskIds : status'[t] = status[t] \/ t = cur[r]
    BY <2>1 DEF ClaimCas, RowsOK
  <2>4. \A q \in Runners \ {r} : pc'[q] = pc[q] /\ now'[q] = now[q] /\ cur'[q] = cur[q] /\ seen'[q] = seen[q]
    BY DEF ClaimCas, NextClaim, Goto, PassOK
  <2>5. pc'[r] = "claim" \/ (pc'[r] = "giveup" /\ now'[r] = now[r] /\ cur'[r] = cur[r] /\ status' = status)
    BY DEF ClaimCas, NextClaim, Goto, PassOK
  <2>6. \A ty \in Types : lock[ty].task = cur[r] => lock[ty] = Lease(r)
    BY <2>1, NoLockFacts DEF LockTyped, LockOK
  <2>7. clock \in Nat /\ Lease(r).until \in Nat /\ \A q \in Runners : now[q] <= clock /\ now[q] \in Nat
    BY DEF InHand, Lease, PassOK, RowsOK
  <2>8. \A q \in Runners : (pc[q] = "delete" => seen[q].task \in TaskIds) /\ (pc[q] \in Claiming => cur[q] \in TaskIds /\ type[cur[q]] \in Types)
    BY NoLockFacts DEF InHand, RowsOK
  <2> QED
    BY <2>1, <2>2, <2>3, <2>4, <2>5, <2>6, <2>7, <2>8 DEF ExpiredNotRunning, Claiming, ClaimCas
<1> QED
  BY <1>1, <1>2, <1>3, <1>4

(* A claim releases its lock.                                              *)
LEMMA ClaimGiveUpCovered ==
  ASSUME CoveredInv, IInv', SlowClaims = {},
         NEW r \in Runners, ClaimGiveUp(r)
  PROVE CoveredInv'
<1> USE SystemTaskAssumption DEF IInv, TypeOK, CoveredInv
<1>1. RunningIsCovered'
  <2>1. \A ty \in Types : lock'[ty] = lock[ty] \/ (lock[ty].task = cur[r] /\ lock[ty].by = r)
    BY DEF ClaimGiveUp, ReleaseLock
  <2> QED
    BY <2>1 DEF ClaimGiveUp, rows, RunningIsCovered, ClaimIsNew, Claiming, RowsOK
<1>2. ClaimIsNew'
  BY DEF ClaimGiveUp, NextClaim, Goto, rows, ClaimIsNew, Ended, PassOK,
      Claiming
<1>3. ClaimHasLock'
  BY DEF ClaimGiveUp, ReleaseLock, NextClaim, Goto, rows, ClaimHasLock, Lease,
      InHand, RowsOK, PassOK, Claiming
<1>4. ExpiredNotRunning'
  <2>1. \A ty \in Types : lock'[ty] = lock[ty] \/ lock'[ty] = NoLock
    BY DEF ClaimGiveUp, ReleaseLock
  <2> QED
    BY <2>1, LockShrinks DEF CoveredInv, IInv, TypeOK, ClaimGiveUp, NextClaim, Goto, PassOK, Claiming
<1> QED
  BY <1>1, <1>2, <1>3, <1>4

(* A runner dies.                                                          *)
LEMMA CrashCovered ==
  ASSUME CoveredInv, IInv', SlowClaims = {},
         NEW r \in Runners, Crash(r)
  PROVE CoveredInv'
<1> USE SystemTaskAssumption DEF IInv, TypeOK, CoveredInv
<1>1. RunningIsCovered'
  BY DEF Crash, rows, RunningIsCovered
<1>2. ClaimIsNew'
  BY DEF Crash, Goto, rows, ClaimIsNew, Ended, PassOK, Claiming
<1>3. ClaimHasLock'
  BY DEF Crash, Goto, rows, ClaimHasLock, Lease, PassOK, Claiming
<1>4. ExpiredNotRunning'
  BY DEF Crash, Goto, rows, ExpiredNotRunning, PassOK, Claiming
<1> QED
  BY <1>1, <1>2, <1>3, <1>4

(* The API inserts a row; the index keeps the type unique.                 *)
LEMMA EnqueueCovered ==
  ASSUME CoveredInv, IInv', SlowClaims = {},
         NEW ty \in Types, Enqueue(ty)
  PROVE CoveredInv'
<1> USE SystemTaskAssumption DEF IInv, TypeOK, CoveredInv
<1>1. RunningIsCovered'
  BY DEF Enqueue, Fresh, InsertRow, RunningIsCovered
<1>2. ClaimIsNew'
  BY DEF Enqueue, Fresh, InsertRow, pass, ClaimIsNew, HandlerClaimed, Ended
<1>3. ClaimHasLock'
  BY DEF Enqueue, Fresh, InsertRow, pass, ClaimHasLock, Lease, InHand, Claiming
<1>4. ExpiredNotRunning'
  BY DEF Enqueue, Fresh, InsertRow, pass, ExpiredNotRunning
<1> QED
  BY <1>1, <1>2, <1>3, <1>4

(* The heartbeat reads the time.                                           *)
LEMMA BeatCovered ==
  ASSUME CoveredInv, IInv', SlowClaims = {},
         NEW r \in Runners, NEW t \in TaskIds, Beat(r, t)
  PROVE CoveredInv'
<1> USE DEF CoveredInv
<1>1. RunningIsCovered' /\ ClaimIsNew' /\ ClaimHasLock' /\ ExpiredNotRunning'
  BY DEF Beat, rows, pass, RunningIsCovered, ClaimIsNew, ClaimHasLock, Lease,
      ExpiredNotRunning, Ended
<1> QED
  BY <1>1

(* A renewal replaces the lock by one of the same task and runner that     *)
(* ends no earlier.                                                        *)
Extended(r, t) ==
  \A ty \in Types :
     \/ lock'[ty] = lock[ty]
     \/ /\ ty = type[t]
        /\ lock[ty].task = t /\ lock[ty].by = r
        /\ lock'[ty].task = t /\ lock'[ty].by = r
        /\ lock[ty].until <= lock'[ty].until
        /\ lock[ty].until \in Int /\ lock'[ty].until \in Int

LEMMA RenewExtends ==
  ASSUME IInv, NEW r \in Runners, NEW t \in TaskIds, Renew(r, t)
  PROVE  Extended(r, t)
<1> USE SystemTaskAssumption DEF IInv, TypeOK
<1>1. beat[r][t] \in Nat /\ type[t] \in Types
  BY DEF Renew, HandlerOK, RowsOK
<1>2. /\ lock[type[t]].task = t /\ lock[type[t]].by = r
      /\ lock[type[t]].until <= beat[r][t] + TTL
  BY DEF Renew, LeaseAt, BeatFresh
<1>3. lock[type[t]].until \in Int
  BY <1>1, NoLockFacts DEF LockOK, NoLock
<1> QED
  BY <1>1, <1>2, <1>3 DEF Renew, LockOK, Extended

(* The heartbeat extends a lease that had not run out.                     *)
LEMMA RenewCovered ==
  ASSUME CoveredInv, IInv', SlowClaims = {},
         NEW r \in Runners, NEW t \in TaskIds, Renew(r, t)
  PROVE CoveredInv'
<1> USE SystemTaskAssumption DEF IInv, TypeOK, CoveredInv
<1>0. Extended(r, t)
  BY RenewExtends
<1>1. ClaimIsNew'
  BY DEF Renew, rows, pass, ClaimIsNew, Ended
<1>2. RunningIsCovered'
  BY <1>0 DEF Renew, rows, RunningIsCovered, RowsOK, Extended
<1>3. ClaimHasLock'
  <2>1. handler[r][t] # "none"
    BY DEF Renew, BeatFresh
  <2>2. \A q \in Runners : pc[q] \in {"mark", "cas"} =>
           lock'[type[cur[q]]] = lock[type[cur[q]]]
    <3>1. SUFFICES ASSUME NEW q \in Runners, pc[q] \in {"mark", "cas"},
                          lock'[type[cur[q]]] # lock[type[cur[q]]]
                   PROVE  FALSE
      OBVIOUS
    <3>2. pc[q] \in Claiming /\ cur[q] \in TaskIds /\ type[cur[q]] \in Types
      BY <3>1 DEF Claiming, InHand, RowsOK
    <3>3. lock[type[cur[q]]].task = cur[q] /\ lock[type[cur[q]]].by = q
      <4>1. lock[type[cur[q]]] = Lease(q)
        BY <3>1 DEF ClaimHasLock
      <4> QED
        BY <4>1 DEF Lease
    <3>4. cur[q] = t /\ q = r
      BY <1>0, <3>1, <3>2, <3>3 DEF Extended
    <3> QED
      BY <2>1, <3>2, <3>4 DEF BeatFresh
  <2> QED
    BY <2>2 DEF Renew, rows, pass, ClaimHasLock, Lease
<1>4. ExpiredNotRunning'
  <2>1. \A q \in Runners : /\ now[q] \in Nat
                           /\ pc[q] \in Claiming => type[cur[q]] \in Types
    BY DEF InHand, RowsOK, PassOK
  <2> QED
    BY <1>0, <2>1 DEF Extended, Renew, rows, pass, ExpiredNotRunning
<1> QED
  BY <1>1, <1>2, <1>3, <1>4

(* The heartbeat fails and cancels the handler.                            *)
LEMMA RenewFailsCovered ==
  ASSUME CoveredInv, IInv', SlowClaims = {},
         NEW r \in Runners, NEW t \in TaskIds, RenewFails(r, t)
  PROVE CoveredInv'
<1> USE SystemTaskAssumption DEF IInv, TypeOK, CoveredInv
<1>1. RunningIsCovered' /\ ClaimHasLock' /\ ExpiredNotRunning'
  BY DEF RenewFails, rows, pass, RunningIsCovered, ClaimHasLock, Lease,
      ExpiredNotRunning
<1>2. ClaimIsNew'
  BY DEF RenewFails, SetHandler, rows, pass, ClaimIsNew, Ended, HandlerOK
<1> QED
  BY <1>1, <1>2

(* A handler saves its outcome under its lease.                            *)
LEMMA FinishCovered ==
  ASSUME CoveredInv, IInv', SlowClaims = {},
         NEW r \in Runners, NEW t \in TaskIds, Finish(r, t)
  PROVE CoveredInv'
<1> USE SystemTaskAssumption DEF IInv, TypeOK, CoveredInv
<1>1. RunningIsCovered'
  BY DEF Finish, SaveOutcome, RunningIsCovered
<1>2. ClaimIsNew'
  BY DEF Finish, SaveOutcome, SetHandler, pass, ClaimIsNew, HandlerClaimed,
      Ended, RowsOK
<1>3. ClaimHasLock'
  BY DEF Finish, SaveOutcome, pass, ClaimHasLock, Lease
<1>4. ExpiredNotRunning'
  BY DEF Finish, SaveOutcome, pass, ExpiredNotRunning
<1> QED
  BY <1>1, <1>2, <1>3, <1>4

(* A handler returns without an outcome.                                   *)
LEMMA LeaseLostCovered ==
  ASSUME CoveredInv, IInv', SlowClaims = {},
         NEW r \in Runners, NEW t \in TaskIds, LeaseLost(r, t)
  PROVE CoveredInv'
<1> USE SystemTaskAssumption DEF IInv, TypeOK, CoveredInv
<1>1. RunningIsCovered' /\ ClaimHasLock' /\ ExpiredNotRunning'
  BY DEF LeaseLost, rows, pass, RunningIsCovered, ClaimHasLock, Lease,
      ExpiredNotRunning
<1>2. ClaimIsNew'
  BY DEF LeaseLost, SetHandler, rows, pass, ClaimIsNew, Ended
<1> QED
  BY <1>1, <1>2

(* A finished handler releases its lock.                                   *)
LEMMA FinishReleaseCovered ==
  ASSUME CoveredInv, IInv', SlowClaims = {},
         NEW r \in Runners, NEW t \in TaskIds, FinishRelease(r, t)
  PROVE CoveredInv'
<1> USE SystemTaskAssumption DEF IInv, TypeOK, CoveredInv
<1>1. RunningIsCovered'
  <2>1. \A ty \in Types : lock'[ty] = lock[ty] \/ lock[ty].task = t
    BY DEF FinishRelease, ReleaseLock
  <2>2. status[t] # "running"
    BY DEF FinishRelease, ClaimIsNew, Ended, EndStatuses
  <2> QED
    BY <2>1, <2>2 DEF FinishRelease, rows, RunningIsCovered, RowsOK
<1>2. ClaimIsNew'
  BY DEF FinishRelease, SetHandler, rows, pass, ClaimIsNew, Ended
<1>3. ClaimHasLock'
  BY DEF FinishRelease, ReleaseLock, rows, pass, ClaimHasLock, ClaimIsNew,
      HandlerClaimed, Lease, InHand, RowsOK, Claiming
<1>4. ExpiredNotRunning'
  <2>1. \A ty \in Types : lock'[ty] = lock[ty] \/ lock'[ty] = NoLock
    BY DEF FinishRelease, ReleaseLock
  <2> QED
    BY <2>1, LockShrinks DEF FinishRelease, pass
<1> QED
  BY <1>1, <1>2, <1>3, <1>4

(* Time passes.                                                            *)
LEMMA TickCovered ==
  ASSUME CoveredInv, IInv', SlowClaims = {},
         Tick
  PROVE CoveredInv'
<1> USE SystemTaskAssumption DEF IInv, TypeOK, CoveredInv
<1>1. RunningIsCovered' /\ ClaimIsNew' /\ ExpiredNotRunning'
  BY DEF Tick, rows, pass, RunningIsCovered, ClaimIsNew, Ended,
      ExpiredNotRunning
<1>2. ClaimHasLock'
  BY DEF Tick, rows, pass, ClaimHasLock, Lease, RowsOK, PassOK
<1> QED
  BY <1>1, <1>2

-----------------------------------------------------------------------------
(* Nothing is locked or running at the start.                              *)
LEMMA InitCovered == Init => CoveredInv
<1> SUFFICES ASSUME Init PROVE CoveredInv
  OBVIOUS
<1>1. IInv
  BY InitOK
<1>2. RunningIsCovered /\ ClaimIsNew
  BY SystemTaskAssumption DEF Init, RunningIsCovered, ClaimIsNew, Claiming
<1>3. ClaimHasLock /\ ExpiredNotRunning
  BY DEF Init, ClaimHasLock, ExpiredNotRunning, Claiming
<1> QED
  BY <1>1, <1>2, <1>3 DEF CoveredInv

(* Every step preserves the invariant when no claim outlasts its lease.    *)
LEMMA NextCovered ==
  ASSUME SlowClaims = {}, CoveredInv, [Next]_vars
  PROVE  CoveredInv'
<1>1. IInv'
  BY NextOK DEF CoveredInv
<1>2. CASE UNCHANGED vars
  BY <1>1, <1>2 DEF vars, rows, pass, CoveredInv, RunningIsCovered, ClaimIsNew,
     ClaimHasLock, ExpiredNotRunning, Ended, Lease
<1>3. ASSUME NEW ty \in Types, Enqueue(ty) PROVE CoveredInv'
  BY <1>1, <1>3, EnqueueCovered
<1>4. ASSUME NEW r \in Runners, ExpireStale(r) PROVE CoveredInv'
  BY <1>1, <1>4, ExpireReadCovered, ExpireSkipCovered, ExpireMarkCovered,
     ExpireDeleteCovered, ExpireEndCovered DEF ExpireStale
<1>5. ASSUME NEW r \in Runners, Scheduler(r) PROVE CoveredInv'
  BY <1>1, <1>5, SchedReadCovered, SchedSkipCovered, SchedCreateCovered,
     SchedEndCovered DEF Scheduler
<1>6. ASSUME NEW r \in Runners, ClaimPass(r) PROVE CoveredInv'
  BY <1>1, <1>6, FindPendingCovered, ClaimReadCovered, ClaimEndCovered,
     AcquireInsertCovered, AcquireInspectCovered, AcquireStealCovered,
     ClaimMarkCovered, ClaimCasCovered, ClaimGiveUpCovered DEF ClaimPass
<1>7. ASSUME NEW r \in Runners, Crash(r) PROVE CoveredInv'
  BY <1>1, <1>7, CrashCovered
<1>8. ASSUME NEW r \in Runners, NEW t \in TaskIds, HandlerStep(r, t) PROVE CoveredInv'
  BY <1>1, <1>8, BeatCovered, RenewCovered, RenewFailsCovered, FinishCovered,
     LeaseLostCovered, FinishReleaseCovered DEF HandlerStep, RenewEnds
<1>9. CASE Tick
  BY <1>1, <1>9, TickCovered
<1> QED
  BY <1>2, <1>3, <1>4, <1>5, <1>6, <1>7, <1>8, <1>9 DEF Next, Loop

(* When every claim is shorter than its lease, each running row keeps the  *)
(* lock row from which ExpireStaleSystemTaskLocks finds it, whichever      *)
(* statements fail and wherever runners die.                               *)
THEOREM Covered ==
  ASSUME SlowClaims = {}
  PROVE  Spec => []RunningIsCovered
<1>1. CoveredInv /\ [Next]_vars => CoveredInv'
  BY NextCovered
<1>2. CoveredInv => RunningIsCovered
  BY DEF CoveredInv
<1> QED
  BY <1>1, <1>2, InitCovered, PTL DEF Spec

-----------------------------------------------------------------------------
(* A step that writes no lock row, sends no renewal and takes no time.     *)
LEMMA PromptKept ==
  ASSUME IInv, BeatPrompt, clock' = clock,
         \A t \in TaskIds : status[t] # "none" => type'[t] = type[t],
         \A ty \in Types : lock'[ty] = lock[ty] \/ lock'[ty] = NoLock,
         \A q \in Runners, t \in TaskIds : beat'[q][t] \in {beat[q][t], NoBeat}
  PROVE BeatPrompt'
<1> USE DEF IInv, TypeOK
<1>1. SUFFICES ASSUME NEW r \in Runners \ SlowHandlers, NEW t \in TaskIds, BeatPending(r, t)'
               PROVE  clock' <= lock'[type'[t]].until
  BY DEF BeatPrompt
<1>2. beat'[r][t] = beat[r][t] /\ beat[r][t] # NoBeat
  BY <1>1 DEF BeatPending
<1>3. type'[t] = type[t] /\ type[t] \in Types
  BY <1>2 DEF BeatFresh, HandlerClaimed, RowsOK
<1>4. lock'[type[t]] = lock[type[t]]
  BY <1>1, <1>3, NoLockFacts DEF BeatPending, LeaseAt
<1> QED
  BY <1>1, <1>2, <1>3, <1>4 DEF BeatPrompt, BeatPending, LeaseAt

(* The loop of a runner: a claim has no renewal in flight for its row.     *)
LEMMA LoopKeepsPrompt ==
  ASSUME IInv, BeatPrompt, NEW r \in Runners, Loop(r) \/ Crash(r)
  PROVE  BeatPrompt'
<1> USE DEF IInv, TypeOK
<1>1. CASE ExpireStale(r)
  BY <1>1, PromptKept DEF ExpireStale, ExpireRead, ExpireSkip, ExpireMark, ExpireDelete,
     ExpireEnd, MarkLeaseExpired, rows
<1>2. CASE Scheduler(r)
  BY <1>2, PromptKept DEF Scheduler, SchedRead, SchedSkip, SchedCreate, SchedEnd,
     InsertRow, Fresh, rows, RowsOK
<1>3. CASE FindPending(r) \/ ClaimRead(r) \/ ClaimEnd(r) \/ AcquireInspect(r)
  BY <1>3, PromptKept DEF FindPending, ClaimRead, ClaimEnd, AcquireInspect, rows
<1>4. CASE ClaimMark(r) \/ ClaimCas(r) \/ ClaimGiveUp(r)
  BY <1>4, PromptKept DEF ClaimMark, ClaimCas, ClaimGiveUp, MarkLeaseExpired, ReleaseLock, rows
<1>5. CASE Crash(r)
  BY <1>5, PromptKept DEF Crash, rows, HandlerOK
<1>6. CASE AcquireInsert(r) \/ AcquireSteal(r)
  <2>1. UNCHANGED <<clock, type, beat>> /\ UNCHANGED rows
    BY <1>6 DEF AcquireInsert, AcquireSteal, rows
  <2>2. beat[r][cur[r]] = NoBeat
    BY <1>6 DEF AcquireInsert, AcquireSteal, BeatFresh, InHand, Claiming
  <2>3. \A ty \in Types : lock'[ty] = lock[ty] \/ lock'[ty] = Lease(r)
    BY <1>6 DEF AcquireInsert, AcquireSteal, LockOK
  <2>4. Lease(r).task = cur[r] /\ Lease(r).by = r
    BY DEF Lease
  <2> QED
    BY <2>1, <2>2, <2>3, <2>4 DEF BeatPrompt, BeatPending, LeaseAt, RowsOK
<1> QED
  BY <1>1, <1>2, <1>3, <1>4, <1>5, <1>6 DEF Loop, ClaimPass

(* The handlers: a renewal reads the present time and, when it has reached *)
(* the lock, is not in flight any more.                                    *)
LEMMA HandlerKeepsPrompt ==
  ASSUME IInv, BeatPrompt, NEW r \in Runners, NEW t \in TaskIds, HandlerStep(r, t)
  PROVE  BeatPrompt'
<1> USE DEF IInv, TypeOK
<1>1. CASE Beat(r, t)
  BY <1>1 DEF Beat, SetBeat, rows, BeatPrompt, BeatPending, LeaseAt, HandlerOK
<1>2. CASE Renew(r, t)
  <2>1. Extended(r, t)
    BY <1>2, RenewExtends
  <2>2. \A q \in Runners, u \in TaskIds :
           beat'[q][u] # NoBeat => beat'[q][u] = beat[q][u] /\ (q # r \/ u # t)
    BY <1>2 DEF Renew, SetBeat, HandlerOK
  <2>3. UNCHANGED <<clock, type>>
    BY <1>2 DEF Renew, rows
  <2> QED
    BY <2>1, <2>2, <2>3 DEF Extended, BeatPrompt, BeatPending, LeaseAt, RowsOK
<1>3. CASE RenewFails(r, t)
  BY <1>3, PromptKept DEF RenewFails, SetBeat, rows, HandlerOK
<1>4. CASE Finish(r, t) \/ LeaseLost(r, t) \/ FinishRelease(r, t)
  BY <1>4, PromptKept DEF Finish, SaveOutcome, LeaseLost, FinishRelease, ReleaseLock, rows
<1> QED
  BY <1>1, <1>2, <1>3, <1>4 DEF HandlerStep, RenewEnds

(* A renewal that is not slow finds a lease that has not run out yet.      *)
LEMMA BeatPromptStep ==
  ASSUME IInv, BeatPrompt, [Next]_vars
  PROVE  BeatPrompt'
<1> USE DEF IInv, TypeOK
<1>1. CASE UNCHANGED vars
  BY <1>1 DEF vars, rows, BeatPrompt, BeatPending, LeaseAt
<1>2. ASSUME NEW ty \in Types, Enqueue(ty) PROVE BeatPrompt'
  BY <1>2, PromptKept DEF Enqueue, InsertRow, Fresh
<1>3. CASE Tick
  <2>1. \A t \in TaskIds : lock[type[t]].until \in Int
    BY NoLockFacts DEF LockOK, RowsOK, NoLock
  <2> QED
    BY <1>3, <2>1 DEF Tick, rows, BeatPrompt, BeatPending, LeaseAt, RowsOK
<1> QED
  BY <1>1, <1>2, <1>3, LoopKeepsPrompt, HandlerKeepsPrompt DEF Next

(* A row that is running after a step was running before it, under the     *)
(* same lock unless its own runner has just renewed it; or it has just     *)
(* been claimed.                                                           *)
RunningKept ==
  \A t \in TaskIds :
     status'[t] = "running" =>
        \/ /\ status[t] = "running" /\ type'[t] = type[t] /\ updatedAt'[t] = updatedAt[t]
           /\ lockedBy'[t] = lockedBy[t]
           /\ \/ lock'[type[t]] = lock[type[t]] \/ lock[type[t]].until >= clock
              \/ lockedBy[t] \in SlowHandlers
        \/ clock <= updatedAt'[t] + TTL

(* A runner that is cleaning up after a step was doing so before it, with  *)
(* the same timestamp and no lock row more.                                *)
CleanupKept(q) ==
  pc'[q] \in {"expire", "delete"} =>
     /\ pc[q] \in {"expire", "delete"} /\ now'[q] = now[q]
     /\ stale'[q] \subseteq stale[q]

(* The loop of a runner leaves the cleanups of the others alone, and all   *)
(* of its steps but ExpireRead keep its own.                               *)
LEMMA LoopKeepsCleanup ==
  ASSUME TypeOK, NEW r \in Runners, Loop(r) \/ Crash(r)
  PROVE  /\ \A q \in Runners \ {r} : CleanupKept(q)
         /\ ExpireRead(r) \/ CleanupKept(r)
<1> USE DEF TypeOK, PassOK, CleanupKept, Goto
<1>1. CASE ExpireStale(r)
  BY <1>1 DEF ExpireStale, ExpireRead, ExpireSkip, ExpireMark, ExpireDelete, ExpireEnd, pass
<1>2. CASE Scheduler(r)
  BY <1>2 DEF Scheduler, SchedRead, SchedSkip, SchedCreate, SchedEnd, pass
<1>3. CASE FindPending(r) \/ ClaimRead(r) \/ ClaimEnd(r)
  BY <1>3 DEF FindPending, ClaimRead, ClaimEnd
<1>4. CASE AcquireInsert(r) \/ AcquireInspect(r) \/ AcquireSteal(r)
  BY <1>4 DEF AcquireInsert, AcquireInspect, AcquireSteal, NextClaim, pass
<1>5. CASE ClaimMark(r) \/ ClaimCas(r) \/ ClaimGiveUp(r)
  BY <1>5 DEF ClaimMark, ClaimCas, ClaimGiveUp, NextClaim, pass
<1>6. CASE Crash(r)
  BY <1>6 DEF Crash
<1> QED
  BY <1>1, <1>2, <1>3, <1>4, <1>5, <1>6 DEF Loop, ClaimPass

(* A step that leaves the rows alone, or ends running rows, or inserts one,*)
(* and leaves the locks alone.                                             *)
LEMMA SameLockKept ==
  ASSUME CoveredInv, lock' = lock,
         \/ UNCHANGED rows
         \/ \E t \in TaskIds, ty \in Types : Fresh(t) /\ InsertRow(t, ty)
         \/ \E t \in TaskIds : MarkLeaseExpired(t)
         \/ \E t \in TaskIds, r \in Runners, o \in EndStatuses : SaveOutcome(t, r, o)
  PROVE  RunningKept
<1> USE DEF CoveredInv, IInv, TypeOK, RowsOK, RunningKept
<1>1. CASE UNCHANGED rows
  BY <1>1 DEF rows
<1>2. ASSUME NEW t \in TaskIds, NEW ty \in Types, InsertRow(t, ty) PROVE RunningKept
  BY <1>2 DEF InsertRow
<1>3. ASSUME NEW t \in TaskIds, MarkLeaseExpired(t) PROVE RunningKept
  BY <1>3 DEF MarkLeaseExpired, rows
<1>4. ASSUME NEW t \in TaskIds, NEW r \in Runners, NEW o \in EndStatuses, SaveOutcome(t, r, o)
      PROVE  RunningKept
  BY <1>4 DEF SaveOutcome, EndStatuses
<1> QED
  BY <1>1, <1>2, <1>3, <1>4

(* A step that leaves the rows alone and changes only locks that are not   *)
(* the lock of a running row.                                              *)
LEMMA SameRowsKept ==
  ASSUME CoveredInv, CoveredInv', UNCHANGED rows,
         \A ty \in Types : \/ lock'[ty] = lock[ty] \/ lock'[ty] = NoLock
                           \/ lock[ty] = NoLock
                           \/ status[lock[ty].task] # "running"
  PROVE  RunningKept
<1> USE DEF CoveredInv, IInv, TypeOK, RowsOK
<1>1. \A t \in TaskIds : status[t] = "running" => lock'[type[t]] = lock[type[t]]
  BY NoLockFacts DEF rows, RunningIsCovered
<1> QED
  BY <1>1 DEF RunningKept, rows

(* The runner's loop: a claim inserts or takes over locks that belong to   *)
(* no running row, and starts its row before its lease has run out.        *)
LEMMA LoopKeepsRunning ==
  ASSUME CoveredInv, CoveredInv', NEW r \in Runners, Loop(r) \/ Crash(r)
  PROVE  RunningKept
<1> USE DEF CoveredInv, IInv, TypeOK, PassOK
<1>1. CASE ExpireMark(r)
  <2>1. PICK l \in stale[r] : MarkLeaseExpired(l.task)
    BY <1>1 DEF ExpireMark
  <2>2. l.task \in TaskIds
    BY <2>1, NoLockFacts
  <2> QED
    BY <1>1, <2>1, <2>2, SameLockKept DEF ExpireMark
<1>2. CASE ExpireDelete(r)
  <2>1. UNCHANGED rows
    BY <1>2 DEF ExpireDelete
  <2>2. \A ty \in Types : lock'[ty] = lock[ty] \/ lock'[ty] = NoLock
    BY <1>2 DEF ExpireDelete
  <2> QED
    BY <2>1, <2>2, SameRowsKept
<1>3. CASE ExpireRead(r) \/ ExpireSkip(r) \/ ExpireEnd(r)
  BY <1>3, SameLockKept DEF ExpireRead, ExpireSkip, ExpireEnd
<1>4. CASE SchedCreate(r)
  <2>1. PICK ty \in due[r] :
           \/ \E t \in TaskIds : Fresh(t) /\ InsertRow(t, ty)
           \/ UNCHANGED rows
    BY <1>4 DEF SchedCreate
  <2>2. ty \in Types
    BY <2>1, SystemTaskAssumption
  <2> QED
    BY <1>4, <2>1, <2>2, SameLockKept DEF SchedCreate
<1>5. CASE SchedRead(r) \/ SchedSkip(r) \/ SchedEnd(r)
  BY <1>5, SameLockKept DEF SchedRead, SchedSkip, SchedEnd
<1>6. CASE FindPending(r) \/ ClaimRead(r) \/ ClaimEnd(r) \/ AcquireInspect(r)
  BY <1>6, SameLockKept DEF FindPending, ClaimRead, ClaimEnd, AcquireInspect
<1>7. CASE AcquireInsert(r)
  <2>1. UNCHANGED rows
    BY <1>7 DEF AcquireInsert
  <2>2. \A ty \in Types : lock'[ty] = lock[ty] \/ lock[ty] = NoLock
    BY <1>7 DEF AcquireInsert, LockOK
  <2> QED
    BY <2>1, <2>2, SameRowsKept
<1>8. CASE AcquireSteal(r)
  <2>1. UNCHANGED rows
    BY <1>8 DEF AcquireSteal
  <2>2. \A ty \in Types : \/ lock'[ty] = lock[ty]
                          \/ ty = type[cur[r]] /\ StealHits(r)
    BY <1>8 DEF AcquireSteal, LockOK
  <2>3. StealHits(r) => status[lock[type[cur[r]]].task] # "running"
    BY <1>8 DEF AcquireSteal, StealHits, ExpiredNotRunning, OlderLockEnded, Ended,
       EndStatuses, Claiming
  <2> QED
    BY <2>1, <2>2, <2>3, SameRowsKept
<1>9. CASE ClaimMark(r)
  <2>1. seen[r].task \in TaskIds
    BY <1>9, NoLockFacts DEF ClaimMark, InHand
  <2> QED
    BY <1>9, <2>1, SameLockKept DEF ClaimMark
<1>10. CASE ClaimCas(r)
  <2>1. clock <= now[r] + TTL
    BY <1>10 DEF ClaimCas, ClaimHasLock, Claiming
  <2> QED
    BY <1>10, <2>1 DEF ClaimCas, RunningKept, RowsOK
<1>11. CASE ClaimGiveUp(r)
  <2>1. UNCHANGED rows
    BY <1>11 DEF ClaimGiveUp
  <2>2. \A ty \in Types : lock'[ty] = lock[ty] \/ lock'[ty] = NoLock
    BY <1>11 DEF ClaimGiveUp, ReleaseLock
  <2> QED
    BY <2>1, <2>2, SameRowsKept
<1>12. CASE Crash(r)
  BY <1>12, SameLockKept DEF Crash
<1> QED
  BY <1>1, <1>2, <1>3, <1>4, <1>5, <1>6, <1>7, <1>8, <1>9, <1>10, <1>11, <1>12
     DEF Loop, ExpireStale, Scheduler, ClaimPass

(* The handlers: a heartbeat only extends a lease that has not run out.    *)
LEMMA HandlerKeepsRunning ==
  ASSUME CoveredInv, CoveredInv', BeatPrompt, NEW r \in Runners, NEW t \in TaskIds, HandlerStep(r, t)
  PROVE  RunningKept
<1> USE DEF CoveredInv, IInv, TypeOK
<1>1. CASE Renew(r, t)
  <2>1. UNCHANGED rows /\ Extended(r, t)
    BY <1>1, RenewExtends DEF Renew
  <2>2. r \notin SlowHandlers => clock <= lock[type[t]].until
    BY <1>1 DEF Renew, BeatPrompt, BeatPending
  <2>3. lock[type[t]].until \in Int /\ clock \in Nat
    BY NoLockFacts DEF LockOK, RowsOK, NoLock
  <2>4. \A u \in TaskIds : status[u] = "running" /\ lock'[type[u]] # lock[type[u]]
           => u = t /\ lockedBy[u] = r
    BY <2>1 DEF Extended, RunningIsCovered, RowsOK
  <2> QED
    BY <2>1, <2>2, <2>3, <2>4 DEF RunningKept, rows, RowsOK
<1>2. CASE Beat(r, t) \/ RenewFails(r, t) \/ LeaseLost(r, t)
  BY <1>2, SameLockKept DEF Beat, RenewFails, LeaseLost
<1>3. CASE Finish(r, t)
  BY <1>3, SameLockKept DEF Finish
<1>4. CASE FinishRelease(r, t)
  <2>1. UNCHANGED rows
    BY <1>4 DEF FinishRelease
  <2>2. \A ty \in Types : lock'[ty] = lock[ty] \/ lock'[ty] = NoLock
    BY <1>4 DEF FinishRelease, ReleaseLock
  <2> QED
    BY <2>1, <2>2, SameRowsKept
<1> QED
  BY <1>1, <1>2, <1>3, <1>4 DEF HandlerStep, RenewEnds

(* What StaleStaysExpired says of one lock row in a cleanup's hands.       *)
StaysExpired(q, l) ==
  /\ l.until < now[q]
  /\ /\ status[l.task] = "running"
     /\ updatedAt[l.task] + TTL < now[q]
     => /\ l.by = lockedBy[l.task]
        /\ \/ lockedBy[l.task] \in SlowHandlers
           \/ lock[type[l.task]].until < now[q]

(* A cleanup that goes on keeps what it knows of the locks it read.        *)
LEMMA CleanupGoesOn ==
  ASSUME CoveredInv, CoveredInv', RunningKept, NEW q \in Runners, CleanupKept(q),
         StaleStaysExpired, pc'[q] \in {"expire", "delete"}, NEW l \in stale'[q]
  PROVE  StaysExpired(q, l)'
<1> USE SystemTaskAssumption DEF CoveredInv, IInv, TypeOK, RowsOK, PassOK
<1>1. l \in stale[q] /\ now'[q] = now[q] /\ l.task \in TaskIds
  BY NoLockFacts DEF CleanupKept
<1>2. StaysExpired(q, l)
  BY <1>1 DEF StaleStaysExpired, StaysExpired, CleanupKept
<1>3. SUFFICES ASSUME status'[l.task] = "running",
                      updatedAt'[l.task] + TTL < now'[q]
               PROVE  /\ l.by = lockedBy'[l.task]
                      /\ \/ lockedBy'[l.task] \in SlowHandlers
                         \/ lock'[type'[l.task]].until < now'[q]
  BY <1>1, <1>2 DEF StaysExpired
<1>4. now[q] <= clock /\ clock \in Nat /\ now[q] \in Nat /\ updatedAt'[l.task] \in Nat
  BY <1>1 DEF InHand
<1>5. /\ status[l.task] = "running" /\ type'[l.task] = type[l.task]
      /\ updatedAt'[l.task] = updatedAt[l.task] /\ lockedBy'[l.task] = lockedBy[l.task]
      /\ \/ lock'[type[l.task]] = lock[type[l.task]]
         \/ lock[type[l.task]].until >= clock
         \/ lockedBy[l.task] \in SlowHandlers
  BY <1>1, <1>3, <1>4 DEF RunningKept
<1>6. lock[type[l.task]].until \in Int
  BY <1>1, NoLockFacts DEF LockOK, NoLock
<1> QED
  BY <1>1, <1>2, <1>3, <1>4, <1>5, <1>6 DEF StaysExpired

(* The locks the cleanup reads have expired; by RunningIsCovered each is   *)
(* the lock of its row's type and runner when the row is running.          *)
LEMMA CleanupBegins ==
  ASSUME CoveredInv, NEW r \in Runners, ExpireRead(r), NEW l \in stale'[r]
  PROVE  StaysExpired(r, l)'
<1> USE DEF CoveredInv, IInv, TypeOK, RowsOK, PassOK
<1>1. /\ status' = status /\ type' = type /\ lock' = lock /\ lockedBy' = lockedBy
      /\ now'[r] = clock /\ stale'[r] = Expired
  BY DEF ExpireRead, rows
<1>2. PICK ty \in Types : lock[ty] # NoLock /\ lock[ty].until < clock /\ l = lock[ty]
  BY <1>1 DEF Expired
<1>3. type[l.task] = ty /\ l.task \in TaskIds
  BY <1>2, NoLockFacts DEF LockTyped, LockOK
<1> QED
  BY <1>1, <1>2, <1>3 DEF StaysExpired, RunningIsCovered

(* Every step preserves what the cleanups know.                            *)
LEMMA StaleStep ==
  ASSUME SlowClaims = {}, CoveredInv, BeatPrompt, StaleStaysExpired, [Next]_vars
  PROVE  StaleStaysExpired'
<1>1. CoveredInv'
  BY NextCovered
<1>2. CASE UNCHANGED vars
  BY <1>2 DEF vars, rows, pass, StaleStaysExpired
<1>3. ASSUME NEW r \in Runners, Loop(r) \/ Crash(r) PROVE StaleStaysExpired'
  <2>1. RunningKept
    BY <1>1, <1>3, LoopKeepsRunning
  <2>2. \A q \in Runners : CleanupKept(q) \/ (q = r /\ ExpireRead(r))
    BY <1>3, LoopKeepsCleanup DEF CoveredInv, IInv
  <2> QED
    BY <1>1, <2>1, <2>2, CleanupGoesOn, CleanupBegins DEF StaleStaysExpired, StaysExpired
<1>4. ASSUME RunningKept, UNCHANGED <<pc, pass>> PROVE StaleStaysExpired'
  <2>1. \A q \in Runners : CleanupKept(q)
    BY <1>4 DEF CleanupKept, pass
  <2> QED
    BY <1>1, <1>4, <2>1, CleanupGoesOn DEF StaleStaysExpired, StaysExpired
<1>5. ASSUME NEW ty \in Types, Enqueue(ty) PROVE StaleStaysExpired'
  <2>1. RunningKept
    BY <1>5, SameLockKept DEF Enqueue
  <2> QED
    BY <1>4, <1>5, <2>1 DEF Enqueue
<1>6. ASSUME NEW r \in Runners, NEW t \in TaskIds, HandlerStep(r, t) PROVE StaleStaysExpired'
  <2>1. RunningKept
    BY <1>1, <1>6, HandlerKeepsRunning
  <2> QED
    BY <1>4, <1>6, <2>1 DEF HandlerStep, RenewEnds, Beat, Renew, RenewFails, Finish, LeaseLost, FinishRelease
<1>7. CASE Tick
  <2>1. RunningKept
    BY <1>7, SameLockKept DEF Tick
  <2> QED
    BY <1>4, <1>7, <2>1 DEF Tick
<1> QED
  BY <1>2, <1>3, <1>5, <1>6, <1>7 DEF Next

-----------------------------------------------------------------------------
(* What LeaseProtects says of one step.                                    *)
Protected(t) ==
  /\ status[t] = "running"
  /\ HoldsLease(t, lockedBy[t])
  /\ status'[t] # "running"
  => \/ \E r \in Runners : r = lockedBy[t] /\ handler'[r][t] = "finished"
     \/ \E r \in Runners :
           /\ pc[r] = "expire" /\ pc'[r] = "delete"
           /\ seen'[r].task = t
           /\ \/ now[r] <= updatedAt[t] + TTL
              \/ /\ lockedBy[t] \in SlowHandlers
                 /\ seen'[r].by = lockedBy[t]
                 /\ seen'[r].until < now[r]

(* A cleanup fails no row under a live lease but one that was claimed too  *)
(* late for it.                                                            *)
LEMMA CleanupProtects ==
  ASSUME CoveredInv, StaleStaysExpired, NEW r \in Runners, ExpireMark(r), NEW t \in TaskIds
  PROVE  Protected(t)
<1> USE SystemTaskAssumption DEF CoveredInv, IInv, TypeOK, RowsOK, PassOK
<1>1. SUFFICES ASSUME status[t] = "running", HoldsLease(t, lockedBy[t]), status'[t] # "running"
               PROVE  /\ pc[r] = "expire" /\ pc'[r] = "delete"
                      /\ seen'[r].task = t
                      /\ \/ now[r] <= updatedAt[t] + TTL
                         \/ /\ lockedBy[t] \in SlowHandlers
                            /\ seen'[r].by = lockedBy[t]
                            /\ seen'[r].until < now[r]
  BY DEF Protected
<1>2. PICK l \in stale[r] : seen' = [seen EXCEPT ![r] = l] /\ MarkLeaseExpired(l.task)
  BY DEF ExpireMark
<1>3. l.task = t
  BY <1>1, <1>2 DEF MarkLeaseExpired, rows
<1>4. pc[r] = "expire" /\ pc'[r] = "delete" /\ seen'[r].task = t
  BY <1>2, <1>3 DEF ExpireMark, Goto
<1>5. /\ now[r] <= clock /\ clock \in Nat /\ now[r] \in Nat /\ updatedAt[t] \in Nat
      /\ lock[type[t]].until >= clock
  BY <1>1 DEF InHand, HoldsLease, LeaseAt
<1>6. lock[type[t]].until \in Int
  BY NoLockFacts DEF LockOK, NoLock
<1>7. /\ seen'[r] = l /\ l.until < now[r]
      /\ updatedAt[t] + TTL < now[r] =>
            /\ l.by = lockedBy[t]
            /\ lockedBy[t] \in SlowHandlers \/ lock[type[t]].until < now[r]
  BY <1>1, <1>2, <1>3, <1>4 DEF StaleStaysExpired
<1> QED
  BY <1>4, <1>5, <1>6, <1>7

(* A claim fails no running row: the row of the lock it took over has      *)
(* ended, or is its own, which nobody else has claimed.                    *)
LEMMA ClaimProtects ==
  ASSUME CoveredInv, NEW r \in Runners, ClaimMark(r), NEW t \in TaskIds
  PROVE  status[t] = "running" => status'[t] = "running"
<1> USE DEF CoveredInv, IInv, TypeOK, RowsOK
<1>1. cur[r] \in TaskIds /\ lock[type[cur[r]]] = Lease(r) /\ lockedBy[cur[r]] # r
  BY DEF ClaimMark, InHand, ClaimHasLock, ClaimIsNew, Claiming
<1>2. status[cur[r]] # "running"
  BY <1>1 DEF RunningIsCovered, Lease
<1>3. status[seen[r].task] # "running"
  BY <1>2 DEF ClaimMark, StolenTaskEnded, EndStatuses
<1> QED
  BY <1>3 DEF ClaimMark, MarkLeaseExpired, rows

(* All the other steps leave running rows running, or are the handler's.   *)
LEMMA StepProtects ==
  ASSUME CoveredInv, StaleStaysExpired, Next, NEW t \in TaskIds
  PROVE  Protected(t)
<1> USE DEF CoveredInv, IInv, TypeOK, RowsOK, Protected
<1>1. ASSUME NEW r \in Runners, ExpireStale(r) PROVE Protected(t)
  BY <1>1, CleanupProtects DEF ExpireStale, ExpireRead, ExpireSkip, ExpireDelete, ExpireEnd, rows
<1>2. ASSUME NEW r \in Runners, Scheduler(r) PROVE Protected(t)
  BY <1>2 DEF Scheduler, SchedRead, SchedSkip, SchedCreate, SchedEnd, InsertRow, Fresh, rows
<1>3. ASSUME NEW r \in Runners, ClaimPass(r) PROVE Protected(t)
  <2>1. CASE ClaimMark(r)
    BY <2>1, ClaimProtects
  <2>2. CASE ClaimCas(r)
    BY <2>2 DEF ClaimCas
  <2>3. CASE UNCHANGED rows
    BY <2>3 DEF rows
  <2> QED
    BY <1>3, <2>1, <2>2, <2>3 DEF ClaimPass, FindPending, ClaimRead, ClaimEnd,
       AcquireInsert, AcquireInspect, AcquireSteal, ClaimGiveUp
<1>4. ASSUME NEW r \in Runners, Crash(r) PROVE Protected(t)
  BY <1>4 DEF Crash, rows
<1>5. ASSUME NEW ty \in Types, Enqueue(ty) PROVE Protected(t)
  BY <1>5 DEF Enqueue, InsertRow, Fresh
<1>6. ASSUME NEW r \in Runners, NEW u \in TaskIds, HandlerStep(r, u) PROVE Protected(t)
  <2>1. CASE Finish(r, u)
    BY <2>1 DEF Finish, SaveOutcome, SetHandler, HandlerOK
  <2>2. CASE UNCHANGED rows
    BY <2>2 DEF rows
  <2> QED
    BY <1>6, <2>1, <2>2 DEF HandlerStep, RenewEnds, Beat, Renew, RenewFails, LeaseLost,
       FinishRelease
<1>7. CASE Tick
  BY <1>7 DEF Tick, rows
<1> QED
  BY <1>1, <1>2, <1>3, <1>4, <1>5, <1>6, <1>7 DEF Next, Loop

(* When every claim is shorter than its lease, a row under a live lease is *)
(* ended by its own handler and by nobody else, but for a cleanup that     *)
(* read an abandoned lock of the row before its claim was over, or that    *)
(* read this runner's lock as run out while a renewal of it was stalled:   *)
(* apart from these, RenewSystemTaskLock protects a handler of any length. *)
THEOREM LeaseRespected ==
  ASSUME SlowClaims = {}
  PROVE  Spec => LeaseProtects
<1>1. Init => LeaseInv
  BY InitCovered DEF Init, LeaseInv, StaleStaysExpired, BeatPrompt, BeatPending
<1>2. LeaseInv /\ [Next]_vars => LeaseInv'
  BY NextCovered, BeatPromptStep, StaleStep DEF LeaseInv, CoveredInv
<1>3. LeaseInv /\ [Next]_vars => [\A t \in TaskIds : Protected(t)]_vars
  BY StepProtects DEF LeaseInv
<1>4. Spec => [][\A t \in TaskIds : Protected(t)]_vars
  BY <1>1, <1>2, <1>3, PTL DEF Spec
<1> QED
  BY <1>4 DEF LeaseProtects, Protected
=============================================================================
