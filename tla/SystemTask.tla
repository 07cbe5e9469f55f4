----------------------------- MODULE SystemTask -----------------------------
(***************************************************************************)
(* The background-task runner: model/system_task.go (the two tables        *)
(* system_tasks and system_task_locks and the SQL statements on them) and  *)
(* service/system_task.go (the runner loop, the scheduler, the claim pass  *)
(* and the lease heartbeat).                                               *)
(*                                                                         *)
(* Several master nodes run the loop of StartSystemTaskRunner on one       *)
(* database.  Every SQL statement is a step of its own, so the statements  *)
(* of two runners interleave freely; a claimed task runs in a goroutine    *)
(* with its own heartbeat, beside the loop that claimed it.                *)
(***************************************************************************)
EXTENDS Integers, FiniteSets

CONSTANTS
    Runners,        \* runner IDs; a restarted node draws a fresh one
    NoRunner,       \* the empty locked_by column
    Types,          \* task types with a registered handler
    Scheduled,      \* the enabled ScheduledSystemTaskHandlers among them
    MaxTasks,       \* bound: rows that are ever created
    Horizon,        \* bound: no lease is granted or renewed after this time
    TTL,            \* systemTaskLockTTL
    Interval,       \* ScheduledSystemTaskHandler.Interval()
    Fallible,       \* SQL statements that may return an error
    CrashPoints,    \* places of the loop at which a runner may die
    SlowClaims,     \* runners that may outlast their lease inside a claim
    SlowHandlers    \* runners whose handlers' statements may reach the
                    \* database after the lease they are about has run out

TaskIds == 1 .. MaxTasks

(* After Horizon every lease runs out.                                     *)
MaxClock == Horizon + TTL + 1

Statements == {"expire-mark", "expire-delete", "claim-read", "acquire",
               "claim-mark", "cas", "reread", "release", "renew", "finish"}

PassPCs == {"idle", "expire", "delete", "sched", "create", "find", "claim"}
Claiming == {"acquire", "inspect", "steal", "mark", "cas", "giveup"}
PCs == PassPCs \cup Claiming \cup {"down"}

ASSUME SystemTaskAssumption ==
    /\ NoRunner \notin Runners
    /\ Scheduled \subseteq Types
    /\ MaxTasks \in Nat
    /\ Horizon \in Nat
    /\ TTL \in Nat
    /\ Interval \in Nat
    /\ Fallible \subseteq Statements
    /\ CrashPoints \subseteq PCs
    /\ SlowClaims \subseteq Runners
    /\ SlowHandlers \subseteq Runners

VARIABLES
    clock,      \* common.GetTimestamp(), the same on every node
    status,     \* system_tasks.status of each row, "none" before the insert
    type,       \* system_tasks.type
    activeKey,  \* system_tasks.active_key: "set" (to the type) or "nil"
    lockedBy,   \* system_tasks.locked_by
    updatedAt,  \* system_tasks.updated_at
    lock,       \* system_task_locks: the row of each type, or NoLock
    pc,         \* where each runner's loop stands
    now,        \* the timestamp the step in progress read at its start
    stale,      \* ExpireStaleSystemTaskLocks: the rows read and not done yet
    seen,       \* the lock row in hand (being expired, or found by acquire)
    due,        \* the scheduler: types found due and not created yet
    todo,       \* the claim pass: pending rows read and not tried yet
    cur,        \* the row being claimed
    handler,    \* the goroutine of runWithLeaseHeartbeat of each runner and row
    beat        \* its renewal in flight: the time it read, or NoBeat

rows == <<status, type, activeKey, lockedBy, updatedAt>>
pass == <<now, stale, seen, due, todo, cur>>
vars == <<clock, rows, lock, pc, pass, handler, beat>>

NoLock == [task |-> 0, by |-> NoRunner, until |-> 0]
NoBeat == -1
LockRows == [task : TaskIds, by : Runners, until : Int]

ActiveStatuses == {"pending", "running"}
EndStatuses == {"succeeded", "failed"}

Init ==
    /\ clock = 0
    /\ status = [t \in TaskIds |-> "none"]
    /\ type \in {[t \in TaskIds |-> ty] : ty \in Types}
    /\ activeKey = [t \in TaskIds |-> "nil"]
    /\ lockedBy = [t \in TaskIds |-> NoRunner]
    /\ updatedAt = [t \in TaskIds |-> 0]
    /\ lock = [ty \in Types |-> NoLock]
    /\ pc = [r \in Runners |-> "idle"]
    /\ now = [r \in Runners |-> 0]
    /\ stale = [r \in Runners |-> {}]
    /\ seen = [r \in Runners |-> NoLock]
    /\ due = [r \in Runners |-> {}]
    /\ todo = [r \in Runners |-> {}]
    /\ cur = [r \in Runners |-> 0]
    /\ handler = [r \in Runners |-> [t \in TaskIds |-> "none"]]
    /\ beat = [r \in Runners |-> [t \in TaskIds |-> NoBeat]]

Goto(r, label) == pc' = [pc EXCEPT ![r] = label]

-----------------------------------------------------------------------------
(* Statements on the two tables.                                           *)

(* Mutant: the table without the unique index.                             *)
KeyFreeNoIndex(ty) == TRUE

(* The index on active_key refuses a second active row of a type.          *)
KeyFree(ty) ==
    \A u \in TaskIds : type[u] = ty => activeKey[u] = "nil"

(* The row the next insert gets.                                           *)
Fresh(t) ==
    /\ status[t] = "none"
    /\ \A u \in TaskIds : u < t => status[u] # "none"

(* CreateSystemTask: a pending row with the type as its active key.        *)
InsertRow(t, ty) ==
    /\ status' = [status EXCEPT ![t] = "pending"]
    /\ type' = [type EXCEPT ![t] = ty]
    /\ activeKey' = [activeKey EXCEPT ![t] = "set"]
    /\ updatedAt' = [updatedAt EXCEPT ![t] = clock]
    /\ UNCHANGED lockedBy

(* Mutant: the active key is not cleared.                                  *)
MarkKeepsKey(t) ==
    IF status[t] = "running"
      THEN /\ status' = [status EXCEPT ![t] = "failed"]
           /\ updatedAt' = [updatedAt EXCEPT ![t] = clock]
           /\ UNCHANGED <<type, activeKey, lockedBy>>
      ELSE UNCHANGED rows

(* Mutant: the statement matches pending rows instead of running ones.     *)
MarkPending(t) ==
    IF status[t] = "pending"
      THEN /\ status' = [status EXCEPT ![t] = "failed"]
           /\ activeKey' = [activeKey EXCEPT ![t] = "nil"]
           /\ updatedAt' = [updatedAt EXCEPT ![t] = clock]
           /\ UNCHANGED <<type, lockedBy>>
      ELSE UNCHANGED rows

(* MarkSystemTaskLeaseExpired: fails the row if it is running, whoever     *)
(* runs it.                                                                *)
MarkLeaseExpired(t) ==
    IF status[t] = "running"
      THEN /\ status' = [status EXCEPT ![t] = "failed"]
           /\ activeKey' = [activeKey EXCEPT ![t] = "nil"]
           /\ updatedAt' = [updatedAt EXCEPT ![t] = clock]
           /\ UNCHANGED <<type, lockedBy>>
      ELSE UNCHANGED rows

(* ReleaseSystemTaskLock: deletes the lock row of this task and runner.    *)
ReleaseLock(t, r) ==
    lock' = [ty \in Types |->
               IF lock[ty].task = t /\ lock[ty].by = r THEN NoLock
               ELSE lock[ty]]

(* The lease r needs to renew, to save progress and to finish: a lock row  *)
(* of this task and runner that had not run out at time n.  The statements *)
(* are sent with the time read before them.                                *)
LeaseAt(t, r, n) ==
    /\ lock[type[t]].task = t
    /\ lock[type[t]].by = r
    /\ lock[type[t]].until >= n
HoldsLease(t, r) == LeaseAt(t, r, clock)

-----------------------------------------------------------------------------
(* On demand: EnqueueSystemTask and StartLogCleanupTask on any node.  Both *)
(* look for an active row first, which can only return early.              *)
Enqueue(ty) ==
    /\ KeyFree(ty)
    /\ \E t \in TaskIds : Fresh(t) /\ InsertRow(t, ty)
    /\ UNCHANGED <<clock, lock, pc, pass, handler, beat>>

-----------------------------------------------------------------------------
(* The pass of a runner, first part: ExpireStaleSystemTaskLocks.           *)

(* Mutant: a lease that ends now counts as expired.                        *)
ExpiredEarly ==
    {lock[ty] : ty \in {x \in Types : lock[x] # NoLock /\ lock[x].until <= clock}}

(* The lock rows the cleanup reads.                                        *)
Expired ==
    {lock[ty] : ty \in {x \in Types : lock[x] # NoLock /\ lock[x].until < clock}}

ExpireRead(r) ==
    /\ pc[r] = "idle"
    /\ now' = [now EXCEPT ![r] = clock]
    /\ stale' = [stale EXCEPT ![r] = Expired]
    /\ Goto(r, "expire")
    /\ UNCHANGED <<clock, rows, lock, seen, due, todo, cur, handler, beat>>

(* The cleanup is throttled (systemTaskStaleLockInterval), and so not part *)
(* of every pass; or its first query failed.                               *)
ExpireSkip(r) ==
    /\ pc[r] = "idle"
    /\ Goto(r, "sched")
    /\ UNCHANGED <<clock, rows, lock, pass, handler, beat>>

(* The next lock row read as expired: its task is failed.                  *)
ExpireMark(r) ==
    /\ pc[r] = "expire"
    /\ \E l \in stale[r] :
          /\ stale' = [stale EXCEPT ![r] = @ \ {l}]
          /\ seen' = [seen EXCEPT ![r] = l]
          /\ MarkLeaseExpired(l.task)
    /\ Goto(r, "delete")
    /\ UNCHANGED <<clock, lock, now, due, todo, cur, handler, beat>>

(* Then the lock row is deleted, if it is still the row that was read.     *)
ExpireDelete(r) ==
    /\ pc[r] = "delete"
    /\ lock' = [ty \in Types |->
                  IF /\ lock[ty].task = seen[r].task
                     /\ lock[ty].by = seen[r].by
                     /\ lock[ty].until < now[r]
                    THEN NoLock ELSE lock[ty]]
    /\ seen' = [seen EXCEPT ![r] = NoLock]
    /\ Goto(r, "expire")
    /\ UNCHANGED <<clock, rows, now, stale, due, todo, cur, handler, beat>>

(* The end of the list, or a statement that failed: the loop goes on with  *)
(* the scheduler.                                                          *)
ExpireEnd(r) ==
    /\ \/ pc[r] = "expire" /\ stale[r] = {}
       \/ pc[r] = "expire" /\ stale[r] # {} /\ "expire-mark" \in Fallible
       \/ pc[r] = "delete" /\ "expire-delete" \in Fallible
    /\ stale' = [stale EXCEPT ![r] = {}]
    /\ seen' = [seen EXCEPT ![r] = NoLock]
    /\ now' = [now EXCEPT ![r] = 0]
    /\ Goto(r, "sched")
    /\ UNCHANGED <<clock, rows, lock, due, todo, cur, handler, beat>>

-----------------------------------------------------------------------------
(* Second part: runSystemTaskScheduler.                                    *)

(* GetLatestSystemTasks and the two tests on its rows: the latest row of   *)
(* the type, if there is one, has ended and is Interval old.               *)
IsDue(ty) ==
    \A t \in TaskIds :
        (/\ type[t] = ty
         /\ status[t] # "none"
         /\ \A u \in TaskIds : u > t /\ type[u] = ty => status[u] = "none")
        => (status[t] \in EndStatuses /\ clock - updatedAt[t] >= Interval)

SchedRead(r) ==
    /\ pc[r] = "sched"
    /\ due' = [due EXCEPT ![r] = {ty \in Scheduled : IsDue(ty)}]
    /\ Goto(r, "create")
    /\ UNCHANGED <<clock, rows, lock, now, stale, seen, todo, cur, handler, beat>>

(* The scheduler is throttled too (systemTaskSchedulerInterval).           *)
SchedSkip(r) ==
    /\ pc[r] = "sched"
    /\ Goto(r, "find")
    /\ UNCHANGED <<clock, rows, lock, pass, handler, beat>>

(* One insert per due type; the index refuses it when an active row has    *)
(* appeared since the read.                                                *)
SchedCreate(r) ==
    /\ pc[r] = "create"
    /\ \E ty \in due[r] :
          /\ due' = [due EXCEPT ![r] = @ \ {ty}]
          /\ \/ KeyFree(ty) /\ \E t \in TaskIds : Fresh(t) /\ InsertRow(t, ty)
             \/ ~KeyFree(ty) /\ UNCHANGED rows
             \/ (\A t \in TaskIds : ~Fresh(t)) /\ UNCHANGED rows  \* MaxTasks
    /\ UNCHANGED <<clock, lock, pc, now, stale, seen, todo, cur, handler, beat>>

SchedEnd(r) ==
    /\ pc[r] = "create"
    /\ due[r] = {}
    /\ Goto(r, "find")
    /\ UNCHANGED <<clock, rows, lock, pass, handler, beat>>

-----------------------------------------------------------------------------
(* Third part: runSystemTaskClaimPass and ClaimSystemTask.                 *)

(* FindEarliestPendingSystemTasks: the first pending row of each type.     *)
EarliestPending ==
    {t \in TaskIds : /\ status[t] = "pending"
                     /\ \A u \in TaskIds :
                          type[u] = type[t] /\ status[u] = "pending" => t <= u}

FindPending(r) ==
    /\ pc[r] = "find"
    /\ \/ todo' = [todo EXCEPT ![r] = EarliestPending] /\ Goto(r, "claim")
       \/ "claim-read" \in Fallible /\ Goto(r, "idle") /\ UNCHANGED todo
    /\ UNCHANGED <<clock, rows, lock, now, stale, seen, due, cur, handler, beat>>

(* ClaimSystemTask reads the time, then the row if it is still pending.    *)
ClaimRead(r) ==
    /\ pc[r] = "claim"
    /\ clock <= Horizon
    /\ \E t \in todo[r] :
          /\ todo' = [todo EXCEPT ![r] = @ \ {t}]
          /\ \/ /\ status[t] = "pending"
                /\ now' = [now EXCEPT ![r] = clock]
                /\ cur' = [cur EXCEPT ![r] = t]
                /\ Goto(r, "acquire")
             \/ /\ status[t] # "pending" \/ "claim-read" \in Fallible
                /\ UNCHANGED <<now, cur, pc>>
    /\ UNCHANGED <<clock, rows, lock, stale, seen, due, handler, beat>>

ClaimEnd(r) ==
    /\ pc[r] = "claim"
    /\ todo[r] = {} \/ clock > Horizon
    /\ todo' = [todo EXCEPT ![r] = {}]
    /\ Goto(r, "idle")
    /\ UNCHANGED <<clock, rows, lock, now, stale, seen, due, cur, handler, beat>>

(* The claim of cur[r] is over; the pass goes on with the next row.        *)
NextClaim(r) ==
    /\ Goto(r, "claim")
    /\ now' = [now EXCEPT ![r] = 0]
    /\ cur' = [cur EXCEPT ![r] = 0]
    /\ seen' = [seen EXCEPT ![r] = NoLock]

(* The lock row the claim writes; the lease starts when the claim did.     *)
Lease(r) == [task |-> cur[r], by |-> r, until |-> now[r] + TTL]

(* acquireSystemTaskLock, first statement: insert the lock row.            *)
AcquireInsert(r) ==
    /\ pc[r] = "acquire"
    /\ \/ /\ lock[type[cur[r]]] = NoLock
          /\ lock' = [lock EXCEPT ![type[cur[r]]] = Lease(r)]
          /\ Goto(r, "cas")
       \/ /\ lock[type[cur[r]]] # NoLock \/ "acquire" \in Fallible
          /\ Goto(r, "inspect")
          /\ UNCHANGED lock
    /\ UNCHANGED <<clock, rows, pass, handler, beat>>

(* Second statement: read the row that was in the way.                     *)
AcquireInspect(r) ==
    /\ pc[r] = "inspect"
    /\ \/ /\ lock[type[cur[r]]] # NoLock
          /\ lock[type[cur[r]]].until < now[r]
          /\ seen' = [seen EXCEPT ![r] = lock[type[cur[r]]]]
          /\ Goto(r, "steal")
          /\ UNCHANGED <<now, cur>>
       \/ /\ \/ lock[type[cur[r]]] = NoLock
             \/ lock[type[cur[r]]].until >= now[r]
             \/ "acquire" \in Fallible
          /\ NextClaim(r)
    /\ UNCHANGED <<clock, rows, lock, stale, due, todo, handler, beat>>

(* Mutant: the takeover does not check the expiry again.                   *)
StealAny(r) == lock[type[cur[r]]] # NoLock

(* The WHERE clause of the takeover: whatever lock row the type has now,   *)
(* if it has expired.                                                      *)
StealHits(r) ==
    lock[type[cur[r]]] # NoLock /\ lock[type[cur[r]]].until < now[r]

(* Third statement: take the lock over.                                    *)
AcquireSteal(r) ==
    /\ pc[r] = "steal"
    /\ \/ /\ StealHits(r)
          /\ lock' = [lock EXCEPT ![type[cur[r]]] = Lease(r)]
          /\ Goto(r, IF seen[r].task = cur[r] THEN "cas" ELSE "mark")
          /\ UNCHANGED <<now, cur, seen>>
       \/ /\ ~StealHits(r) \/ "acquire" \in Fallible
          /\ NextClaim(r)
          /\ UNCHANGED lock
    /\ UNCHANGED <<clock, rows, stale, due, todo, handler, beat>>

(* The task whose lock was taken over is failed.                           *)
ClaimMark(r) ==
    /\ pc[r] = "mark"
    /\ \/ MarkLeaseExpired(seen[r].task) /\ Goto(r, "cas")
       \/ "claim-mark" \in Fallible /\ Goto(r, "giveup") /\ UNCHANGED rows
    /\ UNCHANGED <<clock, lock, pass, handler, beat>>

(* Mutant: the update is not conditional on the status.                    *)
CasAny(t) == TRUE

(* The status condition of the update of the claimed row.                  *)
CasHits(t) == status[t] = "pending"

(* pending -> running, if the row is still pending.  The row is read again *)
(* and its handler dispatched; when that read fails nothing runs the row.  *)
ClaimCas(r) ==
    /\ pc[r] = "cas"
    /\ \/ /\ CasHits(cur[r])
          /\ status' = [status EXCEPT ![cur[r]] = "running"]
          /\ lockedBy' = [lockedBy EXCEPT ![cur[r]] = r]
          /\ updatedAt' = [updatedAt EXCEPT ![cur[r]] = now[r]]
          /\ NextClaim(r)
          /\ \/ handler' = [handler EXCEPT ![r][cur[r]] = "running"]
             \/ "reread" \in Fallible /\ UNCHANGED handler
       \/ /\ ~CasHits(cur[r]) \/ "cas" \in Fallible
          /\ Goto(r, "giveup")
          /\ UNCHANGED <<status, lockedBy, updatedAt, now, cur, seen, handler>>
    /\ UNCHANGED <<clock, type, activeKey, lock, stale, due, todo, beat>>

(* The lock is released and the claim abandoned.                           *)
ClaimGiveUp(r) ==
    /\ pc[r] = "giveup"
    /\ \/ ReleaseLock(cur[r], r)
       \/ "release" \in Fallible /\ UNCHANGED lock
    /\ NextClaim(r)
    /\ UNCHANGED <<clock, rows, stale, due, todo, handler, beat>>

-----------------------------------------------------------------------------
(* The goroutines of a claimed task: runWithLeaseHeartbeat and the handler.*)
(* "running"   the context is live and the heartbeat renews the lease;     *)
(* "cancelled" a renewal failed: the context is cancelled, no more beats;  *)
(* "finished"  the outcome is saved, the lock not yet released.            *)

(* Mutant: the outcome is saved without looking at the row and the lease.  *)
SaveOutcomeUnfenced(t, r, outcome) ==
    /\ status' = [status EXCEPT ![t] = outcome]
    /\ activeKey' = [activeKey EXCEPT ![t] = "nil"]
    /\ updatedAt' = [updatedAt EXCEPT ![t] = clock]
    /\ UNCHANGED <<type, lockedBy>>

(* The times FinishSystemTask may have read before its UPDATE.             *)
ReadTimes(r, t) ==
    IF r \in SlowHandlers THEN updatedAt[t] .. clock ELSE {clock}

(* FinishSystemTask: the outcome, if the row is still this runner's and    *)
(* its lease had not run out at the time read before.                      *)
SaveOutcome(t, r, outcome) ==
    /\ status[t] = "running"
    /\ lockedBy[t] = r
    /\ \E n \in ReadTimes(r, t) :
          /\ LeaseAt(t, r, n)
          /\ updatedAt' = [updatedAt EXCEPT ![t] = n]
    /\ status' = [status EXCEPT ![t] = outcome]
    /\ activeKey' = [activeKey EXCEPT ![t] = "nil"]
    /\ UNCHANGED <<type, lockedBy>>

SetHandler(r, t, h) == handler' = [handler EXCEPT ![r][t] = h]
SetBeat(r, t, n) == beat' = [beat EXCEPT ![r][t] = n]

(* The ticker fires: systemTaskLockUntil and RenewSystemTaskLock read the  *)
(* time, and the UPDATE is on its way.                                     *)
Beat(r, t) ==
    /\ handler[r][t] \in {"running", "finished"}
    /\ beat[r][t] = NoBeat
    /\ clock <= Horizon
    /\ SetBeat(r, t, clock)
    /\ UNCHANGED <<clock, rows, lock, pc, pass, handler>>

(* The UPDATE finds a lock that had not run out at that time, whatever the *)
(* handler and the cleanups of other runners have done meanwhile.          *)
Renew(r, t) ==
    /\ beat[r][t] # NoBeat
    /\ LeaseAt(t, r, beat[r][t])
    /\ lock' = [lock EXCEPT ![type[t]] =
                  [task |-> t, by |-> r, until |-> beat[r][t] + TTL]]
    /\ SetBeat(r, t, NoBeat)
    /\ UNCHANGED <<clock, rows, pc, pass, handler>>

(* It finds none, or fails: the heartbeat cancels the handler and ends.    *)
RenewFails(r, t) ==
    /\ beat[r][t] # NoBeat
    /\ ~LeaseAt(t, r, beat[r][t]) \/ "renew" \in Fallible
    /\ SetBeat(r, t, NoBeat)
    /\ SetHandler(r, t, IF handler[r][t] = "running" THEN "cancelled"
                        ELSE handler[r][t])
    /\ UNCHANGED <<clock, rows, lock, pc, pass>>

Finish(r, t) ==
    /\ handler[r][t] \in {"running", "cancelled"}
    /\ \E outcome \in EndStatuses : SaveOutcome(t, r, outcome)
    /\ SetHandler(r, t, "finished")
    /\ UNCHANGED <<clock, lock, pc, pass, beat>>

(* Saving the outcome or the progress finds no lease, or fails: the        *)
(* handler returns and leaves the row and the lock as they are.            *)
LeaseLost(r, t) ==
    /\ handler[r][t] \in {"running", "cancelled"}
    /\ \/ status[t] # "running"
       \/ lockedBy[t] # r
       \/ ~HoldsLease(t, r)
       \/ "finish" \in Fallible
    /\ SetHandler(r, t, "over")
    /\ UNCHANGED <<clock, rows, lock, pc, pass, beat>>

FinishRelease(r, t) ==
    /\ handler[r][t] = "finished"
    /\ ReleaseLock(t, r) \/ ("release" \in Fallible /\ UNCHANGED lock)
    /\ SetHandler(r, t, "over")
    /\ UNCHANGED <<clock, rows, pc, pass, beat>>

-----------------------------------------------------------------------------
(* A runner dies with all its goroutines; another one survives it (a node  *)
(* that restarts is a runner that has not done anything yet).              *)
Crash(r) ==
    /\ pc[r] \in CrashPoints
    /\ \E other \in Runners \ {r} : pc[other] # "down"
    /\ Goto(r, "down")
    /\ now' = [now EXCEPT ![r] = 0]
    /\ stale' = [stale EXCEPT ![r] = {}]
    /\ seen' = [seen EXCEPT ![r] = NoLock]
    /\ due' = [due EXCEPT ![r] = {}]
    /\ todo' = [todo EXCEPT ![r] = {}]
    /\ cur' = [cur EXCEPT ![r] = 0]
    /\ handler' = [handler EXCEPT ![r] =
                     [t \in TaskIds |-> IF handler[r][t] = "none" THEN "none"
                                        ELSE "over"]]
    /\ beat' = [beat EXCEPT ![r] = [t \in TaskIds |-> NoBeat]]
    /\ UNCHANGED <<clock, rows, lock>>

(* The heartbeat's UPDATE is on its way to a lease that it would find.     *)
BeatPending(r, t) == beat[r][t] # NoBeat /\ LeaseAt(t, r, beat[r][t])

(* Time passes, though not past the lease of a runner that is inside       *)
(* ClaimSystemTask, or has sent the renewal of a lease that it still had,  *)
(* unless it is one of the slow ones.                                      *)
Tick ==
    /\ clock < MaxClock
    /\ \A r \in Runners \ SlowClaims : pc[r] \in Claiming => clock < now[r] + TTL
    /\ \A r \in Runners \ SlowHandlers, t \in TaskIds :
          BeatPending(r, t) => clock < lock[type[t]].until
    /\ clock' = clock + 1
    /\ UNCHANGED <<rows, lock, pc, pass, handler, beat>>

ExpireStale(r) ==
    ExpireRead(r) \/ ExpireSkip(r) \/ ExpireMark(r) \/ ExpireDelete(r) \/ ExpireEnd(r)
Scheduler(r) == SchedRead(r) \/ SchedSkip(r) \/ SchedCreate(r) \/ SchedEnd(r)
ClaimPass(r) ==
    \/ FindPending(r) \/ ClaimRead(r) \/ ClaimEnd(r)
    \/ AcquireInsert(r) \/ AcquireInspect(r) \/ AcquireSteal(r)
    \/ ClaimMark(r) \/ ClaimCas(r) \/ ClaimGiveUp(r)
Loop(r) == ExpireStale(r) \/ Scheduler(r) \/ ClaimPass(r)
RenewEnds(r, t) == Renew(r, t) \/ RenewFails(r, t)
HandlerStep(r, t) ==
    Beat(r, t) \/ RenewEnds(r, t) \/ Finish(r, t) \/ LeaseLost(r, t)
    \/ FinishRelease(r, t)

Next ==
    \/ \E ty \in Types : Enqueue(ty)
    \/ \E r \in Runners : Loop(r) \/ Crash(r)
    \/ \E r \in Runners, t \in TaskIds : HandlerStep(r, t)
    \/ Tick

Spec == Init /\ [][Next]_vars

(* The loops of the surviving runners keep running, the throttle lets the  *)
(* cleanup through again and again, a renewal that was sent reaches the    *)
(* database, and time passes.  No fairness for the handlers, which may run *)
(* for ever, or for the API.                                               *)
FairSpec ==
    /\ Spec
    /\ \A r \in Runners : WF_vars(Loop(r)) /\ SF_vars(ExpireRead(r))
    /\ \A r \in Runners, t \in TaskIds : WF_vars(RenewEnds(r, t))
    /\ WF_vars(Tick)

-----------------------------------------------------------------------------
(* Properties.                                                             *)

(* The types of the variables.                                             *)
RowsOK ==
    /\ clock \in Nat
    /\ status \in [TaskIds -> {"none"} \cup ActiveStatuses \cup EndStatuses]
    /\ type \in [TaskIds -> Types]
    /\ activeKey \in [TaskIds -> {"set", "nil"}]
    /\ lockedBy \in [TaskIds -> Runners \cup {NoRunner}]
    /\ updatedAt \in [TaskIds -> Nat]
LockOK == lock \in [Types -> LockRows \cup {NoLock}]
PassOK ==
    /\ pc \in [Runners -> PCs]
    /\ now \in [Runners -> Nat]
    /\ stale \in [Runners -> SUBSET LockRows]
    /\ seen \in [Runners -> LockRows \cup {NoLock}]
    /\ due \in [Runners -> SUBSET Scheduled]
    /\ todo \in [Runners -> SUBSET TaskIds]
    /\ cur \in [Runners -> TaskIds \cup {0}]
HandlerOK ==
    /\ handler \in [Runners -> [TaskIds ->
                      {"none", "running", "cancelled", "finished", "over"}]]
    /\ beat \in [Runners -> [TaskIds -> Nat \cup {NoBeat}]]
TypeOK == RowsOK /\ LockOK /\ PassOK /\ HandlerOK

(* At most one row of a type is pending or running, although schedulers    *)
(* and API calls of several nodes insert rows after checks that may be     *)
(* stale: active_key is set on exactly the active rows, and is unique.     *)
OneActivePerType ==
    /\ \A t \in TaskIds : activeKey[t] = "set" <=> status[t] \in ActiveStatuses
    /\ \A t, u \in TaskIds :
          /\ status[t] \in ActiveStatuses
          /\ status[u] \in ActiveStatuses
          /\ type[t] = type[u]
          => t = u

(* "only one runner executes the task": however claims, takeovers and      *)
(* cleanups interleave, the handler of a row is started by one runner only,*)
(* the one the row names.                                                  *)
SingleExecutor ==
    \A r \in Runners, t \in TaskIds :
        handler[r][t] # "none" => lockedBy[t] = r

(* A claim that takes over an expired lock never finds a running task      *)
(* behind it: the old lock names the claimed row itself, or a row that has *)
(* already ended.  So failing to mark it (the error path of               *)
(* ClaimSystemTask, which has already overwritten the lock) loses nothing. *)
StolenTaskEnded ==
    \A r \in Runners :
        pc[r] \in {"steal", "mark"} =>
            seen[r].task = cur[r] \/ status[seen[r].task] \in EndStatuses

(* Every running row has its lock row, with its runner's name on it: the   *)
(* cleanup, which starts from the lock rows, can find it when its runner   *)
(* dies.                                                                   *)
RunningIsCovered ==
    \A t \in TaskIds :
        status[t] = "running" =>
            lock[type[t]].task = t /\ lock[type[t]].by = lockedBy[t]

(* "an arbitrarily long handler stays alive as long as the heartbeat       *)
(* succeeds": a row whose runner holds an unexpired lease is ended by that *)
(* runner's handler and by nobody else, but for a cleanup that had read    *)
(*   - the lock an abandoned claim left on the row, before the present     *)
(*     claim was over; or                                                  *)
(*   - the runner's own lock, run out, while a renewal that was to save it *)
(*     was stalled on its way: the renewal then succeeds too late.         *)
LeaseProtects ==
    [][\A t \in TaskIds :
          /\ status[t] = "running"
          /\ HoldsLease(t, lockedBy[t])
          /\ status'[t] # "running"
          => \/ \E r \in Runners : r = lockedBy[t] /\ handler'[r][t] = "finished"
             \/ \E r \in Runners :
                   /\ pc[r] = "expire" /\ pc'[r] = "delete"
                   /\ seen'[r].task = t
                   /\ \/ now[r] <= updatedAt[t] + TTL
                      \/ /\ lockedBy[t] \in SlowHandlers
                         /\ seen'[r].by = lockedBy[t]
                         /\ seen'[r].until < now[r]]_vars

(* The tables implement the job queue of JobQueue: rows are submitted one  *)
(* at a time per type, started once and ended once.                        *)
Queue == INSTANCE JobQueue
ImplementsJobQueue == Queue!JQSpec

(* A task whose runner died, or whose handler gave up without saving an    *)
(* outcome, is failed in the end, which frees its type.                    *)
Abandoned(t) ==
    status[t] = "running" /\ \A r \in Runners : handler[r][t] \in {"none", "over"}
AbandonedTaskEnds ==
    \A t \in TaskIds : Abandoned(t) ~> status[t] # "running"
-----------------------------------------------------------------------------
(* The inductive invariant behind TypeOK, OneActivePerType, SingleExecutor,*)
(* StolenTaskEnded and ImplementsJobQueue.                                 *)

Ended(t) == status[t] \in EndStatuses

(* A runner inside a claim or a cleanup has the row and the lock in hand   *)
(* that its next statement uses.                                           *)
InHand ==
    \A r \in Runners :
        /\ now[r] <= clock
        /\ pc[r] \in Claiming => cur[r] \in TaskIds /\ status[cur[r]] # "none"
        /\ pc[r] \in {"delete", "steal", "mark"} => seen[r] \in LockRows

(* A handler belongs to the runner its row names, and its row was claimed. *)
HandlerClaimed ==
    \A r \in Runners, t \in TaskIds :
        handler[r][t] # "none" =>
            lockedBy[t] = r /\ status[t] \notin {"none", "pending"}

(* A lock row names a row of its own type.                                 *)
LockTyped ==
    \A ty \in Types :
        lock[ty] # NoLock =>
            type[lock[ty].task] = ty /\ status[lock[ty].task] # "none"

(* Of two claims of one type on different rows, the earlier one is on a    *)
(* row that has ended: both rows were pending when read.                   *)
OlderClaimEnded ==
    \A r, q \in Runners :
        /\ pc[r] \in Claiming /\ pc[q] \in Claiming
        /\ type[cur[r]] = type[cur[q]] /\ cur[r] # cur[q]
        /\ now[q] < now[r]
        => Ended(cur[q])

(* A lock that had run out when a claim of its type began is on the row    *)
(* being claimed, or on one that has ended.                                *)
OlderLockEnded ==
    \A r \in Runners :
        /\ pc[r] \in Claiming
        /\ lock[type[cur[r]]] # NoLock
        /\ lock[type[cur[r]]].task # cur[r]
        /\ lock[type[cur[r]]].until < now[r]
        => Ended(lock[type[cur[r]]].task)

(* A renewal in flight is one of a started handler, and never shortens the *)
(* lease: nothing but it has written this runner's lock on the row since   *)
(* it read the time.                                                       *)
BeatFresh ==
    /\ \A ty \in Types : lock[ty].until <= clock + TTL
    /\ \A r \in Runners : pc[r] \in Claiming => handler[r][cur[r]] = "none"
    /\ \A r \in Runners, t \in TaskIds :
          beat[r][t] # NoBeat =>
              /\ handler[r][t] # "none"
              /\ beat[r][t] <= clock
              /\ lock[type[t]].task = t /\ lock[type[t]].by = r
                 => lock[type[t]].until <= beat[r][t] + TTL

IInv ==
    /\ TypeOK
    /\ OneActivePerType
    /\ InHand
    /\ HandlerClaimed
    /\ LockTyped
    /\ OlderClaimEnded
    /\ OlderLockEnded
    /\ StolenTaskEnded
    /\ BeatFresh

(* The strengthening behind RunningIsCovered when no claim outlasts its    *)
(* lease (SlowClaims is empty).                                            *)

(* A row names a runner exactly once it was claimed, and the runner of a   *)
(* claim in progress is not the one that claimed the row before.           *)
ClaimIsNew ==
    /\ \A t \in TaskIds : status[t] \in {"none", "pending"} => lockedBy[t] = NoRunner
    /\ \A r \in Runners : pc[r] \in Claiming => lockedBy[cur[r]] # r
    /\ \A r \in Runners, t \in TaskIds : handler[r][t] = "finished" => Ended(t)

(* A claim is shorter than its lease, so that it still has the lock when   *)
(* it updates the row.                                                     *)
ClaimHasLock ==
    \A r \in Runners :
        /\ pc[r] \in Claiming => clock <= now[r] + TTL
        /\ pc[r] \in {"mark", "cas"} => lock[type[cur[r]]] = Lease(r)

(* A lock that a claim or a cleanup has seen expired, or is about to, does *)
(* not belong to a running row, or not any more.                           *)
ExpiredNotRunning ==
    \A r \in Runners :
        /\ /\ pc[r] \in Claiming
           /\ lock[type[cur[r]]].task = cur[r]
           /\ lock[type[cur[r]]].until < now[r]
           => status[cur[r]] # "running"
        /\ pc[r] = "delete" =>
             \A ty \in Types :
                /\ lock[ty].task = seen[r].task
                /\ lock[ty].until < now[r]
                => status[seen[r].task] # "running"

CoveredInv ==
    IInv /\ RunningIsCovered /\ ClaimIsNew /\ ClaimHasLock /\ ExpiredNotRunning

(* The strengthening behind LeaseProtects: a renewal that is not slow      *)
(* finds a lease that has not run out yet.                                 *)
BeatPrompt ==
    \A r \in Runners \ SlowHandlers, t \in TaskIds :
        BeatPending(r, t) => clock <= lock[type[t]].until

(* A lock in a cleanup's hands had run out when it was read.  If its row   *)
(* was running then, it is the lock of the row's runner, and has stayed    *)
(* expired unless that runner's renewals may be slow.                      *)
StaleStaysExpired ==
    \A r \in Runners :
        pc[r] \in {"expire", "delete"} =>
            \A l \in stale[r] :
                /\ l.until < now[r]
                /\ /\ status[l.task] = "running"
                   /\ updatedAt[l.task] + TTL < now[r]
                   => /\ l.by = lockedBy[l.task]
                      /\ \/ lockedBy[l.task] \in SlowHandlers
                         \/ lock[type[l.task]].until < now[r]

LeaseInv == CoveredInv /\ BeatPrompt /\ StaleStaysExpired
=============================================================================
