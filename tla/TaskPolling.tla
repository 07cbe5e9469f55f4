---------------------------- MODULE TaskPolling ----------------------------
(***************************************************************************)
(* Asynchronous media tasks after their submission: the polling pass of    *)
(* service/task_polling.go, the refunds and settlements of                 *)
(* service/task_billing.go, the row updates of model/task.go, and the      *)
(* realtime fetch of relay/relay_task.go, which writes the same rows.      *)
(*                                                                         *)
(* A pass runs as the handler of the async_task_poll system task.  A       *)
(* handler whose lease is lost goes on until it looks at its context, so   *)
(* passes of several nodes overlap.  Every SQL statement and every upstream*)
(* answer is a step of its own.  Each task here has a channel of its own;  *)
(* the rows of a pass are treated in any order.  SUBMITTED, QUEUED and     *)
(* IN_PROGRESS are one status, and progress is "full" at 100% or "open".   *)
(***************************************************************************)
EXTENDS Integers, FiniteSets

CONSTANTS
    Pollers,    \* nodes on which a pass may run
    Tasks,      \* rows of the tasks table
    Suno,       \* those of the Suno platform; the others are video tasks
    Legacy,     \* those submitted before legacyTaskCutoff: no refund
    Realtime,   \* video tasks of Gemini and Vertex, fetched when a user looks
    Viewers,    \* requests of users who look at such a task, one fetch each
    Quotas,     \* amounts a submission costs
    Reserved,   \* amounts taken for it before it is sent to the vendor
    Actuals,    \* amounts a settlement may find; 0 keeps the amount charged
    Answers,    \* odd upstream answers: see Answer
    NoTask,     \* no row in hand
    Fallible,   \* statements that may return an error
    CrashPoints \* places at which a node may die

Statements ==
    {"settle", "query", "channel", "bulk", "update", "save", "fund", "token", "quota"}
Billing == {"fund", "token", "quota"}
PCs == {"idle", "sweep", "poll", "apply", "save"} \cup Billing

ASSUME TaskPollingAssumption ==
    /\ Suno \subseteq Tasks
    /\ Legacy \subseteq Tasks
    /\ Realtime \subseteq Tasks \ Suno
    /\ Quotas \subseteq Nat
    /\ Reserved \subseteq Nat
    /\ Actuals \subseteq Nat
    /\ Answers \subseteq {"ERROR", "FULL", "REASON"}
    /\ NoTask \notin Tasks
    /\ Fallible \subseteq Statements
    /\ CrashPoints \subseteq PCs

VARIABLES
    row,      \* the tasks table: status, progress, quota of each row
    charged,  \* what the funding source has paid for the task, net
    token,    \* what the token has been charged for it, net
    unsettled, \* history: what the settlement of the submission failed to move
    upstream, \* the vendor's own state of the task (external)
    late,     \* rows older than TaskTimeoutMinutes
    view,     \* what each realtime fetch has in memory
    viewed,   \* history: tasks a realtime fetch ended, or wrote after their end
    reopened, \* history: tasks a realtime fetch set back to unfinished
    pc,       \* where each pass stands
    mem,      \* the rows a pass has in memory
    work,     \* rows of the list in hand still to be treated
    cur,      \* the row being treated
    answer,   \* the answer of the vendor for it
    bill,     \* the adjustment in progress: amount, new quota, what follows
    faulty,   \* history: tasks whose billing had a statement fail or cut off
    lost      \* history: tasks failed because their channel could not be read

db == <<row, charged, token>>
realtime == <<view, viewed, reopened>>
env == <<unsettled, upstream, late, realtime>>
pass == <<pc, mem, work, cur, answer, bill>>
vars == <<db, env, pass, faulty, lost>>

Unfinished == {"NOT_START", "IN_PROGRESS"}
Final == {"SUCCESS", "FAILURE"}

NoRow == [status |-> "none", progress |-> "open", quota |-> 0]
NoBill == [delta |-> 0, actual |-> 0, next |-> "idle"]
NoView == [task |-> NoTask, row |-> NoRow, answer |-> "none"]
Viewed == [task |-> NoTask, row |-> NoRow, answer |-> "done"]

Init ==
    /\ row = [t \in Tasks |-> NoRow]
    /\ charged = [t \in Tasks |-> 0]
    /\ token = [t \in Tasks |-> 0]
    /\ unsettled = [t \in Tasks |-> [fund |-> 0, token |-> 0]]
    /\ upstream = [t \in Tasks |-> "working"]
    /\ late = {}
    /\ view = [v \in Viewers |-> NoView]
    /\ viewed = {}
    /\ reopened = {}
    /\ pc = [p \in Pollers |-> "idle"]
    /\ mem = [p \in Pollers |-> [t \in Tasks |-> NoRow]]
    /\ work = [p \in Pollers |-> {}]
    /\ cur = [p \in Pollers |-> NoTask]
    /\ answer = [p \in Pollers |-> "none"]
    /\ bill = [p \in Pollers |-> NoBill]
    /\ faulty = {}
    /\ lost = {}

-----------------------------------------------------------------------------
(* The environment.                                                        *)

(* SettleBilling moves the funding source, then the token, from the amount *)
(* reserved to the cost; its error is only logged, so both or the token    *)
(* may be left at the reserved amount.                                     *)
Settled(quota) ==
    {[fund |-> quota, token |-> quota]} \cup
    (IF "settle" \in Fallible
       THEN {[fund |-> paid, token |-> paid] : paid \in Reserved} \cup
            {[fund |-> quota, token |-> paid] : paid \in Reserved}
       ELSE {})

(* RelayTask: the submission is settled, then its row is inserted with the *)
(* amount it costs.                                                        *)
Submit(t) ==
    /\ row[t] = NoRow
    /\ \E quota \in Quotas : \E paid \in Settled(quota) :
          /\ row' = [row EXCEPT ![t] =
                       [status |-> "NOT_START", progress |-> "open", quota |-> quota]]
          /\ charged' = [charged EXCEPT ![t] = paid.fund]
          /\ token' = [token EXCEPT ![t] = paid.token]
          /\ unsettled' = [unsettled EXCEPT ![t] =
                             [fund |-> quota - paid.fund, token |-> quota - paid.token]]
    /\ UNCHANGED <<upstream, late, realtime, pass, faulty, lost>>

(* The vendor completes the task or gives it up.                           *)
UpstreamEnds(t) ==
    /\ row[t].status # "none"
    /\ upstream[t] = "working"
    /\ \E end \in Final : upstream' = [upstream EXCEPT ![t] = end]
    /\ UNCHANGED <<db, unsettled, late, realtime, pass, faulty, lost>>

(* TaskTimeoutMinutes have passed since the submission.                    *)
TimesOut(t) ==
    /\ row[t].status # "none"
    /\ t \notin late
    /\ late' = late \cup {t}
    /\ UNCHANGED <<db, unsettled, upstream, realtime, pass, faulty, lost>>

(* What a query of the vendor can return.  "ERROR": an error message that  *)
(* is not a rate limit counts as a failure of the task.  "FULL": still     *)
(* running, at 100%.  "REASON": still running, with a reason for failing.  *)
Answer(t) ==
    (IF upstream[t] = "working" THEN {"IN_PROGRESS"} ELSE {upstream[t]})
    \cup (IF "ERROR" \in Answers /\ t \notin Suno THEN {"FAILURE"} ELSE {})
    \cup (IF "FULL" \in Answers /\ t \notin Suno THEN {"FULL"} ELSE {})
    \cup (IF "REASON" \in Answers /\ t \in Suno THEN {"REASON"} ELSE {})

-----------------------------------------------------------------------------
(* tryRealtimeFetch: a user's request for the state of a Gemini or Vertex  *)
(* task asks the vendor and writes the answer, without billing anything.   *)

(* GetByTaskId; the row may be in any state.                               *)
RealtimeRead(v, t) ==
    /\ view[v] = NoView
    /\ row[t].status # "none"
    /\ view' = [view EXCEPT ![v] = [task |-> t, row |-> row[t], answer |-> "none"]]
    /\ UNCHANGED <<db, unsettled, upstream, late, viewed, reopened, pass, faulty, lost>>

(* FetchTask and ParseTaskResult; an error ends the request.               *)
RealtimeAnswer(v) ==
    /\ view[v].task # NoTask
    /\ view[v].answer = "none"
    /\ \/ \E a \in Answer(view[v].task) : view' = [view EXCEPT ![v].answer = a]
       \/ view' = [view EXCEPT ![v] = Viewed]
    /\ UNCHANGED <<db, unsettled, upstream, late, viewed, reopened, pass, faulty, lost>>

(* Status and progress as the answer gives them.                           *)
Answered(old, a) ==
    [status |-> IF a = "FULL" THEN "IN_PROGRESS" ELSE a,
     progress |-> IF a = "IN_PROGRESS" THEN "open" ELSE "full",
     quota |-> old.quota]

(* UpdateWithStatus, if the stored status is still the one that was read;  *)
(* its error is ignored, and snapshots that are equal write nothing.       *)
RealtimeStore(v) ==
    /\ view[v].task # NoTask
    /\ view[v].answer # "none"
    /\ LET t == view[v].task
           old == view[v].row
           new == Answered(old, view[v].answer)
       IN  \/ /\ row[t].status = old.status
              /\ row' = [row EXCEPT ![t] = new]
              /\ viewed' = viewed \cup {u \in {t} : {old.status, new.status} \cap Final # {}}
              /\ reopened' = reopened \cup
                    {u \in {t} : old.status \in Final /\ new.status \in Unfinished}
           \/ /\ row[t].status # old.status \/ new = old \/ "update" \in Fallible
              /\ UNCHANGED <<row, viewed, reopened>>
    /\ view' = [view EXCEPT ![v] = Viewed]
    /\ UNCHANGED <<charged, token, unsettled, upstream, late, pass, faulty, lost>>

-----------------------------------------------------------------------------
(* Steps of a pass.                                                        *)

(* A statement of the billing of t fails: the code logs it and goes on.    *)
Fails(statement, t) == statement \in Fallible /\ faulty' = faulty \cup {t}

(* The row in hand is done with; the pass goes on at label.                *)
Return(p, label) ==
    /\ pc' = [pc EXCEPT ![p] = label]
    /\ cur' = [cur EXCEPT ![p] = NoTask]
    /\ answer' = [answer EXCEPT ![p] = "none"]
    /\ bill' = [bill EXCEPT ![p] = NoBill]

(* RefundTaskQuota and RecalculateTaskQuota begin: nothing to do when the  *)
(* amount is zero.                                                         *)
Adjust(p, t, delta, actual, next) ==
    IF delta = 0
      THEN Return(p, next)
      ELSE /\ pc' = [pc EXCEPT ![p] = "fund"]
           /\ cur' = [cur EXCEPT ![p] = t]
           /\ bill' = [bill EXCEPT ![p] =
                         [delta |-> delta, actual |-> actual, next |-> next]]
           /\ UNCHANGED answer

Refund(p, t, next) == Adjust(p, t, 0 - mem[p][t].quota, 0, next)

(* settleTaskBillingOnComplete: the adaptor or the tokens used give the    *)
(* actual amount; zero, and billing per call, keep what was charged.       *)
Settle(p, t, next) ==
    \E actual \in Actuals \cup {0} :
        IF actual = 0 THEN Return(p, next)
        ELSE Adjust(p, t, actual - mem[p][t].quota, actual, next)

(* Mutant: the update names the row but not the status it was read with.   *)
CasIgnored(p, t) == TRUE

(* UpdateWithStatus: all columns of the row in memory, with a new status   *)
(* and progress, if the stored status is still the one that was read.      *)
CasHits(p, t) == row[t].status = mem[p][t].status

StoreAs(p, t, status, progress) ==
    row' = [row EXCEPT ![t] =
              [status |-> status, progress |-> progress, quota |-> mem[p][t].quota]]

Take(p, t) == work' = [work EXCEPT ![p] = @ \ {t}]

(* GetTimedOutUnfinishedTasks and GetAllUnFinishSyncTasks.                 *)
Open(t) == row[t].status \in Unfinished /\ row[t].progress = "open"

(* Mutant: the sweep asks for the rows in progress only.                   *)
TimedOutInProgress == {t \in late : Open(t) /\ row[t].status = "IN_PROGRESS"}

TimedOutUnfinished == {t \in late : Open(t)}

AllUnfinished == {t \in Tasks : Open(t)}

(* A query loads its rows; one that fails returns none.                    *)
Load(p, rows) ==
    /\ \/ work' = [work EXCEPT ![p] = rows]
       \/ "query" \in Fallible /\ work' = [work EXCEPT ![p] = {}]
    /\ mem' = [mem EXCEPT ![p] = row]

(* sweepTimedOutTasks: the query, then each row of it.                     *)
BeginPass(p) ==
    /\ pc[p] = "idle"
    /\ Load(p, TimedOutUnfinished)
    /\ pc' = [pc EXCEPT ![p] = "sweep"]
    /\ UNCHANGED <<db, env, lost, cur, answer, bill, faulty>>

SweepTask(p) ==
    /\ pc[p] = "sweep"
    /\ \E t \in work[p] :
          /\ Take(p, t)
          /\ \/ /\ CasHits(p, t)
                /\ StoreAs(p, t, "FAILURE", "full")
                /\ IF t \in Legacy THEN Return(p, "sweep")
                                    ELSE Refund(p, t, "sweep")
             \/ /\ ~CasHits(p, t) \/ "update" \in Fallible
                /\ UNCHANGED <<row, pc, cur, answer, bill>>
    /\ UNCHANGED <<charged, token, env, lost, mem, faulty>>

(* RunTaskPollingOnce: the second query.                                   *)
QueryUnfinished(p) ==
    /\ pc[p] = "sweep"
    /\ work[p] = {}
    /\ Load(p, AllUnfinished)
    /\ pc' = [pc EXCEPT ![p] = "poll"]
    /\ UNCHANGED <<db, env, lost, cur, answer, bill, faulty>>

(* CacheGetChannel fails: TaskBulkUpdateByID fails the rows of the channel *)
(* whatever is stored in them, and nothing is refunded.                    *)
BulkFail(p) ==
    /\ pc[p] = "poll"
    /\ \E t \in work[p] :
          /\ Take(p, t)
          /\ "channel" \in Fallible
          /\ \/ /\ row' = [row EXCEPT ![t] =
                            [status |-> "FAILURE", progress |-> "full", quota |-> @.quota]]
                /\ lost' = lost \cup {t}
             \/ "bulk" \in Fallible /\ UNCHANGED <<row, lost>>
    /\ UNCHANGED <<charged, token, env, pc, mem, cur, answer, bill, faulty>>

(* FetchTask: the vendor's answer for the next row.  A request that fails, *)
(* a rate limit and an answer that cannot be parsed skip the row, and so   *)
(* does a Suno answer with nothing new (taskNeedsUpdate).                  *)
Fetch(p) ==
    /\ pc[p] = "poll"
    /\ \E t \in work[p] :
          /\ Take(p, t)
          /\ \/ /\ cur' = [cur EXCEPT ![p] = t]
                /\ \E a \in Answer(t) : answer' = [answer EXCEPT ![p] = a]
                /\ pc' = [pc EXCEPT ![p] = "apply"]
             \/ UNCHANGED <<cur, answer, pc>>
    /\ UNCHANGED <<db, env, lost, mem, bill, faulty>>

(* The snapshots before and after the answer may be equal: no update then. *)
NothingNew(p) ==
    answer[p] = "IN_PROGRESS" /\ mem[p][cur[p]].status = "IN_PROGRESS"

(* updateVideoSingleTask, from the answer on.  Losing the conditional      *)
(* update, or an error of it, skips the billing.                           *)
VideoApply(p) ==
    /\ pc[p] = "apply"
    /\ cur[p] \notin Suno
    /\ \/ /\ CasHits(p, cur[p])
          /\ \/ /\ answer[p] \in {"IN_PROGRESS", "FULL"}
                /\ StoreAs(p, cur[p], "IN_PROGRESS",
                           IF answer[p] = "FULL" THEN "full" ELSE "open")
                /\ Return(p, "poll")
             \/ /\ answer[p] = "SUCCESS"
                /\ StoreAs(p, cur[p], "SUCCESS", "full")
                /\ Settle(p, cur[p], "poll")
             \/ /\ answer[p] = "FAILURE"
                /\ StoreAs(p, cur[p], "FAILURE", "full")
                /\ Refund(p, cur[p], "poll")
       \/ /\ ~CasHits(p, cur[p]) \/ NothingNew(p) \/ "update" \in Fallible
          /\ Return(p, "poll")
          /\ UNCHANGED row
    /\ UNCHANGED <<charged, token, env, lost, mem, work, faulty>>

(* updateSunoTasks, from the answer on: a failure is refunded first and    *)
(* the row saved afterwards.                                               *)
SunoApply(p) ==
    /\ pc[p] = "apply"
    /\ cur[p] \in Suno
    /\ LET old == mem[p][cur[p]]
           full == answer[p] # "IN_PROGRESS"
       IN  mem' = [mem EXCEPT ![p][cur[p]] =
                     [status |-> IF answer[p] = "REASON" THEN old.status ELSE answer[p],
                      progress |-> IF full THEN "full" ELSE old.progress,
                      quota |-> old.quota]]
    /\ IF answer[p] \in {"FAILURE", "REASON"} /\ mem[p][cur[p]].quota # 0
         THEN Refund(p, cur[p], "save")
         ELSE pc' = [pc EXCEPT ![p] = "save"] /\ UNCHANGED <<cur, answer, bill>>
    /\ UNCHANGED <<db, env, lost, work, faulty>>

(* Update: all columns, whatever is stored.                                *)
SunoSave(p) ==
    /\ pc[p] = "save"
    /\ \/ row' = [row EXCEPT ![cur[p]] = mem[p][cur[p]]] /\ UNCHANGED faulty
       \/ Fails("save", cur[p]) /\ UNCHANGED row
    /\ Return(p, "poll")
    /\ UNCHANGED <<charged, token, env, lost, mem, work>>

(* The list is finished, or the context was found cancelled before the     *)
(* next row.                                                               *)
EndPass(p) ==
    /\ pc[p] = "poll"
    /\ mem' = [mem EXCEPT ![p] = [t \in Tasks |-> NoRow]]
    /\ work' = [work EXCEPT ![p] = {}]
    /\ pc' = [pc EXCEPT ![p] = "idle"]
    /\ UNCHANGED <<db, env, lost, cur, answer, bill, faulty>>

-----------------------------------------------------------------------------
(* RefundTaskQuota and RecalculateTaskQuota, statement by statement.       *)

(* What follows an adjustment: the save of a Suno row keeps it in hand.    *)
AfterBill(p) ==
    IF bill[p].next = "save"
      THEN /\ pc' = [pc EXCEPT ![p] = "save"]
           /\ bill' = [bill EXCEPT ![p] = NoBill]
           /\ UNCHANGED <<cur, answer>>
      ELSE Return(p, bill[p].next)

(* taskAdjustFunding; when it fails the rest is skipped.                   *)
AdjustFunding(p) ==
    /\ pc[p] = "fund"
    /\ \/ /\ charged' = [charged EXCEPT ![cur[p]] = @ + bill[p].delta]
          /\ pc' = [pc EXCEPT ![p] = "token"]
          /\ UNCHANGED <<cur, answer, bill, faulty>>
       \/ /\ Fails("fund", cur[p])
          /\ AfterBill(p)
          /\ UNCHANGED charged
    /\ UNCHANGED <<row, token, env, lost, mem, work>>

(* Mutant: a settlement ends without storing the new amount.               *)
AdjustTokenLast(p) ==
    /\ pc[p] = "token"
    /\ token' = [token EXCEPT ![cur[p]] = @ + bill[p].delta]
    /\ AfterBill(p)
    /\ UNCHANGED <<row, charged, env, lost, mem, work, faulty>>

(* taskAdjustTokenQuota; a deleted token or an error is only logged.  A    *)
(* settlement goes on to store the new amount.                             *)
AdjustToken(p) ==
    /\ pc[p] = "token"
    /\ \/ token' = [token EXCEPT ![cur[p]] = @ + bill[p].delta] /\ UNCHANGED faulty
       \/ Fails("token", cur[p]) /\ UNCHANGED token
    /\ IF bill[p].actual > 0
         THEN pc' = [pc EXCEPT ![p] = "quota"] /\ UNCHANGED <<cur, answer, bill>>
         ELSE AfterBill(p)
    /\ UNCHANGED <<row, charged, env, lost, mem, work>>

(* Mutant: the difference is stored in place of the amount.                *)
UpdateQuotaByDelta(p) ==
    /\ pc[p] = "quota"
    /\ row' = [row EXCEPT ![cur[p]].quota = bill[p].delta]
    /\ AfterBill(p)
    /\ UNCHANGED <<charged, token, env, lost, mem, work, faulty>>

(* UpdateQuota.                                                            *)
UpdateQuota(p) ==
    /\ pc[p] = "quota"
    /\ \/ row' = [row EXCEPT ![cur[p]].quota = bill[p].actual] /\ UNCHANGED faulty
       \/ Fails("quota", cur[p]) /\ UNCHANGED row
    /\ AfterBill(p)
    /\ UNCHANGED <<charged, token, env, lost, mem, work>>

(* The node dies; the next pass starts from the tables.                    *)
Crash(p) ==
    /\ pc[p] \in CrashPoints
    /\ faulty' = faulty \cup ({cur[p]} \ {NoTask})
    /\ Return(p, "idle")
    /\ mem' = [mem EXCEPT ![p] = [t \in Tasks |-> NoRow]]
    /\ work' = [work EXCEPT ![p] = {}]
    /\ UNCHANGED <<db, env, lost>>

-----------------------------------------------------------------------------
Step(p) ==
    \/ BeginPass(p) \/ SweepTask(p) \/ QueryUnfinished(p)
    \/ BulkFail(p) \/ Fetch(p) \/ VideoApply(p) \/ SunoApply(p) \/ SunoSave(p)
    \/ EndPass(p) \/ AdjustFunding(p) \/ AdjustToken(p) \/ UpdateQuota(p)

Next ==
    \/ \E t \in Tasks : Submit(t) \/ UpstreamEnds(t) \/ TimesOut(t)
    \/ \E v \in Viewers :
          \/ \E t \in Realtime : RealtimeRead(v, t)
          \/ RealtimeAnswer(v) \/ RealtimeStore(v)
    \/ \E p \in Pollers : Step(p) \/ Crash(p)

Spec == Init /\ [][Next]_vars

(* Passes are scheduled again and again and go on to their end, and every  *)
(* task gets older than the timeout.                                       *)
FairSpec ==
    /\ Spec
    /\ \A p \in Pollers : WF_vars(Step(p))
    /\ \A t \in Tasks : WF_vars(TimesOut(t))

-----------------------------------------------------------------------------
(* Properties.                                                             *)

RowType == [status : {"none"} \cup Unfinished \cup Final,
            progress : {"open", "full"}, quota : Nat]
AnswerType == {"none", "IN_PROGRESS", "FULL", "REASON"} \cup Final

(* The types of the variables.                                             *)
TypeOK ==
    /\ row \in [Tasks -> RowType]
    /\ charged \in [Tasks -> Int]
    /\ token \in [Tasks -> Int]
    /\ unsettled \in [Tasks -> [fund : Int, token : Int]]
    /\ upstream \in [Tasks -> {"working"} \cup Final]
    /\ late \subseteq Tasks
    /\ view \in [Viewers -> [task : Realtime \cup {NoTask}, row : RowType,
                             answer : (AnswerType \cup {"done"}) \ {"REASON"}]]
    /\ viewed \subseteq Realtime
    /\ reopened \subseteq Realtime
    /\ pc \in [Pollers -> PCs]
    /\ mem \in [Pollers -> [Tasks -> RowType]]
    /\ work \in [Pollers -> SUBSET Tasks]
    /\ cur \in [Pollers -> Tasks \cup {NoTask}]
    /\ answer \in [Pollers -> AnswerType]
    /\ bill \in [Pollers -> [delta : Int, actual : Nat, next : PCs]]
    /\ faulty \subseteq Tasks
    /\ lost \subseteq Tasks

(* No task gives back more than it cost, on the funding source or on the   *)
(* token, beyond what the settlement of its submission failed to take: its *)
(* end is billed at most once, however passes, sweeps, realtime fetches,   *)
(* errors and crashes overlap.  A task that a realtime fetch has set back  *)
(* to unfinished may be refunded once more, and is left out.               *)
NeverOverRefunded ==
    \A t \in Tasks \ reopened :
        charged[t] + unsettled[t].fund >= 0 /\ token[t] + unsettled[t].token >= 0

InBilling(t) == \E p \in Pollers : pc[p] \in Billing \cup {"save"} /\ cur[p] = t

(* A failed task has cost nothing; any other has cost what its row says,   *)
(* as soon as no refund or settlement of it is in progress, up to what the *)
(* settlement of the submission failed to move.  Left out are the tasks    *)
(* that really end up otherwise: one with a billing statement that failed  *)
(* or was cut off by a crash, which nobody repeats; one failed because its *)
(* channel could not be read; and one whose end a realtime fetch wrote.    *)
(* The next pass repeats a conditional update that fails.                  *)
BilledAsRecorded ==
    \A t \in Tasks \ (Legacy \cup faulty \cup lost \cup viewed) :
        ~InBilling(t) =>
            LET due == IF row[t].status = "FAILURE" THEN 0 ELSE row[t].quota
            IN  charged[t] + unsettled[t].fund = due /\ token[t] + unsettled[t].token = due

(* A task that has ended does not change its outcome, except in the bulk   *)
(* update of a channel that cannot be read and in the write of a realtime  *)
(* fetch.                                                                  *)
FinalStatusStays ==
    [][(\A t \in Tasks : row[t].status \in Final => row'[t].status = row[t].status)
       \/ (\E p \in Pollers : BulkFail(p)) \/ (\E v \in Viewers : RealtimeStore(v))]_vars

(* Every submitted task ends: the vendor answers, or the timeout sweeps    *)
(* it.  The exception is a row stored as unfinished at 100%, which neither *)
(* query returns: a video task the vendor reports running at 100%, or a    *)
(* Suno task it gives a reason for without failing it.                     *)
EveryTaskEnds ==
    \A t \in Tasks :
        row[t].status \in Unfinished ~>
            row[t].status \in Final \/ row[t].progress = "full"

-----------------------------------------------------------------------------
(* The inductive invariant behind NeverOverRefunded, BilledAsRecorded and  *)
(* FinalStatusStays when no task is Suno's.                                *)

Bills(p, t) == pc[p] \in Billing /\ cur[p] = t

(* What a pass has in hand: rows that were unfinished when it read them.   *)
InHand(p) ==
    /\ pc[p] # "save"
    /\ \A t \in work[p] : mem[p][t].status \in Unfinished
    /\ pc[p] = "apply" =>
          /\ cur[p] \in Tasks
          /\ mem[p][cur[p]].status \in Unfinished
          /\ answer[p] \in {"IN_PROGRESS", "FULL"} \cup Final
    /\ pc[p] \in Billing => cur[p] \in Tasks /\ bill[p].next \in {"sweep", "poll"}

(* A copy of the row of t read earlier: if it may still pass a conditional *)
(* update, it has the stored quota.                                        *)
Fresh(copy, t) ==
    copy.status \in Unfinished /\ row[t].status \in Unfinished => copy.quota = row[t].quota

MemFresh(p) ==
    \A t \in Tasks :
        mem[p][t].status \in Unfinished =>
            row[t].status # "none" /\ (t \notin reopened => Fresh(mem[p][t], t))

ViewFresh(v) ==
    view[v].task # NoTask =>
        /\ view[v].row.status # "none" /\ view[v].answer # "done"
        /\ row[view[v].task].status # "none"
        /\ view[v].task \notin reopened => Fresh(view[v].row, view[v].task)

(* A task that has not ended is charged its quota, and nobody bills it.    *)
OpenCharged ==
    \A t \in Tasks \ reopened :
        row[t].status \notin Final =>
            /\ row[t].status # "none" =>
                  /\ charged[t] + unsettled[t].fund = row[t].quota
                  /\ token[t] + unsettled[t].token = row[t].quota
            /\ \A p \in Pollers : ~Bills(p, t)

(* Only the winner of the conditional update bills the task.               *)
OneBiller ==
    \A t \in Tasks \ reopened :
        \A p, q \in Pollers : Bills(p, t) /\ Bills(q, t) => p = q

(* How far a refund (actual = 0) or a settlement has come.                 *)
BillProgress(p) ==
    LET t == cur[p]
        b == bill[p]
        fund == charged[t] + unsettled[t].fund
        tok == token[t] + unsettled[t].token
    IN  /\ pc[p] = "quota" => b.actual > 0
        /\ t \notin reopened =>
              /\ pc[p] = "fund" => fund + b.delta >= 0 /\ tok + b.delta >= 0
              /\ pc[p] = "token" => tok + b.delta >= 0
        /\ pc[p] \in Billing /\ t \notin faulty \cup lost \cup viewed =>
              /\ row[t].status = (IF b.actual = 0 THEN "FAILURE" ELSE "SUCCESS")
              /\ b.delta = b.actual - row[t].quota
              /\ fund = (IF pc[p] = "fund" THEN row[t].quota ELSE b.actual)
              /\ tok = (IF pc[p] = "quota" THEN b.actual ELSE row[t].quota)

IInv ==
    /\ TypeOK
    /\ reopened \subseteq viewed
    /\ \A p \in Pollers : InHand(p) /\ MemFresh(p) /\ BillProgress(p)
    /\ \A v \in Viewers : ViewFresh(v)
    /\ OpenCharged
    /\ OneBiller
    /\ NeverOverRefunded
    /\ BilledAsRecorded
=============================================================================
