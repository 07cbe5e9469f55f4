------------------------- MODULE TaskPollingProofs -------------------------
(***************************************************************************)
(* Proofs about TaskPolling for video tasks (Suno is empty), for any       *)
(* number of passes, realtime fetches and tasks, any quotas, with every    *)
(* statement fallible and crashes anywhere: IInv is inductive.             *)
(***************************************************************************)
EXTENDS TaskPolling, TLAPS

(* What the other passes have is left alone.                               *)
Others(p) ==
    \A q \in Pollers \ {p} :
        /\ pc'[q] = pc[q] /\ mem'[q] = mem[q] /\ work'[q] = work[q]
        /\ cur'[q] = cur[q] /\ answer'[q] = answer[q] /\ bill'[q] = bill[q]

(* What no pass touches.                                                   *)
beside == <<unsettled, view, viewed, reopened>>

(* The billing of t by p begins.                                           *)
Billed(p, t, delta, actual, next) ==
    /\ pc' = [pc EXCEPT ![p] = "fund"]
    /\ cur' = [cur EXCEPT ![p] = t]
    /\ bill' = [bill EXCEPT ![p] = [delta |-> delta, actual |-> actual, next |-> next]]
    /\ UNCHANGED answer

(* A row that does not come back to life, and keeps its quota while it is  *)
(* unfinished, leaves the realtime fetches with the copies they need.      *)
LEMMA ViewsStayFresh ==
  ASSUME IInv, UNCHANGED <<view, reopened>>,
         \A u \in Tasks : row[u].status # "none" => row'[u].status # "none",
         \A u \in Tasks \ reopened :
            row[u].status # "none" /\ row'[u].status \in Unfinished =>
               row[u].status \in Unfinished /\ row'[u].quota = row[u].quota
  PROVE  \A v \in Viewers : ViewFresh(v)'
<1>1. \A v \in Viewers : view[v].task \in Tasks \cup {NoTask}
  BY TaskPollingAssumption DEF IInv, TypeOK
<1> QED
  BY <1>1 DEF IInv, ViewFresh, Fresh

(* A step of a pass that bills nothing and stores nothing.                 *)
LEMMA QuietStep ==
  ASSUME IInv, NEW p \in Pollers, TypeOK', Others(p), InHand(p)', MemFresh(p)',
         UNCHANGED <<row, charged, token, beside, faulty, lost>>,
         pc[p] \notin Billing, pc'[p] \notin Billing
  PROVE  IInv'
<1>0. UNCHANGED <<unsettled, view, viewed, reopened>>
  BY DEF beside
<1>1. \A q \in Pollers : pc[q] # "save" /\ pc'[q] # "save"
  BY DEF IInv, InHand, Others
<1>2. \A q \in Pollers, t \in Tasks : Bills(q, t)' <=> Bills(q, t)
  BY DEF Bills, Others
<1>3. \A t \in Tasks : InBilling(t)' <=> InBilling(t)
  BY <1>1, <1>2 DEF InBilling, Bills
<1>4. \A q \in Pollers : InHand(q)' /\ MemFresh(q)'
  BY <1>0 DEF IInv, InHand, MemFresh, Fresh, Others
<1>5. \A q \in Pollers : BillProgress(q)'
  BY <1>0 DEF IInv, BillProgress, Others, Billing
<1>6. OpenCharged' /\ OneBiller'
  BY <1>0, <1>2 DEF IInv, OpenCharged, OneBiller
<1>7. NeverOverRefunded' /\ BilledAsRecorded'
  BY <1>0, <1>3 DEF IInv, NeverOverRefunded, BilledAsRecorded
<1>8. reopened' \subseteq viewed' /\ \A v \in Viewers : ViewFresh(v)'
  BY <1>0 DEF IInv, ViewFresh, Fresh
<1> QED
  BY <1>4, <1>5, <1>6, <1>7, <1>8 DEF IInv

(* A conditional update that wins, and the billing that follows from it.   *)
LEMMA StoreStep ==
  ASSUME IInv, NEW p \in Pollers, NEW t \in Tasks, TypeOK', Others(p),
         UNCHANGED <<charged, token, beside, faulty, lost>>, mem'[p] = mem[p],
         pc[p] \notin Billing, InHand(p)',
         mem[p][t].status \in Unfinished, CasHits(p, t),
         \A u \in Tasks \ {t} : row'[u] = row[u],
         row'[t].quota = mem[p][t].quota,
         row'[t].status \in Unfinished \cup Final,
         \/ /\ pc'[p] \notin Billing
            /\ row'[t].status = "FAILURE" => t \in Legacy \/ mem[p][t].quota = 0
         \/ /\ pc'[p] = "fund" /\ cur'[p] = t
            /\ bill'[p].delta = bill'[p].actual - mem[p][t].quota
            /\ row'[t].status = (IF bill'[p].actual = 0 THEN "FAILURE" ELSE "SUCCESS")
  PROVE  IInv'
<1>0. /\ UNCHANGED <<unsettled, view, viewed, reopened>>
      /\ reopened \subseteq viewed
  BY DEF beside, IInv
<1>1. ASSUME t \notin reopened
      PROVE  /\ row[t].status \in Unfinished
             /\ mem[p][t].quota = row[t].quota
             /\ charged[t] + unsettled[t].fund = row[t].quota
             /\ token[t] + unsettled[t].token = row[t].quota
             /\ \A q \in Pollers : ~Bills(q, t)
             /\ row'[t].quota = row[t].quota
  BY <1>1 DEF IInv, MemFresh, Fresh, CasHits, OpenCharged, Unfinished, Final
<1>2. /\ row[t].quota \in Nat /\ row'[t].quota \in Nat /\ row'[t].status # "none"
      /\ unsettled[t].fund \in Int /\ unsettled[t].token \in Int
      /\ charged[t] \in Int /\ token[t] \in Int
      /\ bill'[p].delta \in Int /\ bill'[p].actual \in Nat
  BY DEF IInv, TypeOK, RowType, Unfinished, Final
<1>3. \A q \in Pollers : pc[q] # "save" /\ pc'[q] # "save"
  BY DEF IInv, InHand, Others
<1>4. \A q \in Pollers, u \in Tasks :
         Bills(q, u)' <=> Bills(q, u) \/ (q = p /\ u = t /\ pc'[p] \in Billing)
  BY DEF Bills, Others, Billing
<1>5. \A q \in Pollers : InHand(q)' /\ MemFresh(q)'
  <2>1. \A q \in Pollers : InHand(q)'
    BY DEF IInv, InHand, Others
  <2>2. \A q \in Pollers : mem'[q] = mem[q]
    BY DEF Others
  <2> QED
    BY <1>0, <1>1, <1>2, <2>1, <2>2 DEF IInv, MemFresh, Fresh, Unfinished, Final
<1>6. BillProgress(p)'
  <2>1. CASE pc'[p] \notin Billing
    BY <2>1 DEF BillProgress, Billing
  <2>2. CASE /\ pc'[p] = "fund" /\ cur'[p] = t
             /\ bill'[p].delta = bill'[p].actual - mem[p][t].quota
             /\ row'[t].status = (IF bill'[p].actual = 0 THEN "FAILURE" ELSE "SUCCESS")
    <3>1. CASE t \in reopened
      BY <1>0, <2>2, <3>1 DEF BillProgress
    <3>2. CASE t \notin reopened
      BY <1>0, <1>1, <1>2, <2>2, <3>2 DEF BillProgress
    <3> QED
      BY <3>1, <3>2
  <2> QED
    BY <2>1, <2>2
<1>7. \A q \in Pollers \ {p} : BillProgress(q)'
  BY <1>0, <1>1 DEF IInv, BillProgress, InHand, Bills, Others
<1>8. OpenCharged'
  BY <1>0, <1>1, <1>2, <1>4 DEF IInv, OpenCharged, Final, Unfinished, Billing
<1>9. OneBiller'
  BY <1>0, <1>1, <1>4 DEF IInv, OneBiller
<1>10. NeverOverRefunded'
  BY <1>0 DEF IInv, NeverOverRefunded
<1>11. BilledAsRecorded'
  <2> DEFINE due(u) == IF row'[u].status = "FAILURE" THEN 0 ELSE row'[u].quota
  <2> SUFFICES ASSUME NEW u \in Tasks, u \notin Legacy, u \notin faulty \cup lost \cup viewed,
                      ~InBilling(u)'
               PROVE  /\ charged[u] + unsettled[u].fund = due(u)
                      /\ token[u] + unsettled[u].token = due(u)
    BY <1>0 DEF BilledAsRecorded
  <2>1. CASE u = t
    BY <1>0, <1>1, <1>2, <2>1 DEF InBilling, Billing
  <2>2. CASE u # t
    <3>1. ~InBilling(u)
      BY <1>3, <1>4 DEF InBilling, Bills
    <3> QED
      BY <2>2, <3>1 DEF IInv, BilledAsRecorded
  <2> QED
    BY <2>1, <2>2
<1>12. reopened' \subseteq viewed' /\ \A v \in Viewers : ViewFresh(v)'
  BY <1>0, <1>1, <1>2, ViewsStayFresh
<1> QED
  BY <1>5, <1>6, <1>7, <1>8, <1>9, <1>10, <1>11, <1>12 DEF IInv

-----------------------------------------------------------------------------
(* The environment.                                                        *)

LEMMA InitOK == Init => IInv
<1> SUFFICES ASSUME Init PROVE IInv
  OBVIOUS
<1>1. TypeOK
  BY DEF Init, TypeOK, RowType, AnswerType, NoRow, NoBill, NoView, PCs, Unfinished, Final
<1>2. \A p \in Pollers : InHand(p) /\ MemFresh(p) /\ BillProgress(p)
  BY DEF Init, InHand, MemFresh, BillProgress, NoRow, Unfinished, Billing
<1>3. OpenCharged /\ OneBiller
  BY DEF Init, OpenCharged, OneBiller, Bills, Billing, NoRow, Final
<1>4. NeverOverRefunded /\ BilledAsRecorded
  BY DEF Init, NeverOverRefunded, BilledAsRecorded, NoRow
<1>5. reopened \subseteq viewed /\ \A v \in Viewers : ViewFresh(v)
  BY DEF Init, ViewFresh, NoView
<1> QED
  BY <1>1, <1>2, <1>3, <1>4, <1>5 DEF IInv

(* A new row is charged what it costs, up to what the settlement failed to *)
(* move; nobody has read it yet.                                           *)
LEMMA SubmitStep ==
  ASSUME IInv, NEW t \in Tasks, Submit(t)
  PROVE  IInv'
<1>0. PICK n \in Quotas : \E paid \in Settled(n) :
        /\ row' = [row EXCEPT ![t] = [status |-> "NOT_START", progress |-> "open", quota |-> n]]
        /\ charged' = [charged EXCEPT ![t] = paid.fund]
        /\ token' = [token EXCEPT ![t] = paid.token]
        /\ unsettled' = [unsettled EXCEPT ![t] =
                           [fund |-> n - paid.fund, token |-> n - paid.token]]
  BY DEF Submit
<1>1. PICK paid \in Settled(n) :
        /\ row' = [row EXCEPT ![t] = [status |-> "NOT_START", progress |-> "open", quota |-> n]]
        /\ charged' = [charged EXCEPT ![t] = paid.fund]
        /\ token' = [token EXCEPT ![t] = paid.token]
        /\ unsettled' = [unsettled EXCEPT ![t] =
                           [fund |-> n - paid.fund, token |-> n - paid.token]]
  BY <1>0
<1>2. n \in Nat /\ paid.fund \in Nat /\ paid.token \in Nat
  BY TaskPollingAssumption DEF Settled
<1>3. /\ row[t].status = "none"
      /\ UNCHANGED <<pc, mem, work, cur, answer, bill, faulty, lost, upstream, late>>
      /\ UNCHANGED <<view, viewed, reopened>>
  BY DEF Submit, NoRow, pass, realtime
<1>4. /\ \A u \in Tasks \ {t} : /\ row'[u] = row[u] /\ charged'[u] = charged[u]
                               /\ token'[u] = token[u] /\ unsettled'[u] = unsettled[u]
      /\ row'[t].status = "NOT_START" /\ row'[t].quota = n
      /\ charged'[t] + unsettled'[t].fund = n /\ token'[t] + unsettled'[t].token = n
  BY <1>1, <1>2 DEF IInv, TypeOK
<1>5. /\ \A p \in Pollers : mem[p][t].status \notin Unfinished
      /\ \A p \in Pollers : t \notin reopened => ~Bills(p, t)
      /\ \A v \in Viewers : view[v].task # t
  BY <1>3, TaskPollingAssumption DEF IInv, OpenCharged, MemFresh, ViewFresh, Final
<1>6. TypeOK'
  BY <1>1, <1>2, <1>3 DEF IInv, TypeOK, RowType, Unfinished
<1>7. \A p \in Pollers : InHand(p)' /\ MemFresh(p)'
  BY <1>3, <1>4, <1>5 DEF IInv, InHand, MemFresh, Fresh
<1>8. \A p \in Pollers : BillProgress(p)'
  BY <1>3, <1>4, <1>5 DEF IInv, BillProgress, InHand, Bills, Billing
<1>9. OpenCharged' /\ OneBiller'
  BY <1>3, <1>4, <1>5 DEF IInv, OpenCharged, OneBiller, Bills
<1>10. NeverOverRefunded' /\ BilledAsRecorded'
  BY <1>2, <1>3, <1>4 DEF IInv, NeverOverRefunded, BilledAsRecorded, InBilling
<1>11. reopened' \subseteq viewed' /\ \A v \in Viewers : ViewFresh(v)'
  <2>1. \A v \in Viewers : view[v].task \in Tasks \cup {NoTask}
    BY TaskPollingAssumption DEF IInv, TypeOK
  <2> QED
    BY <1>3, <1>4, <1>5, <2>1 DEF IInv, ViewFresh, Fresh
<1> QED
  BY <1>6, <1>7, <1>8, <1>9, <1>10, <1>11 DEF IInv

(* The vendor, the clock and stuttering change nothing that is billed.     *)
LEMMA QuietEnvironment ==
  ASSUME IInv, TypeOK', UNCHANGED <<db, unsettled, viewed, reopened, pass, faulty, lost>>,
         \A v \in Viewers : ViewFresh(v)'
  PROVE  IInv'
<1>1. UNCHANGED <<row, charged, token, unsettled, viewed, reopened, faulty, lost>>
  BY DEF db
<1>2. UNCHANGED <<pc, mem, work, cur, answer, bill>>
  BY DEF pass
<1>3. \A p \in Pollers : InHand(p)' /\ MemFresh(p)' /\ BillProgress(p)'
  BY <1>1, <1>2 DEF IInv, InHand, MemFresh, Fresh, BillProgress
<1>4. OpenCharged' /\ OneBiller' /\ NeverOverRefunded' /\ BilledAsRecorded'
  BY <1>1, <1>2 DEF IInv, OpenCharged, OneBiller, Bills, NeverOverRefunded, BilledAsRecorded,
     InBilling
<1> QED
  BY <1>1, <1>3, <1>4 DEF IInv

LEMMA EnvironmentStep ==
  ASSUME IInv, NEW t \in Tasks, UpstreamEnds(t) \/ TimesOut(t)
  PROVE  IInv'
<1>1. TypeOK'
  BY DEF IInv, TypeOK, UpstreamEnds, TimesOut, db, pass, realtime, Final
<1>2. \A v \in Viewers : ViewFresh(v)'
  BY DEF IInv, ViewFresh, Fresh, UpstreamEnds, TimesOut, db, realtime
<1> QED
  BY <1>1, <1>2, QuietEnvironment DEF UpstreamEnds, TimesOut, realtime

(* Without Suno tasks the vendor's answers are these.                      *)
LEMMA VideoAnswers ==
  ASSUME TypeOK, Suno = {}, NEW t \in Tasks
  PROVE  Answer(t) \subseteq {"IN_PROGRESS", "FULL"} \cup Final
<1>1. upstream[t] \in {"working"} \cup Final
  BY DEF TypeOK
<1> QED
  BY <1>1 DEF Answer, Final

(* A realtime fetch reads a row, or has its answer, or gives up.           *)
LEMMA RealtimeReadStep ==
  ASSUME IInv, Suno = {}, NEW v \in Viewers,
         (\E t \in Realtime : RealtimeRead(v, t)) \/ RealtimeAnswer(v)
  PROVE  IInv'
<1>1. /\ UNCHANGED <<row, charged, token, unsettled, viewed, reopened, faulty, lost>>
      /\ UNCHANGED <<db, pass, upstream, late>>
  BY DEF RealtimeRead, RealtimeAnswer, db
<1>2. /\ view' \in [Viewers -> [task : Realtime \cup {NoTask}, row : RowType,
                               answer : (AnswerType \cup {"done"}) \ {"REASON"}]]
      /\ \A w \in Viewers \ {v} : view'[w] = view[w]
      /\ \/ \E t \in Realtime :
               view'[v].task = t /\ view'[v].row = row[t] /\ row[t].status # "none"
         \/ view'[v].task = view[v].task /\ view'[v].row = view[v].row
         \/ view'[v].task = NoTask
      /\ view'[v].task # NoTask => view'[v].answer # "done"
  <2>0. view \in [Viewers -> [task : Realtime \cup {NoTask}, row : RowType,
                              answer : (AnswerType \cup {"done"}) \ {"REASON"}]]
    BY DEF IInv, TypeOK
  <2>1. ASSUME NEW t \in Realtime, RealtimeRead(v, t)
        PROVE  /\ view' = [view EXCEPT ![v] = [task |-> t, row |-> row[t], answer |-> "none"]]
               /\ row[t] \in RowType /\ row[t].status # "none"
    BY <2>1, TaskPollingAssumption DEF RealtimeRead, IInv, TypeOK
  <2>2. ASSUME NEW a \in Answer(view[v].task), RealtimeAnswer(v),
               view' = [view EXCEPT ![v].answer = a]
        PROVE  /\ view' = [view EXCEPT ![v] = [task |-> view[v].task, row |-> view[v].row,
                                               answer |-> a]]
               /\ a \in AnswerType \ {"REASON"}
    <3>1. view[v].task \in Tasks
      BY <2>0, <2>2, TaskPollingAssumption DEF RealtimeAnswer
    <3>2. a \in {"IN_PROGRESS", "FULL"} \cup Final
      BY <3>1, VideoAnswers DEF IInv
    <3>3. view[v] \in [task : Realtime \cup {NoTask}, row : RowType,
                       answer : (AnswerType \cup {"done"}) \ {"REASON"}]
      BY <2>0
    <3>4. [view[v] EXCEPT !.answer = a]
            = [task |-> view[v].task, row |-> view[v].row, answer |-> a]
      BY <3>3
    <3> QED
      BY <2>0, <2>2, <3>2, <3>4 DEF AnswerType, Final
  <2>3. CASE view' = [view EXCEPT ![v] = Viewed]
    <3>1. Viewed \in [task : Realtime \cup {NoTask}, row : RowType,
                      answer : (AnswerType \cup {"done"}) \ {"REASON"}]
      BY DEF Viewed, NoRow, RowType
    <3> QED
      BY <2>0, <2>3, <3>1 DEF Viewed
  <2>4. CASE \E t \in Realtime : RealtimeRead(v, t)
    BY <2>0, <2>1, <2>4 DEF AnswerType
  <2>5. ASSUME RealtimeAnswer(v),
               NEW a \in Answer(view[v].task), view' = [view EXCEPT ![v].answer = a]
        PROVE  /\ view' \in [Viewers -> [task : Realtime \cup {NoTask}, row : RowType,
                                        answer : (AnswerType \cup {"done"}) \ {"REASON"}]]
               /\ \A w \in Viewers \ {v} : view'[w] = view[w]
               /\ view'[v].task = view[v].task /\ view'[v].row = view[v].row
               /\ view'[v].answer # "done"
    <3>1. /\ view' = [view EXCEPT ![v] = [task |-> view[v].task, row |-> view[v].row,
                                          answer |-> a]]
          /\ a \in AnswerType \ {"REASON"}
      BY <2>2, <2>5
    <3>2. view[v].task \in Realtime \cup {NoTask} /\ view[v].row \in RowType /\ a # "done"
      BY <2>0, <3>1 DEF AnswerType, Final
    <3> QED
      BY <2>0, <3>1, <3>2
  <2> QED
    BY <2>3, <2>4, <2>5 DEF RealtimeAnswer
<1>3. TypeOK'
  BY <1>1, <1>2 DEF IInv, TypeOK, pass
<1>4. \A w \in Viewers : ViewFresh(w)'
  BY <1>1, <1>2, TaskPollingAssumption DEF IInv, ViewFresh, Fresh
<1> QED
  BY <1>1, <1>3, <1>4, QuietEnvironment

(* A realtime fetch writes a row: one that it leaves out of viewed was and *)
(* stays unfinished, with the same quota.                                  *)
LEMMA RealtimeStoreStep ==
  ASSUME IInv, NEW v \in Viewers, RealtimeStore(v)
  PROVE  IInv'
<1> DEFINE t == view[v].task
           old == view[v].row
           new == Answered(old, view[v].answer)
<1>0. /\ UNCHANGED <<charged, token, unsettled, upstream, late, faulty, lost>>
      /\ UNCHANGED <<pc, mem, work, cur, answer, bill>>
      /\ view' = [view EXCEPT ![v] = Viewed]
      /\ TypeOK
  BY DEF RealtimeStore, pass, IInv
<1>1. /\ t \in Realtime /\ t \in Tasks /\ old \in RowType
      /\ old.status # "none" /\ row[t].status # "none"
      /\ t \notin reopened => Fresh(old, t)
  <2>1. /\ view[v] \in [task : Realtime \cup {NoTask}, row : RowType,
                        answer : (AnswerType \cup {"done"}) \ {"REASON"}]
        /\ view[v].task # NoTask
    BY <1>0 DEF TypeOK, RealtimeStore
  <2> QED
    BY <2>1, TaskPollingAssumption DEF IInv, ViewFresh
<1>2. /\ new \in RowType /\ new.status \in Unfinished \cup Final /\ new.quota = old.quota
  <2>1. view[v].answer \in {"IN_PROGRESS", "FULL"} \cup Final
    BY <1>0, <1>1, TaskPollingAssumption DEF RealtimeStore, TypeOK, AnswerType, IInv, ViewFresh
  <2> QED
    BY <1>1, <2>1 DEF Answered, RowType, Unfinished, Final
<1> HIDE DEF t, old, new
<1>3. /\ view' \in [Viewers -> [task : Realtime \cup {NoTask}, row : RowType,
                                answer : (AnswerType \cup {"done"}) \ {"REASON"}]]
      /\ \A w \in Viewers : view'[w] = view[w] \/ view'[w].task = NoTask
  <2>1. Viewed \in [task : Realtime \cup {NoTask}, row : RowType,
                    answer : (AnswerType \cup {"done"}) \ {"REASON"}]
    BY DEF Viewed, NoRow, RowType
  <2> QED
    BY <1>0, <2>1 DEF TypeOK, Viewed
<1>4. \/ /\ row[t].status = old.status
         /\ row' = [row EXCEPT ![t] = new]
         /\ viewed' = viewed \cup {u \in {t} : {old.status, new.status} \cap Final # {}}
         /\ reopened' = reopened \cup
               {u \in {t} : old.status \in Final /\ new.status \in Unfinished}
      \/ UNCHANGED <<row, viewed, reopened>>
  BY DEF RealtimeStore, t, old, new
<1>5. /\ row' \in [Tasks -> RowType]
      /\ \A u \in Tasks \ {t} : /\ row'[u] = row[u]
                               /\ (u \in viewed' <=> u \in viewed)
                               /\ (u \in reopened' <=> u \in reopened)
      /\ viewed \subseteq viewed' /\ reopened \subseteq reopened'
      /\ viewed' \subseteq Realtime /\ reopened' \subseteq viewed'
      /\ row'[t].status # "none"
  BY <1>0, <1>1, <1>2, <1>4 DEF IInv, TypeOK, Unfinished, Final
<1>6. ASSUME t \notin reopened', row'[t].status \in Unfinished
      PROVE  row[t].status \in Unfinished /\ row'[t].quota = row[t].quota
  BY <1>0, <1>1, <1>2, <1>4, <1>5, <1>6 DEF Fresh, RowType, TypeOK, Unfinished, Final
<1>7. ASSUME t \notin viewed'
      PROVE  \/ row'[t] = row[t]
             \/ /\ row[t].status \in Unfinished /\ row'[t].status \in Unfinished
                /\ row'[t].quota = row[t].quota /\ \A p \in Pollers : ~Bills(p, t)
  <2>1. CASE UNCHANGED <<row, viewed, reopened>>
    BY <2>1
  <2>2. CASE /\ row[t].status = old.status
             /\ row' = [row EXCEPT ![t] = new]
             /\ viewed' = viewed \cup {u \in {t} : {old.status, new.status} \cap Final # {}}
    <3>1. {old.status, new.status} \cap Final = {}
      BY <1>7, <2>2
    <3>2. old.status \in Unfinished /\ new.status \in Unfinished
      BY <1>1, <1>2, <3>1 DEF RowType
    <3>3. t \notin reopened
      BY <1>5, <1>7
    <3> QED
      BY <1>0, <1>1, <1>2, <2>2, <3>2, <3>3 DEF Fresh, IInv, OpenCharged, Unfinished, Final, TypeOK
  <2> QED
    BY <1>4, <2>1, <2>2
<1>8. TypeOK'
  BY <1>0, <1>3, <1>5 DEF TypeOK
<1>9. \A p \in Pollers : InHand(p)' /\ MemFresh(p)'
  BY <1>0, <1>5, <1>6 DEF IInv, InHand, MemFresh, Fresh
<1>10. \A p \in Pollers : BillProgress(p)'
  <2> SUFFICES ASSUME NEW p \in Pollers PROVE BillProgress(p)'
    OBVIOUS
  <2>1. BillProgress(p) /\ (pc[p] \in Billing => cur[p] \in Tasks)
    BY DEF IInv, InHand
  <2>2. CASE pc[p] \notin Billing
    BY <1>0, <2>2 DEF BillProgress, Billing
  <2>3. CASE pc[p] \in Billing /\ cur[p] # t
    BY <1>0, <1>5, <2>1, <2>3 DEF BillProgress
  <2>4. CASE pc[p] \in Billing /\ cur[p] = t
    <3>1. t \notin viewed' => row'[t] = row[t]
      BY <1>7, <2>4 DEF Bills
    <3> QED
      BY <1>0, <1>5, <2>1, <2>4, <3>1 DEF BillProgress
  <2> QED
    BY <2>2, <2>3, <2>4
<1>11. OpenCharged' /\ OneBiller'
  <2>1. \A p \in Pollers, u \in Tasks : Bills(p, u)' <=> Bills(p, u)
    BY <1>0 DEF Bills
  <2>2. \A u \in Tasks \ reopened' : row'[u].status \notin Final =>
           /\ u \notin reopened /\ row[u].status \notin Final
           /\ row'[u].quota = row[u].quota
           /\ row'[u].status # "none" => row[u].status # "none"
    BY <1>1, <1>5, <1>6 DEF RowType, Unfinished, Final
  <2> QED
    BY <1>0, <1>5, <2>1, <2>2 DEF IInv, OpenCharged, OneBiller
<1>12. NeverOverRefunded' /\ BilledAsRecorded'
  <2>1. \A u \in Tasks : InBilling(u)' <=> InBilling(u)
    BY <1>0 DEF InBilling
  <2>2. \A u \in Tasks \ viewed' :
           /\ u \notin viewed /\ row'[u].quota = row[u].quota
           /\ (row'[u].status = "FAILURE" <=> row[u].status = "FAILURE")
    BY <1>5, <1>7 DEF Unfinished
  <2> QED
    BY <1>0, <1>5, <2>1, <2>2 DEF IInv, NeverOverRefunded, BilledAsRecorded
<1>13. \A w \in Viewers : ViewFresh(w)'
  <2> SUFFICES ASSUME NEW w \in Viewers, view'[w].task # NoTask, view'[w] = view[w]
               PROVE  ViewFresh(w)'
    BY <1>3 DEF ViewFresh
  <2>1. ViewFresh(w) /\ view[w].task \in Tasks
    BY <1>0, TaskPollingAssumption DEF IInv, TypeOK
  <2> QED
    BY <1>5, <1>6, <2>1 DEF ViewFresh, Fresh
<1> QED
  BY <1>5, <1>8, <1>9, <1>10, <1>11, <1>12, <1>13 DEF IInv

-----------------------------------------------------------------------------
(* The pass.                                                               *)

(* The queries hand over unfinished rows, as they are stored.              *)
LEMMA LoadStep ==
  ASSUME IInv, NEW p \in Pollers, BeginPass(p) \/ QueryUnfinished(p)
  PROVE  IInv'
<1> DEFINE label == IF pc[p] = "idle" THEN "sweep" ELSE "poll"
<1>1. PICK ts \in SUBSET Tasks :
        /\ \A t \in ts : Open(t)
        /\ work' = [work EXCEPT ![p] = ts]
  <2>1. TimedOutUnfinished \in SUBSET Tasks /\ AllUnfinished \in SUBSET Tasks
    BY DEF TimedOutUnfinished, AllUnfinished, IInv, TypeOK
  <2> QED
    BY <2>1 DEF BeginPass, QueryUnfinished, Load, TimedOutUnfinished, AllUnfinished
<1>2. /\ pc' = [pc EXCEPT ![p] = label]
      /\ mem' = [mem EXCEPT ![p] = row]
      /\ pc[p] \notin Billing /\ label \in {"sweep", "poll"}
      /\ UNCHANGED <<row, charged, token, faulty, lost, upstream, late, cur, answer, bill>>
      /\ UNCHANGED beside
  BY DEF BeginPass, QueryUnfinished, Load, db, env, realtime, beside, Billing
<1>3. TypeOK'
  BY <1>1, <1>2 DEF IInv, TypeOK, PCs, beside
<1>4. Others(p)
  BY <1>1, <1>2 DEF Others, IInv, TypeOK
<1>5. pc'[p] = label /\ mem'[p] = row /\ work'[p] = ts
  BY <1>1, <1>2 DEF IInv, TypeOK
<1>6. InHand(p)'
  BY <1>1, <1>2, <1>5 DEF InHand, Open, Billing
<1>7. MemFresh(p)'
  BY <1>2, <1>5 DEF MemFresh, Fresh, Unfinished
<1> QED
  BY <1>2, <1>3, <1>4, <1>5, <1>6, <1>7, QuietStep DEF Billing

LEMMA FetchStep ==
  ASSUME IInv, NEW p \in Pollers, Fetch(p), Suno = {}
  PROVE  IInv'
<1>1. PICK t \in work[p] :
        /\ work' = [work EXCEPT ![p] = @ \ {t}]
        /\ \/ /\ cur' = [cur EXCEPT ![p] = t]
              /\ \E a \in Answer(t) : answer' = [answer EXCEPT ![p] = a]
              /\ pc' = [pc EXCEPT ![p] = "apply"]
           \/ UNCHANGED <<cur, answer, pc>>
  BY DEF Fetch, Take
<1>2. /\ pc[p] = "poll" /\ t \in Tasks
      /\ UNCHANGED <<row, charged, token, beside, upstream, late, mem, bill, faulty, lost>>
  BY DEF Fetch, IInv, TypeOK, db, env, realtime, beside
<1>3. Answer(t) \subseteq {"IN_PROGRESS", "FULL"} \cup Final
  BY <1>2, VideoAnswers DEF IInv
<1>4. TypeOK'
  <2>1. Answer(t) \subseteq AnswerType
    BY <1>3 DEF AnswerType
  <2>2. /\ pc' \in [Pollers -> PCs] /\ cur' \in [Pollers -> Tasks \cup {NoTask}]
        /\ answer' \in [Pollers -> AnswerType] /\ work' \in [Pollers -> SUBSET Tasks]
    <3>1. /\ pc \in [Pollers -> PCs] /\ cur \in [Pollers -> Tasks \cup {NoTask}]
          /\ answer \in [Pollers -> AnswerType] /\ work \in [Pollers -> SUBSET Tasks]
          /\ "apply" \in PCs
      BY DEF IInv, TypeOK, PCs
    <3>2. answer' \in [Pollers -> AnswerType]
      BY <1>1, <2>1, <3>1
    <3> QED
      BY <1>1, <1>2, <3>1, <3>2
  <2> QED
    BY <1>2, <2>2 DEF IInv, TypeOK, beside
<1>5. Others(p)
  BY <1>1, <1>2 DEF Others, IInv, TypeOK
<1>6. InHand(p)'
  BY <1>1, <1>2, <1>3 DEF IInv, InHand, TypeOK, Billing
<1>7. MemFresh(p)' /\ pc'[p] \notin Billing /\ pc[p] \notin Billing
  BY <1>1, <1>2 DEF IInv, MemFresh, Fresh, TypeOK, Billing, beside
<1> QED
  BY <1>2, <1>4, <1>5, <1>6, <1>7, QuietStep

LEMMA EndPassStep ==
  ASSUME IInv, NEW p \in Pollers, EndPass(p)
  PROVE  IInv'
<1>0. UNCHANGED <<row, charged, token, beside, upstream, late, cur, answer, bill, faulty, lost>>
  BY DEF EndPass, db, env, realtime, beside
<1>1. TypeOK'
  BY <1>0 DEF EndPass, IInv, TypeOK, beside, PCs, RowType, NoRow
<1>2. Others(p)
  BY DEF EndPass, Others, IInv, TypeOK
<1>3. InHand(p)' /\ MemFresh(p)'
  BY DEF EndPass, InHand, MemFresh, IInv, TypeOK, NoRow, Unfinished, Billing
<1> QED
  BY <1>0, <1>1, <1>2, <1>3, QuietStep DEF EndPass, Billing, IInv, TypeOK

(* A step that gives the row in hand back keeps the types.                 *)
LEMMA ReturnTypes ==
  ASSUME TypeOK, NEW p \in Pollers, NEW label \in PCs, Return(p, label)
  PROVE  /\ pc' \in [Pollers -> PCs]
         /\ cur' \in [Pollers -> Tasks \cup {NoTask}]
         /\ answer' \in [Pollers -> AnswerType]
         /\ bill' \in [Pollers -> [delta : Int, actual : Nat, next : PCs]]
         /\ pc'[p] = label /\ cur'[p] = NoTask
         /\ \A q \in Pollers \ {p} : pc'[q] = pc[q] /\ cur'[q] = cur[q]
                                     /\ answer'[q] = answer[q] /\ bill'[q] = bill[q]
<1>1. NoBill \in [delta : Int, actual : Nat, next : PCs]
  BY DEF NoBill, PCs
<1> QED
  BY <1>1 DEF TypeOK, Return, AnswerType

(* And so does the beginning of a refund or of a settlement.               *)
LEMMA BilledTypes ==
  ASSUME TypeOK, NEW p \in Pollers, NEW t \in Tasks, NEW delta \in Int, NEW actual \in Nat,
         NEW next \in PCs, Billed(p, t, delta, actual, next)
  PROVE  /\ pc' \in [Pollers -> PCs]
         /\ cur' \in [Pollers -> Tasks \cup {NoTask}]
         /\ answer' \in [Pollers -> AnswerType]
         /\ bill' \in [Pollers -> [delta : Int, actual : Nat, next : PCs]]
         /\ pc'[p] = "fund" /\ cur'[p] = t
         /\ bill'[p].delta = delta /\ bill'[p].actual = actual /\ bill'[p].next = next
         /\ \A q \in Pollers \ {p} : pc'[q] = pc[q] /\ cur'[q] = cur[q]
                                     /\ answer'[q] = answer[q] /\ bill'[q] = bill[q]
<1>1. "fund" \in PCs
  BY DEF PCs, Billing
<1>2. [delta |-> delta, actual |-> actual, next |-> next]
        \in [delta : Int, actual : Nat, next : PCs]
  OBVIOUS
<1> QED
  BY <1>1, <1>2 DEF TypeOK, Billed

(* A pass wins the conditional update of t and returns, or goes on to bill.*)
LEMMA ApplyStep ==
  ASSUME IInv, NEW p \in Pollers, NEW t \in Tasks,
         NEW status \in Unfinished \cup Final, NEW progress \in {"open", "full"},
         NEW next \in {"sweep", "poll"},
         pc[p] \notin Billing, mem[p][t].status \in Unfinished,
         CasHits(p, t), StoreAs(p, t, status, progress),
         work' \in [Pollers -> SUBSET Tasks], work'[p] \subseteq work[p],
         \A q \in Pollers \ {p} : work'[q] = work[q],
         UNCHANGED <<charged, token, beside, upstream, late, mem, faulty, lost>>,
         \/ /\ Return(p, next)
            /\ status = "FAILURE" => t \in Legacy \/ mem[p][t].quota = 0
         \/ \E actual \in Nat :
               /\ Billed(p, t, actual - mem[p][t].quota, actual, next)
               /\ status = (IF actual = 0 THEN "FAILURE" ELSE "SUCCESS")
  PROVE  IInv'
<1>0. TypeOK /\ next \in PCs /\ mem[p][t].quota \in Nat
  BY DEF IInv, TypeOK, RowType, PCs
<1>1. /\ row' \in [Tasks -> RowType]
      /\ \A u \in Tasks \ {t} : row'[u] = row[u]
      /\ row'[t].status = status /\ row'[t].quota = mem[p][t].quota
  <2>1. [status |-> status, progress |-> progress, quota |-> mem[p][t].quota] \in RowType
    BY <1>0 DEF RowType
  <2> QED
    BY <1>0, <2>1 DEF StoreAs, TypeOK
<1>2. CASE /\ Return(p, next)
           /\ status = "FAILURE" => t \in Legacy \/ mem[p][t].quota = 0
  <2>1. TypeOK' /\ Others(p) /\ pc'[p] = next
    BY <1>0, <1>1, <1>2, ReturnTypes DEF TypeOK, Others, beside
  <2>2. InHand(p)' /\ pc'[p] \notin Billing
    BY <1>2, <2>1 DEF IInv, InHand, Billing
  <2> QED
    BY <1>1, <1>2, <2>1, <2>2, StoreStep
<1>3. ASSUME NEW actual \in Nat, Billed(p, t, actual - mem[p][t].quota, actual, next),
             status = (IF actual = 0 THEN "FAILURE" ELSE "SUCCESS")
      PROVE  IInv'
  <2>0. actual - mem[p][t].quota \in Int
    BY <1>0
  <2>1. /\ TypeOK' /\ Others(p)
        /\ pc'[p] = "fund" /\ cur'[p] = t /\ bill'[p].next = next
        /\ bill'[p].delta = actual - mem[p][t].quota /\ bill'[p].actual = actual
    BY <1>0, <1>1, <1>3, <2>0, BilledTypes DEF TypeOK, Others, beside
  <2>2. InHand(p)'
    BY <2>1 DEF IInv, InHand, Billing
  <2> QED
    BY <1>1, <1>3, <2>1, <2>2, StoreStep
<1> QED
  BY <1>2, <1>3

(* A pass drops the row in hand and stores nothing.                        *)
LEMMA DropStep ==
  ASSUME IInv, NEW p \in Pollers, Return(p, "poll"), pc[p] \notin Billing,
         UNCHANGED <<row, charged, token, beside, upstream, late, mem, work, faulty, lost>>
  PROVE  IInv'
<1>0. TypeOK /\ "poll" \in PCs
  BY DEF IInv, PCs
<1>1. TypeOK' /\ Others(p) /\ pc'[p] = "poll"
  BY <1>0, ReturnTypes DEF TypeOK, Others, beside
<1>2. InHand(p)' /\ MemFresh(p)'
  BY <1>1 DEF IInv, InHand, MemFresh, Fresh, Billing, beside
<1> QED
  BY <1>1, <1>2, QuietStep DEF Billing

(* RefundTaskQuota: nothing to do for a task that cost nothing.            *)
LEMMA RefundCases ==
  ASSUME IInv, NEW p \in Pollers, NEW t \in Tasks, NEW next, Refund(p, t, next)
  PROVE  \/ Return(p, next) /\ mem[p][t].quota = 0
         \/ \E actual \in Nat : actual = 0 /\ Billed(p, t, actual - mem[p][t].quota, actual, next)
<1>1. mem[p][t].quota \in Nat
  BY DEF IInv, TypeOK, RowType
<1> QED
  BY <1>1 DEF Refund, Adjust, Billed

(* settleTaskBillingOnComplete: nothing to do, or a settlement.            *)
LEMMA SettleCases ==
  ASSUME IInv, NEW p \in Pollers, NEW t \in Tasks, NEW next, Settle(p, t, next)
  PROVE  \/ Return(p, next)
         \/ \E actual \in Nat : actual # 0 /\ Billed(p, t, actual - mem[p][t].quota, actual, next)
<1>1. Actuals \subseteq Nat
  BY TaskPollingAssumption
<1> QED
  BY <1>1 DEF Settle, Adjust, Billed

LEMMA SweepStep ==
  ASSUME IInv, NEW p \in Pollers, SweepTask(p)
  PROVE  IInv'
<1>1. PICK t \in work[p] :
        /\ work' = [work EXCEPT ![p] = @ \ {t}]
        /\ \/ /\ CasHits(p, t)
              /\ StoreAs(p, t, "FAILURE", "full")
              /\ IF t \in Legacy THEN Return(p, "sweep") ELSE Refund(p, t, "sweep")
           \/ UNCHANGED <<row, pc, cur, answer, bill>>
  BY DEF SweepTask, Take
<1>2. /\ pc[p] = "sweep" /\ t \in Tasks /\ mem[p][t].status \in Unfinished
      /\ UNCHANGED <<charged, token, beside, upstream, late, mem, faulty, lost>>
  BY DEF SweepTask, IInv, TypeOK, InHand, env, realtime, beside
<1>3. /\ work' \in [Pollers -> SUBSET Tasks] /\ work'[p] \subseteq work[p]
      /\ \A q \in Pollers \ {p} : work'[q] = work[q]
  BY <1>1 DEF IInv, TypeOK
<1>4. CASE UNCHANGED <<row, pc, cur, answer, bill>>
  <2>1. TypeOK'
    BY <1>2, <1>3, <1>4 DEF IInv, TypeOK, beside
  <2>2. Others(p) /\ InHand(p)' /\ MemFresh(p)'
    BY <1>2, <1>3, <1>4 DEF IInv, Others, InHand, MemFresh, Fresh, beside
  <2> QED
    BY <1>2, <1>4, <2>1, <2>2, QuietStep DEF Billing
<1>5. CASE /\ CasHits(p, t)
           /\ StoreAs(p, t, "FAILURE", "full")
           /\ IF t \in Legacy THEN Return(p, "sweep") ELSE Refund(p, t, "sweep")
  <2>1. \/ Return(p, "sweep") /\ (t \in Legacy \/ mem[p][t].quota = 0)
        \/ \E actual \in Nat : /\ actual = 0
                               /\ Billed(p, t, actual - mem[p][t].quota, actual, "sweep")
    BY <1>2, <1>5, RefundCases
  <2> QED
    BY <1>2, <1>3, <1>5, <2>1, ApplyStep DEF Billing, Final
<1> QED
  BY <1>1, <1>4, <1>5

LEMMA VideoStep ==
  ASSUME IInv, NEW p \in Pollers, VideoApply(p)
  PROVE  IInv'
<1> DEFINE t == cur[p]
<1>1. /\ pc[p] = "apply" /\ t \in Tasks /\ mem[p][t].status \in Unfinished
      /\ UNCHANGED <<charged, token, beside, upstream, late, mem, work, faulty, lost>>
  BY DEF VideoApply, IInv, InHand, env, realtime, beside
<1>2. /\ work' \in [Pollers -> SUBSET Tasks] /\ work'[p] \subseteq work[p]
      /\ \A q \in Pollers \ {p} : work'[q] = work[q]
  BY <1>1 DEF IInv, TypeOK
<1>3. CASE Return(p, "poll") /\ UNCHANGED row
  BY <1>1, <1>3, DropStep DEF Billing
<1>4. CASE /\ CasHits(p, t) /\ Return(p, "poll")
           /\ StoreAs(p, t, "IN_PROGRESS", IF answer[p] = "FULL" THEN "full" ELSE "open")
  BY <1>1, <1>2, <1>4, ApplyStep DEF Billing, Unfinished
<1>5. CASE /\ CasHits(p, t) /\ StoreAs(p, t, "SUCCESS", "full") /\ Settle(p, t, "poll")
  <2>1. \/ Return(p, "poll")
        \/ \E actual \in Nat : /\ actual # 0
                               /\ Billed(p, t, actual - mem[p][t].quota, actual, "poll")
    BY <1>1, <1>5, SettleCases
  <2> QED
    BY <1>1, <1>2, <1>5, <2>1, ApplyStep DEF Billing, Final
<1>6. CASE /\ CasHits(p, t) /\ StoreAs(p, t, "FAILURE", "full") /\ Refund(p, t, "poll")
  <2>1. \/ Return(p, "poll") /\ mem[p][t].quota = 0
        \/ \E actual \in Nat : /\ actual = 0
                               /\ Billed(p, t, actual - mem[p][t].quota, actual, "poll")
    BY <1>1, <1>6, RefundCases
  <2> QED
    BY <1>1, <1>2, <1>6, <2>1, ApplyStep DEF Billing, Final
<1> QED
  BY <1>3, <1>4, <1>5, <1>6 DEF VideoApply

(* BulkFail ends rows behind everybody's back; they count as lost.         *)
LEMMA BulkFailStep ==
  ASSUME IInv, NEW p \in Pollers, BulkFail(p)
  PROVE  IInv'
<1>1. PICK t \in work[p] :
        /\ work' = [work EXCEPT ![p] = @ \ {t}]
        /\ \/ /\ row' = [row EXCEPT ![t] =
                          [status |-> "FAILURE", progress |-> "full", quota |-> @.quota]]
              /\ lost' = lost \cup {t}
           \/ UNCHANGED <<row, lost>>
  BY DEF BulkFail, Take
<1>2. /\ t \in Tasks /\ mem[p][t].status \in Unfinished /\ pc[p] = "poll"
      /\ UNCHANGED <<charged, token, upstream, late, pc, mem, cur, answer, bill, faulty>>
      /\ UNCHANGED <<unsettled, view, viewed, reopened>>
  BY DEF BulkFail, IInv, TypeOK, InHand, env, realtime
<1>3. /\ row' \in [Tasks -> RowType]
      /\ \A u \in Tasks \ {t} : row'[u] = row[u]
      /\ row'[t] = row[t] \/ (row'[t].status = "FAILURE" /\ t \in lost')
      /\ lost \subseteq lost' /\ lost' \subseteq Tasks
  <2>1. row \in [Tasks -> RowType] /\ row[t].quota \in Nat
    BY <1>2 DEF IInv, TypeOK, RowType
  <2>2. [status |-> "FAILURE", progress |-> "full", quota |-> row[t].quota] \in RowType
    BY <2>1 DEF RowType, Final
  <2>3. \/ row' = [row EXCEPT ![t] =
                     [status |-> "FAILURE", progress |-> "full", quota |-> row[t].quota]]
        \/ UNCHANGED row
    BY <1>1
  <2>4. lost \subseteq Tasks
    BY DEF IInv, TypeOK
  <2> QED
    BY <1>1, <1>2, <2>1, <2>2, <2>3, <2>4
<1>4. TypeOK'
  BY <1>1, <1>2, <1>3 DEF IInv, TypeOK
<1>5. \A q \in Pollers : work'[q] \subseteq work[q]
  BY <1>1 DEF IInv, TypeOK
<1>6. /\ \A q \in Pollers : InHand(q)' /\ MemFresh(q)'
      /\ \A v \in Viewers : ViewFresh(v)'
  <2>1. \A v \in Viewers : ViewFresh(v)'
    BY <1>2, <1>3, ViewsStayFresh DEF Unfinished
  <2> QED
    BY <1>2, <1>3, <1>5, <2>1 DEF IInv, InHand, MemFresh, Fresh, Unfinished
<1>7. \A q \in Pollers : BillProgress(q)'
  BY <1>1, <1>2, <1>3 DEF IInv, BillProgress, InHand
<1>8. OpenCharged' /\ OneBiller'
  BY <1>2, <1>3 DEF IInv, OpenCharged, OneBiller, Bills, Final
<1>9. NeverOverRefunded' /\ BilledAsRecorded'
  BY <1>1, <1>2, <1>3 DEF IInv, NeverOverRefunded, BilledAsRecorded, InBilling
<1> QED
  BY <1>2, <1>4, <1>6, <1>7, <1>8, <1>9 DEF IInv

-----------------------------------------------------------------------------
(* Refunds and settlements.                                                *)

(* One statement of the billing of t by p.  Nobody else bills t, and its   *)
(* row has ended, so no pass can win a conditional update of it any more.  *)
LEMMA BillStep ==
  ASSUME IInv, NEW p \in Pollers, NEW t \in Tasks, pc[p] \in Billing, cur[p] = t,
         TypeOK', Others(p), UNCHANGED <<mem, work, beside, lost>>,
         \A u \in Tasks \ {t} :
            row'[u] = row[u] /\ charged'[u] = charged[u] /\ token'[u] = token[u],
         faulty \subseteq faulty', faulty' \subseteq faulty \cup {t},
         row'[t].status = row[t].status,
         t \notin reopened =>
            charged'[t] + unsettled[t].fund >= 0 /\ token'[t] + unsettled[t].token >= 0,
         InHand(p)', BillProgress(p)',
         \/ pc'[p] \in Billing /\ cur'[p] = t
         \/ /\ pc'[p] \notin Billing
            /\ t \notin faulty' \cup lost \cup viewed =>
                 LET due == IF row'[t].status = "FAILURE" THEN 0 ELSE row'[t].quota
                 IN  /\ charged'[t] + unsettled[t].fund = due
                     /\ token'[t] + unsettled[t].token = due
  PROVE  IInv'
<1>0. /\ UNCHANGED <<unsettled, view, viewed, reopened>>
      /\ reopened \subseteq viewed
  BY DEF beside, IInv
<1>1. Bills(p, t) /\ (t \notin reopened => row[t].status \in Final)
  BY DEF Bills, IInv, OpenCharged
<1>2. t \notin reopened => \A q \in Pollers \ {p} : ~Bills(q, t)
  BY <1>1 DEF IInv, OneBiller
<1>3. \A q \in Pollers : pc[q] # "save" /\ pc'[q] # "save"
  BY DEF IInv, InHand, Others
<1>4. \A q \in Pollers, u \in Tasks :
         Bills(q, u)' <=> Bills(q, u) /\ (q = p => pc'[p] \in Billing)
  BY DEF Bills, Others
<1>5. /\ \A q \in Pollers : InHand(q)' /\ MemFresh(q)'
      /\ \A v \in Viewers : ViewFresh(v)'
  <2>1. \A v \in Viewers : ViewFresh(v)'
    BY <1>0, <1>1, ViewsStayFresh DEF Final, Unfinished
  <2> QED
    BY <1>0, <1>1, <2>1 DEF IInv, InHand, MemFresh, Fresh, Others, Final, Unfinished
<1>6. \A q \in Pollers \ {p} : BillProgress(q)'
  BY <1>0, <1>2 DEF IInv, BillProgress, InHand, Bills, Others, Billing
<1>7. OpenCharged' /\ OneBiller'
  BY <1>0, <1>1, <1>4 DEF IInv, OpenCharged, OneBiller
<1>8. NeverOverRefunded'
  BY <1>0 DEF IInv, NeverOverRefunded
<1>9. BilledAsRecorded'
  <2> DEFINE due(u) == IF row'[u].status = "FAILURE" THEN 0 ELSE row'[u].quota
  <2> SUFFICES ASSUME NEW u \in Tasks, u \notin Legacy, u \notin faulty' \cup lost \cup viewed,
                      ~InBilling(u)'
               PROVE  /\ charged'[u] + unsettled[u].fund = due(u)
                      /\ token'[u] + unsettled[u].token = due(u)
    BY <1>0 DEF BilledAsRecorded
  <2>1. CASE u = t
    BY <2>1 DEF InBilling
  <2>2. CASE u # t
    <3>1. ~InBilling(u)
      BY <1>3, <1>4, <2>2 DEF InBilling, Bills
    <3> QED
      BY <2>2, <3>1 DEF IInv, BilledAsRecorded
  <2> QED
    BY <2>1, <2>2
<1> QED
  BY <1>0, <1>5, <1>6, <1>7, <1>8, <1>9 DEF IInv

(* What holds when a pass stands before a statement of a billing.          *)
LEMMA BillFacts ==
  ASSUME IInv, NEW p \in Pollers, pc[p] \in Billing
  PROVE  /\ TypeOK /\ cur[p] \in Tasks
         /\ bill[p].next \in {"sweep", "poll"} /\ bill[p].next \in PCs
         /\ bill[p].delta \in Int /\ bill[p].actual \in Nat
         /\ charged[cur[p]] \in Int /\ token[cur[p]] \in Int
         /\ unsettled[cur[p]].fund \in Int /\ unsettled[cur[p]].token \in Int
         /\ cur[p] \notin reopened =>
               /\ charged[cur[p]] + unsettled[cur[p]].fund >= 0
               /\ token[cur[p]] + unsettled[cur[p]].token >= 0
         /\ row[cur[p]].quota \in Nat
         /\ AfterBill(p) => Return(p, bill[p].next)
<1>1. cur[p] \in Tasks /\ bill[p].next \in {"sweep", "poll"}
  BY DEF IInv, InHand
<1>2. /\ TypeOK
      /\ cur[p] \notin reopened =>
            /\ charged[cur[p]] + unsettled[cur[p]].fund >= 0
            /\ token[cur[p]] + unsettled[cur[p]].token >= 0
  BY <1>1 DEF IInv, NeverOverRefunded
<1>3. /\ bill[p].delta \in Int /\ bill[p].actual \in Nat
      /\ charged[cur[p]] \in Int /\ token[cur[p]] \in Int /\ row[cur[p]].quota \in Nat
      /\ unsettled[cur[p]].fund \in Int /\ unsettled[cur[p]].token \in Int
  BY <1>1, <1>2 DEF TypeOK, RowType
<1>4. AfterBill(p) => Return(p, bill[p].next)
  BY <1>1 DEF AfterBill
<1> QED
  BY <1>1, <1>2, <1>3, <1>4 DEF PCs

(* The billing goes on with the next statement.                            *)
LEMMA NextStatement ==
  ASSUME IInv, NEW p \in Pollers, pc[p] \in Billing, NEW label \in Billing,
         pc' = [pc EXCEPT ![p] = label], UNCHANGED <<cur, answer, bill, work, mem>>
  PROVE  /\ pc' \in [Pollers -> PCs] /\ pc'[p] = label
         /\ Others(p) /\ InHand(p)'
<1>1. pc \in [Pollers -> PCs] /\ label \in PCs
  BY DEF IInv, TypeOK, PCs
<1>2. /\ pc' \in [Pollers -> PCs] /\ pc'[p] = label
      /\ \A q \in Pollers \ {p} : pc'[q] = pc[q]
  BY <1>1
<1> QED
  BY <1>2 DEF IInv, InHand, Others, Billing

(* The billing is over.                                                    *)
LEMMA LastStatement ==
  ASSUME IInv, NEW p \in Pollers, pc[p] \in Billing, AfterBill(p), UNCHANGED <<work, mem>>
  PROVE  /\ pc' \in [Pollers -> PCs]
         /\ cur' \in [Pollers -> Tasks \cup {NoTask}]
         /\ answer' \in [Pollers -> AnswerType]
         /\ bill' \in [Pollers -> [delta : Int, actual : Nat, next : PCs]]
         /\ Others(p) /\ InHand(p)' /\ pc'[p] \notin Billing /\ BillProgress(p)'
<1>1. Return(p, bill[p].next) /\ TypeOK /\ bill[p].next \in {"sweep", "poll"} \cap PCs
  BY BillFacts
<1>2. /\ pc' \in [Pollers -> PCs]
      /\ cur' \in [Pollers -> Tasks \cup {NoTask}]
      /\ answer' \in [Pollers -> AnswerType]
      /\ bill' \in [Pollers -> [delta : Int, actual : Nat, next : PCs]]
      /\ Others(p) /\ pc'[p] \in {"sweep", "poll"}
  BY <1>1, ReturnTypes DEF Others
<1> QED
  BY <1>2 DEF IInv, InHand, BillProgress, Billing

LEMMA FundingStep ==
  ASSUME IInv, NEW p \in Pollers, AdjustFunding(p)
  PROVE  IInv'
<1> DEFINE t == cur[p]
           fund == charged[t] + unsettled[t].fund
           tok == token[t] + unsettled[t].token
<1>1. /\ pc[p] = "fund" /\ pc[p] \in Billing
      /\ UNCHANGED <<row, token, beside, upstream, late, mem, work, lost>>
      /\ UNCHANGED <<unsettled, view, viewed, reopened>>
  BY DEF AdjustFunding, Billing, env, realtime, beside
<1>2. /\ t \notin reopened => fund + bill[p].delta >= 0 /\ tok + bill[p].delta >= 0
      /\ t \notin faulty \cup lost \cup viewed =>
            /\ row[t].status = (IF bill[p].actual = 0 THEN "FAILURE" ELSE "SUCCESS")
            /\ bill[p].delta = bill[p].actual - row[t].quota
            /\ fund = row[t].quota /\ tok = row[t].quota
  BY <1>1 DEF IInv, BillProgress
<1>3. CASE /\ charged' = [charged EXCEPT ![t] = @ + bill[p].delta]
           /\ pc' = [pc EXCEPT ![p] = "token"]
           /\ UNCHANGED <<cur, answer, bill, faulty>>
  <2>1. /\ charged' \in [Tasks -> Int] /\ charged'[t] = charged[t] + bill[p].delta
        /\ \A u \in Tasks \ {t} : charged'[u] = charged[u]
        /\ charged'[t] + unsettled[t].fund = fund + bill[p].delta
    BY <1>1, <1>3, BillFacts DEF TypeOK
  <2>2. /\ pc' \in [Pollers -> PCs] /\ pc'[p] = "token"
        /\ Others(p) /\ InHand(p)'
    BY <1>1, <1>3, NextStatement DEF Billing
  <2>3. TypeOK'
    BY <1>1, <1>3, <2>1, <2>2 DEF IInv, TypeOK
  <2>4. BillProgress(p)'
    BY <1>1, <1>2, <1>3, <2>1, <2>2, BillFacts DEF BillProgress
  <2> QED
    BY <1>1, <1>2, <1>3, <2>1, <2>2, <2>3, <2>4, BillFacts, BillStep DEF Billing
<1>4. CASE Fails("fund", t) /\ AfterBill(p) /\ UNCHANGED charged
  <2>1. faulty' = faulty \cup {t} /\ t \in Tasks
    BY <1>1, <1>4, BillFacts DEF Fails
  <2>2. TypeOK'
    BY <1>1, <1>4, <2>1, LastStatement DEF IInv, TypeOK
  <2> QED
    BY <1>1, <1>4, <2>1, <2>2, LastStatement, BillFacts, BillStep
<1> QED
  BY <1>3, <1>4 DEF AdjustFunding

LEMMA TokenStep ==
  ASSUME IInv, NEW p \in Pollers, AdjustToken(p)
  PROVE  IInv'
<1> DEFINE t == cur[p]
           fund == charged[t] + unsettled[t].fund
           tok == token[t] + unsettled[t].token
           due == IF row[t].status = "FAILURE" THEN 0 ELSE row[t].quota
<1>1. /\ pc[p] = "token" /\ pc[p] \in Billing
      /\ UNCHANGED <<row, charged, beside, upstream, late, mem, work, lost>>
      /\ UNCHANGED <<unsettled, view, viewed, reopened>>
  BY DEF AdjustToken, Billing, env, realtime, beside
<1>2. /\ t \notin reopened => tok + bill[p].delta >= 0
      /\ t \notin faulty \cup lost \cup viewed =>
            /\ row[t].status = (IF bill[p].actual = 0 THEN "FAILURE" ELSE "SUCCESS")
            /\ bill[p].delta = bill[p].actual - row[t].quota
            /\ fund = bill[p].actual /\ tok = row[t].quota
  BY <1>1 DEF IInv, BillProgress
<1>3. /\ token' \in [Tasks -> Int]
      /\ \A u \in Tasks \ {t} : token'[u] = token[u]
      /\ \/ token'[t] = token[t] + bill[p].delta /\ faulty' = faulty
         \/ token'[t] = token[t] /\ faulty' = faulty \cup {t}
  BY <1>1, BillFacts DEF TypeOK, AdjustToken, Fails
<1>4. /\ faulty' \subseteq Tasks /\ faulty \subseteq faulty' /\ faulty' \subseteq faulty \cup {t}
      /\ t \notin reopened => token'[t] + unsettled[t].token >= 0
      /\ t \notin faulty' \cup lost \cup viewed =>
            token'[t] + unsettled[t].token = bill[p].actual
  BY <1>1, <1>2, <1>3, BillFacts DEF TypeOK
<1>5. CASE bill[p].actual > 0 /\ pc' = [pc EXCEPT ![p] = "quota"] /\ UNCHANGED <<cur, answer, bill>>
  <2>1. /\ pc' \in [Pollers -> PCs] /\ pc'[p] = "quota"
        /\ Others(p) /\ InHand(p)'
    BY <1>1, <1>5, NextStatement DEF Billing
  <2>2. TypeOK'
    BY <1>1, <1>3, <1>4, <1>5, <2>1 DEF IInv, TypeOK
  <2>3. BillProgress(p)'
    BY <1>1, <1>2, <1>4, <1>5, <2>1, BillFacts DEF BillProgress
  <2> QED
    BY <1>1, <1>3, <1>4, <1>5, <2>1, <2>2, <2>3, BillFacts, BillStep DEF Billing
<1>6. CASE ~(bill[p].actual > 0) /\ AfterBill(p)
  <2>1. TypeOK'
    BY <1>1, <1>3, <1>4, <1>6, LastStatement DEF IInv, TypeOK
  <2>2. bill[p].actual = 0
    BY <1>1, <1>6, BillFacts
  <2>3. t \notin faulty' \cup lost \cup viewed =>
           fund = due /\ token'[t] + unsettled[t].token = due
    BY <1>2, <1>4, <2>2
  <2> QED
    BY <1>1, <1>3, <1>4, <1>6, <2>1, <2>3, LastStatement, BillFacts, BillStep
<1> QED
  BY <1>5, <1>6 DEF AdjustToken

LEMMA QuotaStep ==
  ASSUME IInv, NEW p \in Pollers, UpdateQuota(p)
  PROVE  IInv'
<1> DEFINE t == cur[p]
           fund == charged[t] + unsettled[t].fund
           tok == token[t] + unsettled[t].token
<1>1. /\ pc[p] = "quota" /\ pc[p] \in Billing /\ AfterBill(p)
      /\ UNCHANGED <<charged, token, beside, upstream, late, mem, work, lost>>
      /\ UNCHANGED <<unsettled, view, viewed, reopened>>
  BY DEF UpdateQuota, Billing, env, realtime, beside
<1>2. /\ bill[p].actual > 0
      /\ t \notin faulty \cup lost \cup viewed =>
            /\ row[t].status = (IF bill[p].actual = 0 THEN "FAILURE" ELSE "SUCCESS")
            /\ fund = bill[p].actual /\ tok = bill[p].actual
  BY <1>1 DEF IInv, BillProgress
<1>3. /\ row' \in [Tasks -> RowType] /\ row'[t].status = row[t].status
      /\ \A u \in Tasks \ {t} : row'[u] = row[u]
      /\ \/ row'[t].quota = bill[p].actual /\ faulty' = faulty
         \/ faulty' = faulty \cup {t}
  <2>1. row \in [Tasks -> RowType] /\ t \in Tasks /\ bill[p].actual \in Nat
    BY <1>1, BillFacts DEF TypeOK
  <2>2. CASE row' = [row EXCEPT ![t].quota = bill[p].actual] /\ UNCHANGED faulty
    BY <2>1, <2>2 DEF RowType
  <2>3. CASE Fails("quota", t) /\ UNCHANGED row
    BY <2>1, <2>3 DEF Fails
  <2> QED
    BY <2>2, <2>3 DEF UpdateQuota
<1>4. TypeOK'
  BY <1>1, <1>3, LastStatement, BillFacts DEF TypeOK
<1>5. t \notin faulty' \cup lost \cup viewed =>
         LET due == IF row'[t].status = "FAILURE" THEN 0 ELSE row'[t].quota
         IN  fund = due /\ tok = due
  BY <1>1, <1>2, <1>3, BillFacts
<1> QED
  BY <1>1, <1>3, <1>4, <1>5, LastStatement, BillFacts, BillStep

(* What a crash cuts off counts as faulty.                                 *)
LEMMA CrashStep ==
  ASSUME IInv, NEW p \in Pollers, Crash(p)
  PROVE  IInv'
<1>0. /\ TypeOK /\ "idle" \in PCs /\ Return(p, "idle")
      /\ faulty' = faulty \cup ({cur[p]} \ {NoTask})
      /\ UNCHANGED <<row, charged, token, upstream, late, lost>>
      /\ UNCHANGED <<unsettled, view, viewed, reopened>>
      /\ mem' = [mem EXCEPT ![p] = [t \in Tasks |-> NoRow]]
      /\ work' = [work EXCEPT ![p] = {}]
  BY DEF IInv, Crash, db, env, realtime, PCs
<1>1. [t \in Tasks |-> NoRow] \in [Tasks -> RowType]
  BY DEF RowType, NoRow
<1>2. /\ mem' \in [Pollers -> [Tasks -> RowType]] /\ mem'[p] = [t \in Tasks |-> NoRow]
      /\ work' \in [Pollers -> SUBSET Tasks] /\ work'[p] = {}
      /\ \A q \in Pollers \ {p} : mem'[q] = mem[q] /\ work'[q] = work[q]
      /\ faulty' \subseteq Tasks
  BY <1>0, <1>1 DEF TypeOK
<1>3. TypeOK' /\ Others(p) /\ pc'[p] = "idle"
  BY <1>0, <1>2, ReturnTypes DEF TypeOK, Others
<1>4. /\ \A q \in Pollers : InHand(q)' /\ MemFresh(q)'
      /\ \A v \in Viewers : ViewFresh(v)'
  BY <1>0, <1>2, <1>3
  DEF IInv, InHand, MemFresh, ViewFresh, Fresh, Others, NoRow, Unfinished, Billing
<1>5. \A q \in Pollers : BillProgress(q)'
  BY <1>0, <1>3 DEF IInv, BillProgress, Others, Billing
<1>6. OpenCharged' /\ OneBiller'
  BY <1>0, <1>3 DEF IInv, OpenCharged, OneBiller, Bills, Others, Billing
<1>7. NeverOverRefunded' /\ BilledAsRecorded'
  <2> SUFFICES ASSUME NEW u \in Tasks, u \notin faulty', ~InBilling(u)'
               PROVE  u \notin faulty /\ ~InBilling(u)
    BY <1>0 DEF IInv, NeverOverRefunded, BilledAsRecorded
  <2>1. u # cur[p]
    BY <1>0, TaskPollingAssumption
  <2> QED
    BY <1>0, <1>3, <2>1 DEF InBilling, Others
<1> QED
  BY <1>0, <1>3, <1>4, <1>5, <1>6, <1>7 DEF IInv

-----------------------------------------------------------------------------
(* The specification.                                                      *)

LEMMA NextOK ==
  ASSUME Suno = {}, IInv, [Next]_vars
  PROVE  IInv'
<1>1. CASE UNCHANGED vars
  <2>1. TypeOK'
    BY <1>1 DEF IInv, TypeOK, vars, db, env, realtime, pass
  <2>2. \A v \in Viewers : ViewFresh(v)'
    BY <1>1 DEF IInv, ViewFresh, Fresh, vars, db, env, realtime
  <2> QED
    BY <1>1, <2>1, <2>2, QuietEnvironment DEF vars, env, realtime
<1>2. ASSUME NEW t \in Tasks, Submit(t) \/ UpstreamEnds(t) \/ TimesOut(t)
      PROVE  IInv'
  BY <1>2, SubmitStep, EnvironmentStep
<1>3. ASSUME NEW p \in Pollers, Step(p)
      PROVE  IInv'
  <2>1. ~SunoApply(p) /\ ~SunoSave(p)
    BY DEF SunoApply, SunoSave, IInv, InHand
  <2> QED
    BY <1>3, <2>1, LoadStep, SweepStep, BulkFailStep, FetchStep, VideoStep, EndPassStep,
       FundingStep, TokenStep, QuotaStep DEF Step
<1>4. ASSUME NEW p \in Pollers, Crash(p)
      PROVE  IInv'
  BY <1>4, CrashStep
<1>5. ASSUME NEW v \in Viewers,
             (\E t \in Realtime : RealtimeRead(v, t)) \/ RealtimeAnswer(v) \/ RealtimeStore(v)
      PROVE  IInv'
  BY <1>5, RealtimeReadStep, RealtimeStoreStep
<1> QED
  BY <1>1, <1>2, <1>3, <1>4, <1>5 DEF Next

LEMMA Invariance ==
  ASSUME Suno = {}
  PROVE  Spec => []IInv
<1>1. Init => IInv
  BY InitOK
<1>2. IInv /\ [Next]_vars => IInv'
  BY NextOK
<1> QED
  BY <1>1, <1>2, PTL DEF Spec

(* The variables keep their types.                                         *)
THEOREM TypeCorrect ==
  ASSUME Suno = {}
  PROVE  Spec => []TypeOK
<1>1. IInv => TypeOK
  BY DEF IInv
<1> QED
  BY <1>1, Invariance, PTL

(* No video task gives back more than it cost, beyond what the settlement  *)
(* of its submission failed to take, whatever passes and realtime fetches  *)
(* overlap, fail or die; unless a realtime fetch set it back to unfinished.*)
THEOREM NoOverRefund ==
  ASSUME Suno = {}
  PROVE  Spec => []NeverOverRefunded
<1>1. IInv => NeverOverRefunded
  BY DEF IInv
<1> QED
  BY <1>1, Invariance, PTL

(* Once no billing of it is in progress, a video task has cost what its    *)
(* row records, nothing if it failed and its quota otherwise, up to what   *)
(* the settlement of its submission failed to move; unless a statement of  *)
(* its billing failed, its channel could not be read or a realtime fetch   *)
(* wrote its end.                                                          *)
THEOREM BillsMatchRows ==
  ASSUME Suno = {}
  PROVE  Spec => []BilledAsRecorded
<1>1. IInv => BilledAsRecorded
  BY DEF IInv
<1> QED
  BY <1>1, Invariance, PTL

(* A conditional update finds a row that has not ended.                    *)
LEMMA CasFindsUnfinished ==
  ASSUME NEW p \in Pollers, NEW t \in Tasks, NEW status, NEW progress,
         row \in [Tasks -> RowType], mem[p][t].status \in Unfinished,
         CasHits(p, t), StoreAs(p, t, status, progress)
  PROVE  \A u \in Tasks : row[u].status \in Final => row'[u].status = row[u].status
  BY DEF CasHits, StoreAs, Unfinished, Final

(* A video task that has ended keeps its outcome in every step but the     *)
(* bulk failure of an unreadable channel and the write of a realtime fetch.*)
THEOREM FinalStays ==
  ASSUME Suno = {}
  PROVE  Spec => FinalStatusStays
<1> DEFINE Keeps == \A t \in Tasks : row[t].status \in Final => row'[t].status = row[t].status
           Allowed == (\E p \in Pollers : BulkFail(p)) \/ (\E v \in Viewers : RealtimeStore(v))
<1>1. ASSUME IInv, [Next]_vars PROVE [Keeps \/ Allowed]_vars
  <2>0. row \in [Tasks -> RowType]
    BY <1>1 DEF IInv, TypeOK
  <2>1. CASE UNCHANGED row
    BY <2>1
  <2>2. ASSUME NEW t \in Tasks, Submit(t) PROVE Keeps
    BY <2>0, <2>2 DEF Submit, NoRow, Final
  <2>3. ASSUME NEW p \in Pollers, SweepTask(p) PROVE Keeps
    <3>1. PICK t \in work[p] :
            (CasHits(p, t) /\ StoreAs(p, t, "FAILURE", "full")) \/ UNCHANGED row
      BY <2>3 DEF SweepTask
    <3>2. t \in Tasks /\ mem[p][t].status \in Unfinished
      BY <1>1 DEF IInv, TypeOK, InHand
    <3> QED
      BY <2>0, <3>1, <3>2, CasFindsUnfinished
  <2>4. ASSUME NEW p \in Pollers, VideoApply(p) PROVE Keeps
    <3>1. cur[p] \in Tasks /\ mem[p][cur[p]].status \in Unfinished
      BY <1>1, <2>4 DEF IInv, InHand, VideoApply
    <3>2. \/ UNCHANGED row
          \/ \E status, progress : CasHits(p, cur[p]) /\ StoreAs(p, cur[p], status, progress)
      BY <2>4 DEF VideoApply
    <3> QED
      BY <2>0, <3>1, <3>2, CasFindsUnfinished
  <2>5. ASSUME NEW p \in Pollers, UpdateQuota(p) PROVE Keeps
    <3>1. cur[p] \in Tasks
      BY <1>1, <2>5, BillFacts DEF UpdateQuota, Billing
    <3> QED
      BY <2>0, <2>5, <3>1 DEF UpdateQuota, RowType
  <2>6. \A p \in Pollers : ~SunoApply(p) /\ ~SunoSave(p)
    BY <1>1 DEF SunoApply, SunoSave, IInv, InHand
  <2>7. ASSUME NEW p \in Pollers, Step(p) PROVE Keeps \/ UNCHANGED row \/ BulkFail(p)
    BY <2>3, <2>4, <2>5, <2>6, <2>7
    DEF Step, BeginPass, QueryUnfinished, Fetch, EndPass, AdjustFunding, AdjustToken, db
  <2>8. CASE Next
    BY <2>1, <2>2, <2>7, <2>8
    DEF Next, UpstreamEnds, TimesOut, Crash, RealtimeRead, RealtimeAnswer, db
  <2> QED
    BY <1>1, <2>8
<1> QED
  BY <1>1, Invariance, PTL DEF Spec, FinalStatusStays
=============================================================================
