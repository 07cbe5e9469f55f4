------------------------------ MODULE JobQueue ------------------------------
(***************************************************************************)
(* What the system-task tables promise, without leases, locks or clocks:  *)
(* a task of a type is submitted when no other task of that type is       *)
(* active, is started once, by one runner, and ends once.  SystemTask     *)
(* implements it.                                                          *)
(***************************************************************************)
EXTENDS Naturals

CONSTANTS Runners, Types, TaskIds, NoRunner

VARIABLES status, type, lockedBy

jqVars == <<status, type, lockedBy>>

ActiveStatuses == {"pending", "running"}
EndStatuses == {"succeeded", "failed"}

JQInit ==
    /\ status = [t \in TaskIds |-> "none"]
    /\ type \in [TaskIds -> Types]
    /\ lockedBy = [t \in TaskIds |-> NoRunner]

(* A new row; at most one active row of a type. *)
Submit(t, ty) ==
    /\ status[t] = "none"
    /\ \A u \in TaskIds : type[u] = ty => status[u] \notin ActiveStatuses
    /\ status' = [status EXCEPT ![t] = "pending"]
    /\ type' = [type EXCEPT ![t] = ty]
    /\ UNCHANGED lockedBy

(* One runner takes the task. *)
Start(t, r) ==
    /\ status[t] = "pending"
    /\ status' = [status EXCEPT ![t] = "running"]
    /\ lockedBy' = [lockedBy EXCEPT ![t] = r]
    /\ UNCHANGED type

(* The task ends, for good. *)
End(t, outcome) ==
    /\ status[t] = "running"
    /\ status' = [status EXCEPT ![t] = outcome]
    /\ UNCHANGED <<type, lockedBy>>

JQNext ==
    \E t \in TaskIds :
        \/ \E ty \in Types : Submit(t, ty)
        \/ \E r \in Runners : Start(t, r)
        \/ \E outcome \in EndStatuses : End(t, outcome)

JQSpec == JQInit /\ [][JQNext]_jqVars
=============================================================================
