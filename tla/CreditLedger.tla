---------------------------- MODULE CreditLedger ----------------------------
(***************************************************************************)
(* What the payment code promises a user and the operator, without         *)
(* notices, locks, rows or faults: an order is credited once, only after   *)
(* it was paid or an administrator approved it, and never after it was     *)
(* closed; a credited order is never closed.  Payments implements it.      *)
(***************************************************************************)
EXTENDS Naturals

CONSTANT Orders

VARIABLES
  due,      \* orders that were paid or approved
  closed,   \* orders that were given up
  credits   \* how often each order was credited

ledgerVars == <<due, closed, credits>>

LedgerInit == due = {} /\ closed = {} /\ credits = [o \in Orders |-> 0]

Allow(o) == due' = due \union {o} /\ UNCHANGED <<closed, credits>>

Close(o) ==
  /\ credits[o] = 0
  /\ closed' = closed \union {o}
  /\ UNCHANGED <<due, credits>>

Credit(o) ==
  /\ o \in due \ closed
  /\ credits[o] = 0
  /\ credits' = [credits EXCEPT ![o] = 1]
  /\ UNCHANGED <<due, closed>>

LedgerNext == \E o \in Orders : Allow(o) \/ Close(o) \/ Credit(o)

LedgerSpec == LedgerInit /\ [][LedgerNext]_ledgerVars
=============================================================================
