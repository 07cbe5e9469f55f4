SPECIFICATION Spec
CONSTANTS
  o1 = o1
  o2 = o2
  n1 = n1
  n2 = n2
  Orders = {o1, o2}
  Nodes = {n1}
  NHandlers = 2
  Mixes <- TwoSubs
  Databases <- OnServer
  Limit = 1
  Faults <- NoFaults
  MaxFaults = 0
INVARIANTS
  PurchaseLimit
CHECK_DEADLOCK FALSE
