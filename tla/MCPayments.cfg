SPECIFICATION FairSpec
CONSTANTS
  o1 = o1
  o2 = o2
  n1 = n1
  n2 = n2
  Orders = {o1, o2}
  Nodes = {n1}
  NHandlers = 2
  Mixes <- EveryMix
  Databases <- BothDatabases
  Limit = 1
  Faults <- AllFaults
  MaxFaults = 2
INVARIANTS
  TypeOK
  OneAtATime
  RowMatchesCredit
PROPERTIES
  FinalStatusStays
  ImplementsLedger
  PaidIsCredited
CHECK_DEADLOCK FALSE
