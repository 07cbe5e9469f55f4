CONSTANTS
  p1 = p1
  p2 = p2
  t1 = t1
  t2 = t2
  v1 = v1
  NoTask = NoTask
  Pollers = {p1, p2}
  Tasks = {t1}
  Suno = {}
  Legacy = {}
  Realtime = {t1}
  Viewers = {v1}
  Quotas = {2}
  Reserved = {1}
  Actuals = {1, 3}
  Answers = {"ERROR", "FULL"}
  Fallible <- AllStatements
  CrashPoints <- AllPCs
SPECIFICATION Spec
SYMMETRY MCSymmetry
INVARIANT TypeOK NeverOverRefunded BilledAsRecorded
PROPERTY FinalStatusStays
