CONSTANTS
  p1 = p1
  p2 = p2
  t1 = t1
  t2 = t2
  v1 = v1
  NoTask = NoTask
  Pollers = {p1}
  Tasks = {t1}
  Suno = {t1}
  Legacy = {}
  Realtime = {}
  Viewers = {}
  Quotas = {2}
  Reserved = {1}
  Actuals = {3}
  Answers = {"REASON"}
  Fallible = {"save"}
  CrashPoints = {}
SPECIFICATION Spec
INVARIANT NeverOverRefunded
