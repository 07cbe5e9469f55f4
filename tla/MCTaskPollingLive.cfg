CONSTANTS
  p1 = p1
  p2 = p2
  t1 = t1
  t2 = t2
  v1 = v1
  NoTask = NoTask
  Pollers = {p1}
  Tasks = {t1, t2}
  Suno = {t1}
  Legacy = {t2}
  Realtime = {t2}
  Viewers = {v1}
  Quotas = {2}
  Reserved = {1}
  Actuals = {3}
  Answers = {"ERROR", "FULL", "REASON"}
  Fallible = {"channel", "bulk", "fund"}
  CrashPoints = {}
SPECIFICATION FairSpec
PROPERTY EveryTaskEnds
