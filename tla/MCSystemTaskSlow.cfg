CONSTANTS
  r1 = r1
  r2 = r2
  r3 = r3
  NoRunner = NoRunner
  Runners = {r1, r2}
  Types = {"cleanup"}
  Scheduled = {}
  MaxTasks = 1
  Horizon = 1
  TTL = 0
  Interval = 1
  Fallible = {}
  CrashPoints = {}
  SlowClaims = {r1}
  SlowHandlers = {}
SPECIFICATION FairSpec
PROPERTY AbandonedTaskEnds
