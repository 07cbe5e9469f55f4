SPECIFICATION FairSpec
CONSTANTS
  r1 = r1
  r2 = r2
  r3 = r3
  NoRunner = NoRunner
  Runners = {r1, r2}
  Types = {"cleanup"}
  Scheduled = {"cleanup"}
  MaxTasks = 1
  Horizon = 2
  TTL = 1
  Interval = 1
  Fallible = {"cas", "reread", "finish", "renew"}
  CrashPoints <- AllPCs
  SlowClaims = {}
  SlowHandlers = {r1}
PROPERTIES
  AbandonedTaskEnds
  LeaseProtects
