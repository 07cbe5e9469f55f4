SPECIFICATION Spec
CONSTANTS
  r1 = r1
  r2 = r2
  r3 = r3
  NoRunner = NoRunner
  Runners = {r1, r2}
  Types = {"cleanup"}
  Scheduled = {"cleanup"}
  MaxTasks = 2
  Horizon = 2
  TTL = 1
  Interval = 1
  Fallible = {"claim-read", "acquire", "claim-mark", "release",
              "reread", "renew", "finish", "expire-mark", "expire-delete"}
  CrashPoints = {"idle", "mark", "cas", "giveup"}
  SlowClaims = {}
  SlowHandlers = {}
SYMMETRY MCSymmetry
INVARIANTS
  OneActivePerType
  SingleExecutor
  StolenTaskEnded
  RunningIsCovered
PROPERTIES
  ImplementsJobQueue
  LeaseProtects
