SPECIFICATION FairSpec
CONSTANTS
  MaxRetries = 5
  MaxWindows = 3
  EarlyActivate = FALSE
INVARIANTS
  NoOrphan
  OnlyMainWindow
  CrashIsReported
PROPERTIES
  QuitEnds
  StartSettles
CHECK_DEADLOCK FALSE
