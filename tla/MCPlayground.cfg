SPECIFICATION FairSpec
CONSTANTS
  MaxKey = 3
  MaxPieces = 3
  MaxLeaves = 1
  MaxStored = 1
  Habits <- Careful
INVARIANTS
  TypeOK
  OwnReply
  WholeReply
  NoneLeftPending
  OneGeneration
PROPERTIES
  FinalStays
  EventuallySaved
  GenerationEnds
