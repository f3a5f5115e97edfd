SPECIFICATION FairSpec
CONSTANTS
  p1 = p1
  p2 = p2
  Pids = {p1, p2}
  MaxStarts = 4
  MaxTries = 4
  None = None
  CanTell = TRUE
  Overlap = FALSE
CHECK_DEADLOCK FALSE
INVARIANTS
  MutualExclusion
  HolderNamed
PROPERTY StaleTakenOver
