SPECIFICATION Spec
CONSTANTS
  p1 = p1
  p2 = p2
  Pids = {p1, p2}
  MaxStarts = 2
  MaxTries = 2
  None = None
  CanTell = TRUE
  Overlap = TRUE
CHECK_DEADLOCK FALSE
INVARIANT MutualExclusion
