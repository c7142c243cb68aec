SPECIFICATION Spec
CONSTANTS
  Key = {k1, k2}
  NoKey = none
  Evictions = FALSE
  MaxControl = 1
  MaxFrame = 2
INVARIANTS
  DrainedOnce
CHECK_DEADLOCK FALSE
