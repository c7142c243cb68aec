SPECIFICATION Spec
CONSTANTS
  Key = {k1, k2}
  NoKey = none
  Evictions = TRUE
  MaxControl = 1
  MaxFrame = 2
PROPERTIES
  QueueSurvives
CHECK_DEADLOCK FALSE
