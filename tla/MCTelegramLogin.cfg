SPECIFICATION FairSpec
CONSTANTS
  DC = {d1, d2, dx}
  KnownDC = {d1, d2}
  HomeDC = d1
  NoDC = none
  Faults = {"transport"}
  MaxConnection = 2
  MaxMsgId = 8
  MaxContainer = 2
  MaxSalt = 2
INVARIANTS
  TypeOK
  WaitsForPending
  ImportsTokenOfThisDc
PROPERTIES
  ReadyNeverRegresses
  LoginProgresses
CHECK_DEADLOCK FALSE
