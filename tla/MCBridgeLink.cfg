SPECIFICATION FairSpec
CONSTANTS
  Key = {k1, k2}
  NoKey = none
  Evictions = TRUE
  MaxControl = 2
  MaxFrame = 2
INVARIANTS
  TypeOK
  QueuedFramesAwaitBridge
  FramesInOrder
  LiveSessionsAreRouted
  AtMostTwice
PROPERTIES
  KeepsSessions
  SessionSettles
  EndIsReported
CHECK_DEADLOCK FALSE
