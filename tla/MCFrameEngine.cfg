SPECIFICATION FairSpec
CONSTANTS
  Frames = 3
  Offset <- MCOffset
  HeaderSize = 2
  MaxSize = 5
  BufferSize = 3
  MaxAgent = 2
INVARIANTS
  TypeOK
  RemoteCloseIsLast
  DamageFollowsLoss
  RelayedInOrder
PROPERTIES
  ImplementsChannel
  FramesArrive
CHECK_DEADLOCK FALSE
