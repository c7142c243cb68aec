SPECIFICATION Spec
CONSTANTS
  Frames = 3
  Offset <- MCOffset
  HeaderSize = 2
  MaxSize = 5
  BufferSize = 3
  MaxAgent = 2
INVARIANTS
  DeliversWholeFrames
CHECK_DEADLOCK FALSE
