SPECIFICATION Spec
CONSTANTS
  Task = {t1, t2}
  Prompts = {"awaiting_qr_scan"}
  MaxSession = 3
  MaxExchange = 2
  MaxMessage = 3
  Restarts = TRUE
SYMMETRY TaskSymmetry
INVARIANTS
  TypeOK
  FramesReachTheirTarget
  NumbersRise
  StatusIsGrounded
  AuthenticatedIsReady
  LogoutIsFinal
PROPERTIES
  SentFromStored
