SPECIFICATION Spec
CONSTANTS
  DC = {d1, d2, dx}
  KnownDC = {d1, d2}
  HomeDC = d1
  NoDC = none
  Faults = {"reorder", "resend", "boxed", "ignored", "salt", "transport"}
  MaxConnection = 2
  MaxMsgId = 7
  MaxContainer = 2
  MaxSalt = 2
INVARIANTS
  KeyMaterial
  OneInitConnection
  PendingIsOurs
  ReadyIsGranted
  AwaitingInputUsable
PROPERTIES
  ImplementsMachine
CHECK_DEADLOCK FALSE
