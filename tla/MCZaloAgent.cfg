SPECIFICATION Spec
CONSTANTS
  Task = {t1, t2}
  MaxSession = 2
  Restarts = TRUE
SYMMETRY TaskSymmetry
INVARIANTS
  TypeOK
  SessionIsComplete
  SavedHasCredentials
  ConnectingHasSession
