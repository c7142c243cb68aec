SPECIFICATION Spec
CONSTANTS
  Task = {t1, t2}
  MaxSession = 2
  Restarts = FALSE
PROPERTIES
  ReconnectSurvivesStaleClose
