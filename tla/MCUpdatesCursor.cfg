SPECIFICATION Spec
CONSTANTS
  MaxPts = 3
  MaxInbox = 3
  MaxAsked = 2
  MaxDrop = 2
INVARIANTS
  TypeOK
PROPERTIES
  CursorNeverRegresses
  DifferenceLeavesNoGap
