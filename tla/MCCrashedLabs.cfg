SPECIFICATION Spec
CONSTANTS
  Labs = {l1, l2}
  Students = {r1, r2}
  MaxCrashes = 1
  MaxStrays = 1
  None = None
PROPERTIES
  CrashedLabsRemoved
CHECK_DEADLOCK FALSE
