SPECIFICATION FairSpec
CONSTANTS
  Labs = {l1, l2}
  Students = {r1, r2}
  MaxCrashes = 1
  MaxStrays = 1
  None = None
INVARIANTS
  TypeOK
  LabUsable
  NoLabLeak
PROPERTIES
  StopDestroys
  TargetExpires
  ClosedLeavesNoLab
CHECK_DEADLOCK FALSE
