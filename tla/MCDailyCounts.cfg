SPECIFICATION Spec
CONSTANTS
  Busy = k1
  Quiet = k2
  Keys = {k1, k2}
  Single = r4
  Requests = {r1, r2, r3, r4}
  KeyOf <- OneOfQuiet
  Rps = 2
  Daily = 2
  Second = 2
  Day = 3
  Horizon = 5
  LastDate = 2
SYMMETRY Interchangeable
INVARIANTS
  DailyCountsExecutions
CHECK_DEADLOCK FALSE
