SPECIFICATION Spec
CONSTANTS
  Runs = {r1, r2}
  Shells = {}
  Requests = {}
  Sessions = {s1, s2}
  Owner = u1
  Users = {u1}
  UserOf <- OneUser
  MaxConcurrent = 2
  MaxContainersPerUser = 1
  MayStall = FALSE
  None = None
PROPERTIES
  NewestActionWins
CHECK_DEADLOCK FALSE
