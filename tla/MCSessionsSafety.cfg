SPECIFICATION Spec
CONSTANTS
  Runs = {r1, r2}
  Shells = {h1}
  Requests = {}
  Sessions = {s1, s2}
  Owner = u1
  Users = {u1}
  UserOf <- OneUser
  MaxConcurrent = 2
  MaxContainersPerUser = 1
  MayStall = FALSE
  None = None
SYMMETRY Interchangeable
INVARIANTS
  TypeOK
  SlotAccounting
  NoContainerLeak
  SessionIsLatest
  NoLockout
  TimeoutIsOwn
PROPERTIES
  StaleKillsNothing
CHECK_DEADLOCK FALSE
