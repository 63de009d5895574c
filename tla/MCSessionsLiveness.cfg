SPECIFICATION FairSpec
CONSTANTS
  Runs = {r1}
  Shells = {h1}
  Requests = {q1}
  Sessions = {s1, s2}
  Owner = u1
  Users = {u1}
  UserOf <- OneUser
  MaxConcurrent = 1
  MaxContainersPerUser = 1
  MayStall = TRUE
  None = None
CONSTRAINT RunsInFirst
INVARIANTS
  ContainersWithinMax
PROPERTIES
  UsesSlotPool
  HandlerReturns
  ClosedSessionDrains
  SlotReturned
CHECK_DEADLOCK FALSE
