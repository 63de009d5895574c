SPECIFICATION FairSpec
CONSTANTS
  Threads = {g1, g2, g3, g4}
  Max = 2
INVARIANTS
  TypeOK
  SlotAccounting
  QueueLenExact
  NoLostWakeup
PROPERTIES
  BoundedWait
  ImplementsPool
CHECK_DEADLOCK TRUE
