SPECIFICATION FairSpec
CONSTANTS
  run1 = r1
  run2 = r2
  shell1 = h1
  Runs = {r1, r2}
  Shells = {h1}
  Connections = {c1}
  Workloads <- Mixed
  MaxChunks <- Chunks
  MayStall = {}
  None = None
INVARIANTS
  TypeOK
  OutputInOrder
  ExitIsLast
  LateIsBounded
PROPERTIES
  ExitReported
CHECK_DEADLOCK FALSE
