SPECIFICATION FairSpec
CONSTANTS
  run1 = r1
  run2 = r2
  shell1 = h1
  Runs = {r1, r2}
  Shells = {}
  Connections = {c1, c2}
  Workloads <- TwoRuns
  MaxChunks <- Chunks
  MayStall = {c1}
  None = None
PROPERTIES
  ReadersAreServed
CHECK_DEADLOCK FALSE
