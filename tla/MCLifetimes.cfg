CONSTANTS
  r1 = r1
  h1 = h1
  q1 = q1
  c1 = c1
  Runs = {r1}
  Shells = {h1}
  Requests = {q1}
  Connections = {c1}
  Workloads <- SomeWorkloads
  KillAfter = 1
  ShellIdle = 1
  ReadTimeout = 1
  StartupAge = 1
  ReapAge = 2
  ReapEvery = 1
  MaxTime = 4
  MaxFaults = 1
  None = None
SPECIFICATION Spec
INVARIANTS
  TypeOK
  NothingLeft
  FilesBeforeStart
  LifetimeBounded
PROPERTIES
  SweepsSpareRuns
  ImplementsCreation
CHECK_DEADLOCK FALSE
