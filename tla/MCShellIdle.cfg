CONSTANTS
  r1 = r1
  h1 = h1
  q1 = q1
  c1 = c1
  Runs = {r1}
  Shells = {h1}
  Requests = {q1}
  Connections = {c1}
  Workloads <- SomeWorkloads
  KillAfter = 1
  ShellIdle = 4
  ReadTimeout = 1
  StartupAge = 1
  ReapAge = 8
  ReapEvery = 2
  MaxTime = 8
  MaxFaults = 0
  None = None
SPECIFICATION Spec
INVARIANT ShellIdleKilled
CHECK_DEADLOCK FALSE
