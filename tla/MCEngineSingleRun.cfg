SPECIFICATION Spec
CONSTANTS
  Clients = {c1, c2}
  Free = Free
  MaxRuns = 2
  MaxWorkers = 1
  Burst = 1
  MaxLaunches = 0
  MaxTicks = 0
  ErrorCap = 1
  ErrorKeep = 1
INVARIANT SingleRun
