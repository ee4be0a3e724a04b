SPECIFICATION FairSpec
CONSTANTS
  Clients = {c1}
  Free = Free
  MaxRuns = 2
  MaxWorkers = 1
  Burst = 1
  MaxLaunches = 1
  MaxTicks = 0
  ErrorCap = 1
  ErrorKeep = 1
INVARIANT TypeOK
INVARIANT StatusBacked
INVARIANT LatestIsStoppable
INVARIANT SerialRunsNeverPanic
INVARIANT OwnState
PROPERTY IsTestLifecycle
PROPERTY StatusSettles
