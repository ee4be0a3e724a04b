SPECIFICATION FairSpec
CONSTANTS
  Clients = {c1}
  Free = Free
  MaxRuns = 1
  MaxWorkers = 2
  Burst = 2
  MaxLaunches = 4
  MaxTicks = 2
  ErrorCap = 3
  ErrorKeep = 1
INVARIANT WorkersDrained
INVARIANT FinalReportComplete
PROPERTY IsTestLifecycle
INVARIANT ErrorListComplete
PROPERTY EveryRunEnds
