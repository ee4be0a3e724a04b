SPECIFICATION Spec
CHECK_DEADLOCK FALSE
CONSTANTS
  Requests <- MCRequests
  Latencies = {2, 5, 6}
  Fast = 2
  TicksPerSecond = 2
  DefaultRPS = 4
  DefaultDuration = 2
  DefaultWorkers = 2
  BaselineWindow = 1
  MaxLate = 1
INVARIANT TargetTracked
INVARIANT VerdictHasCause
INVARIANT RowsInTurn
