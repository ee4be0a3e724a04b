SPECIFICATION Spec
CHECK_DEADLOCK FALSE
CONSTANTS
  Recorders = {w1, w2}
  Codes = {e1}
  MaxCalls = 2
  MaxSnapshots = 2
  MaxResets = 1
  ErrorCap = 1
  ErrorKeep = 1
SYMMETRY RecorderSymmetry
INVARIANT TypeOK
INVARIANT QuiescentExact
INVARIANT IntervalsNeverOvercount
INVARIANT LatenciesCoverSuccesses
INVARIANT SnapshotConsistent
