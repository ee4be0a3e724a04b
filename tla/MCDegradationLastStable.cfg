SPECIFICATION Spec
CONSTANTS
  Inputs <- BoundaryInputs
  BaselineWindow = 2
  MaxSnapshots = 5
INVARIANT LastStableReported
