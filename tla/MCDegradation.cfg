SPECIFICATION Spec
CONSTANTS
  Inputs <- MCInputs
  BaselineWindow = 2
  MaxSnapshots = 6
INVARIANT TestedInvariants
INVARIANT ResultMatchesHistory
PROPERTY VerdictStands
