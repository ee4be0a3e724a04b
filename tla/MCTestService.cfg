SPECIFICATION ServiceFairSpec
CONSTANTS
  r1 = r1
  r2 = r2
  r3 = r3
  Requests <- MCRequests
  Call <- MCCall
  Threshold = 1
INVARIANT RateOfLastSecond
INVARIANT OverloadWithinPeak
PROPERTY OverloadSubsides
