SPECIFICATION Spec
CHECK_DEADLOCK FALSE
CONSTANTS
  Browsers = {b1, b2}
  Sockets = {s1, s2}
  Environments = {blank, ours}
  Blank = blank
  DevDefaultSecret = dev
  Second = 2
  TTL = 4
  LogCap = 2
  MaxTime = 6
  MaxRestarts = 2
  MaxLines = 3
SYMMETRY ConsoleSymmetry
INVARIANT SessionHonoured
INVARIANT LogAccounted
INVARIANT LogInOrder
