SPECIFICATION FairProgressSpec
CONSTANTS
  w1 = w1
  w2 = w2
  Watches = {w1}
  InRange <- MCInRange
  Cap = 1
  MaxRev = 2
  Starts = {0}
  LateCommit = FALSE
INVARIANTS ProgressTypeOK
PROPERTIES ProgressServed
CHECK_DEADLOCK FALSE
