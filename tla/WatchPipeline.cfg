SPECIFICATION FairSpec
CONSTANTS
  w1 = w1
  w2 = w2
  Watches = {w1}
  InRange <- MCInRange
  Cap = 1
  MaxRev = 4
  Starts = {2}
  LateCommit = FALSE
INVARIANTS NoSilentGap InOrderOnce
PROPERTIES BrokenWatchEnds CancelledEnds EventsArrive
CHECK_DEADLOCK FALSE
