SPECIFICATION Spec
CONSTANTS
  n1 = n1
  n2 = n2
  w1 = w1
  w2 = w2
  w3 = w3
  Nodes = {n1}
  Writers = {w1, w2}
  Home <- MCHome
  PollBatchSize = 2
  MinRetain = 1
  MaxRev = 4
  SlowPoll = TRUE
  Stalls = TRUE
INVARIANTS TypeOK
PROPERTIES CacheMonotone
SYMMETRY Symmetry
