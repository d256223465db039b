SPECIFICATION Spec
CONSTANTS
  Keys = {0, 1, 2}
  compactRevAPI = 0
  Watchers = {}
  Overtake = FALSE
  Clients = {c1, c2}
  Limit = 1
  MaxRev = 3
  CountsCurrent = FALSE
SYMMETRY MCSymmetry
INVARIANTS PageExact RefusalShown VersionsAdvance
CHECK_DEADLOCK FALSE
