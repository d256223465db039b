SPECIFICATION Spec
CONSTANTS
  Keys = {k1, k2}
  Clients = {c1, c2}
  Nodes = {n1}
  ManualNodes = {}
  CompactMinRetain = 1
  CompactBatchSize = 2
  InFlightLag = 1
  MaxRev = 5
  TombstoneRace = FALSE
  AckLoss = FALSE
  RetriesEnd = FALSE
  NoOp = NoOp
  NoKey = NoKey
INVARIANTS LinearHistory PendingProtected
PROPERTIES AtomicWrites
SYMMETRY Symmetry
