SPECIFICATION FairSpec
CONSTANTS
  Keys = {k1}
  Clients = {c1}
  Nodes = {n1, n2}
  ManualNodes = {n2}
  CompactMinRetain = 1
  CompactBatchSize = 1
  InFlightLag = 1
  MaxRev = 4
  TombstoneRace = FALSE
  AckLoss = FALSE
  RetriesEnd = FALSE
  NoOp = NoOp
  NoKey = NoKey
INVARIANTS TypeOK HeadRetained
PROPERTIES SnapshotStable EventsRetained CompactionCatchesUp
