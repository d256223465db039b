SPECIFICATION FairTTLSpec
CONSTANTS
  Keys = {k1}
  Watchers = {w}
  TTLWatch = w
  MaxRev = 4
  MaxClientRev = 3
  Overtake = FALSE
  HandleRace = FALSE
INVARIANTS SnapshotExact NoGapInWatch
PROPERTIES OnlyElapsed LeasesExpire
CHECK_DEADLOCK FALSE
