SPECIFICATION FairSpec
CONSTANTS
  Keys = {k, health}
  HealthKey = health
  limit = 3
  Lag = 1
  Tries = 1
  Pause = 0
  BatchSize = 2
  MinRetain = 2
  MaxClientRev = 4
  MaxRev = 5
  MaxResets = 1
  HiddenReset = FALSE
  CloseVacuum = FALSE
INVARIANTS TypeOK ReliefBehind SampleCovers
CHECK_DEADLOCK FALSE
PROPERTIES SpaceFreed
