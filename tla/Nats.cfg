SPECIFICATION Spec
CONSTANTS
  Keys = {k}
  CompactKey = compact_rev_key
  Clients = {c1}
  Expirer = expirer
  History = 2
  MaxSeq = 5
  MaxClientSeq = 2
  MaxCompactSeq = 3
  MaxFaults = 1
  RequestFails = FALSE
  WaitTimeout = FALSE
  OtherNodes = FALSE
INVARIANTS TypeOK IndexExact ReadYourWrites NoGapInWatch MarkerAfterTombstone LeaseTracked
CHECK_DEADLOCK FALSE
