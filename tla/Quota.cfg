SPECIFICATION Spec
CONSTANTS
  Writers = {w1, w2}
  Keys = {lease}
  ControlKeys = {lease}
  Sizes = {1, 2}
  KeyLen = 0
  limit = 2
  CeilingMargin = 3
  CreateMargin = 1
  ControlReserve = 2
  ControlMaxValue = 1
  GrowthSlack = 1
  CloseTicks = FALSE
  MaxRev = 2
  MaxWritten = 2
  InitBytes = {1}
SYMMETRY MCSymmetry
INVARIANTS FigureCovers FreePassWritesNothing ReservationsBalance
PROPERTIES LimitHolds
CHECK_DEADLOCK FALSE
