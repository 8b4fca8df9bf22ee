CONSTANTS
  Timer = {t1, t2}
  Delegate = {d1, d2, d3}
  Container = {sw}
  Delays = {1, 2}
  MaxTime = 2
  None = None
  Ids = {1, 2, 3, 4, 5}
  Ranks = {1, 2}
  Nothing = Nothing
  Cells = {e1, e2, e3}
  Data = {x1, x2, x3}
  NoData = NoData
SPECIFICATION MCSpec
INVARIANTS
  StopIsFinal
PROPERTIES
  GoesOff
  HeapIsRankedSet
  ListIsSequence
CHECK_DEADLOCK FALSE
