CONSTANTS
  Timer = {t1}
  Delegate = {d1}
  Container = {sw}
  Delays = {1}
  MaxTime = 1
  None = None
  Ids = {1, 2}
  Ranks = {1, 2}
  Nothing = Nothing
  Cells = {e1}
  Data = {x1}
  NoData = NoData
SPECIFICATION MCSpec
INVARIANT RemovesTheSameRank
CHECK_DEADLOCK FALSE
