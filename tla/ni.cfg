CONSTANTS
  Request = {p1, p2, e1}
  Emergency = {e1}
  UserAnswer = {"ACCEPT"}
  MaxQueue = 1
  None = None
SPECIFICATION FairSpec
INVARIANTS
  EachTakesItsOwn
  AnswerIsAUsers
PROPERTIES
  Resolved
CHECK_DEADLOCK FALSE
