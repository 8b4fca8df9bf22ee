CONSTANTS
  Handle = {h1, h2}
  RequestTypes = {"SUPL", "SUPL_ES", "WWAN_ANY"}
  MaxRetries = 1
  Task = task
  Joinable = {TRUE, FALSE}
  LocMsg = {m1, m2, m3}
  None = None
SPECIFICATION MCSpec
INVARIANTS
  ListMatchesState
  AnswerIsOwed
  AcquiredIsBacked
  DsCallIsKnown
  HandledInOrder
PROPERTIES
  FollowsLifecycle
  EveryoneIsAnswered
  EveryMessageHandled
CHECK_DEADLOCK FALSE
