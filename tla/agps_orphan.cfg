CONSTANTS
  Handle = {h1, h2}
  RequestTypes = {"SUPL"}
  MaxRetries = 1
  Task = task
  Joinable = {TRUE}
  LocMsg = {m1}
  None = None
SPECIFICATION MCSpec
INVARIANT NoOrphanConnection
CHECK_DEADLOCK FALSE
