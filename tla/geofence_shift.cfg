SPECIFICATION MCSpec
CONSTANTS
  Id <- MCId
  NiId <- MCNiId
  MaxSession = 1
  MaxTracking = 1
  MaxChanges = 1
  MaxMail = 1
  MaxPending = 1
  MaxGeneration = 1
  FenceId <- MCFenceId
  Ids <- MCIds
  Masks <- MCMasks
  MaxFences = 2
  MaxFenceMail = 2
INVARIANT EachByItsOption
CHECK_DEADLOCK FALSE
