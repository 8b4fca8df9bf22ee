SPECIFICATION MCSpec
CONSTANTS
  Id <- MCId
  NiId <- MCNiId
  MaxSession = 3
  MaxTracking = 3
  MaxChanges = 1
  MaxMail = 2
  MaxPending = 2
  MaxGeneration = 2
  FenceId <- MCFenceId
  Ids <- MCIds
  Masks <- MCMasks
  MaxFences = 2
  MaxFenceMail = 2
INVARIANTS
  AnswersReachTheirRequests
  NothingIsLeftBehind
  FencesAreOwned
  BreachesAreReported
  AnswersNameTheirFences
PROPERTIES
  CapabilitiesAreTold
CHECK_DEADLOCK FALSE
