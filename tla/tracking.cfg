CONSTANTS
  Client = {c1, c2}
  Id = {1, 2, 3}
  Interval = {1, 2, 3}
  Mode = {msb}
  MaxRestarts = 2
  None = None
  MaxOdcpiMail = 2
  Adapters = {a1, a2, a3}
  Handlers = {a2}
  Events = {fixes}
  Excluded = {}
  MAX_ADAPTERS = 2
  NoAdapter = NoAdapter
  MaxApiMail = 2
  Width = 2
  MaxInGsa = 1
  SvTypes = {"GPS", "GLONASS", "QZSS"}
  MaxSvs = 5
  MaxSvId = 3
  MaxUsed = 2
  MarkedAt = {2}
SPECIFICATION MCSpec
INVARIANTS
  EngineAtShortest
  SessionsAreServed
  EngineKnowsAdapters
  ReportsArrive
  UsedAreOfTheFix
  SentencesNameTheirSvs
PROPERTIES
  OdcpiIsRepeated
CHECK_DEADLOCK FALSE
