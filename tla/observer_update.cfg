CONSTANTS
  Others = {o1}
  OtherItems = {"network", "tac"}
  NetworkTypes = {wifi}
  Cells = {c1}
  Locks = {l1}
  MaxObserverMail = 2
  MaxUses = 2
  Settings = {v1, v2}
  Default = v1
  NoLock = off
  MaxControlMail = 2
  Parts = 2
  MaxSent = 3
  MaxDatagrams = 3
  maxItem = 2
  PerSystem = 1
  Near = 2
  Places = {p0, p1}
  Zero = p0
  Platform = "apq"
  Baseband = "mdm"
  HardwareType = ""
  KnownGroups = {"gps", "inet"}
  Delegate = {d1, d2}
  Joinable = {TRUE, FALSE}
  None = None
SPECIFICATION MCSpec
INVARIANT ListsAreReplaced
CHECK_DEADLOCK FALSE
