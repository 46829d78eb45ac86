CONSTANTS
  RJobs = {"a"}
  RInstances = {"i1", "i2"}
  RMax <- MaxAttempts
  RUnknown = {}
  RFaultBound = 1
  ROpBound = 1
  BMembers = {"a", "b", "c"}
  BLength = 2
  CKeys = {"a", "b"}
  CThreads = {"t1", "t2"}
  CNeeds <- Needs
  CBindBound = 1
  LProviders = {"p", "q", "n", "m"}
  LNested <- Providers
  LCallbacks = 2
  LRequests = {"r", "s"}
  EListeners = {"p", "q", "n", "m"}
  ECalls = {"c"}
  KKeys = {"k"}
  KCallers = {"c", "d"}
  KValues <- Typed
  KTTLs = {0, 1}
  KMaxTime = 3
  TAddresses = {"a", "b"}
  TCredentials = {"", "m"}
  TLimit <- Limit
  TPeriod <- Period
  TMaxTime = 3
  TMaxRequests = 4
  SRequests = {1, 2, 3}
  SConfigs <- Configs
  SOps <- Handlers
  SInFlight = 2
  SLapses = 1
  SFaults = 1
  TxWrites = {"v", "w"}
  TxNested = 3
  GVersions = {1, 2}
  GProcesses = {"p", "q"}
  GCommands = 2
  GFaults = 1
  AChain = 3
  HFiles = {"f", "g"}
  HBrowsers = {"b"}
  HEdits = 2
  HFaults = 1
  DEdits = 3
  DFaults = 1
  QMethods = {"GET", "POST"}
  QSegs <- Segs
  QNames = {"x", "y"}
  QLongest = 2
  QPaths <- Paths
  QTables <- Tables
  QLayers <- Layers
  QStacks <- Stacks
  QRules <- RuleSet
  QForms <- Forms
SPECIFICATION Spec
INVARIANTS ServicesTypeOK RedisJobsAccountedFor BatchReportsOnce OneInstancePerBinding
  LivesInOrder ScreensFollowSaves DispatchesItsSnapshot WindowHoldsLimit
  BrowserKeepsItsSession OneObjectPerId NestedAllOrNothing SchemaMatchesVersions
  RequestsReachTheirHandlers  RelationsSound LookupsSound
PROPERTIES ImplementsExpiringMap
CHECK_DEADLOCK FALSE
