CONSTANTS
  Macs = {"m1", "m2"}
  RuleIds = {"r1"}
  Slots <- MCSlots
  Limits = {0, 1}
  Clock <- MCClock
  MaxTimers = 1
  MaxCalls = 1
  MaxFlights = 1
  ListFilters = {"x", "y"}
  MaxPages = 2
  MaxListRequests = 4
  MaxBadges = 2
  EndAddrs = {"c", "s"}
  Listable = {"m1"}
  KUnit = 8
  MUnit = 64
  BitUnit = 5
  Amounts = {0, 1, 7}
  SavedRates <- MCRates
  MaxOperations = 2
  MaxRateSteps = 3
  LanAddrs = {"A", "B"}
  MaxWizard = 2
  DetailIps = {"a1", "a2", "b"}
  KeyOf <- MCKeyOf
  DetailPagesOf <- MCDetailPages
  MaxNames = 1
  MaxDetailClicks = 1
  GeoTimes = 1
  MAX_CACHE_ENTRIES = 2
  MAX_CONCURRENCY = 1
  GeoSources = 2
  POSITIVE_TTL = 2
  NEGATIVE_TTL = 1
  RPC_KEYS = {"diagnostics", "clients"}
  RetainMs = 2
  MaxChecks2 = 3
  MaxDgTime = 4
  RadioSets = {"single5g", "tri"}
  StoredNets <- MCStoredNets
  TypedNames <- MCNames
  MaxWifiEdits = 1
  Typed <- MCTyped
  WanAddr <- MCWanAddr
  Gateway <- MCGateway
  TopHost = 8
  LowHost = 6
  Window = 4
  RestartTicks = 1
  ProbeFrom = 2
  MaxChanges = 3
  MaxFieldEdits = 1
  Releases = {1, 2, 3}
  Installed = 1
  CacheTime = 1
  MaxUpdatePolls = 2
  MaxChecksOfUpdate = 4
  PackageFiles = {"p1", "p2", "p3"}
  MaxQueueSteps = 2
  MaxInFlight = 2
  MaxJobs = 3
  RebootChecks = 3
  RebootLimit = 6
  Modules <- MCModules
  WebPorts = {"p1", "p2", "busy"}
  BusyPorts = {"busy"}
  MaxWebSteps = 4
  HostIps = {"127.0.0.1", "9"}
  HostNames = {"d"}
  MaxHosts = 4
  MaxHostSteps = 4
  MaxWizardSteps = 8
  MaxStatusPolls = 5
  ReportsLink = {TRUE, FALSE}
  DevMacs = {"gw", "m1", "m2", "m3"}
  SystemMacs = {"gw"}
  Neighbourhoods <- MCNeighbourhoods
  DevType <- MCDevType
  SmartZone <- MCSmartZone
  TypedSuffixes = {50}
  GroupNames = {"g1"}
  TopSuffix = 54
  KeepFirst = 50
  KeepLast = 54
  PoolSize = 1
  MaxDevSteps = 2
  MAX_CONCURRENT = 2
  MaxHeartbeats = 4
  MaxDialogs = 4
  FormPages <- MCFormPages
  MaxFieldChanges <- MCFieldChanges
  MaxAttempts = 2
  PauseTimeout = 2
  MaxActions = 4
SPECIFICATION RouterSpec
CHECK_DEADLOCK FALSE
INVARIANTS
  BandixTellsTheTruth
  LanspeedKeepsUp
  RollbackLeadsBack
  NetwizSendsSound
  NetwizNeverStuck
  ListsAndFormsHonoured
