CONSTANTS
  Devices = {"m1", "m2"}
  Samples = 3
  MobilePoints = 2
  MaxScale = 2
  Days = {0, 5}
  ChunkDays <- MCChunkDays
  MaxQueries = 2
  TcRules = 2
  DaySeconds = 3
  MinuteSeconds = 2
  TcRanges <- MCRanges
  MaxDuration = 2
  MaxTcEdits = 2
  MaxTests = 3
  MaxToggles = 2
  MaxChecks = 2
  MaxSaves = 2
  MaxLines = 2
  MaxReadErrors = 1
  MaxClears = 2
  MaxUpdates = 2
  ReloadTimes <- MCReloadTimes
  MaxAttempts = 2
  PauseTimeout = 2
  MaxActions = 4
  MaxTicks = 1
  MaxFailed = 1
  MaxRules = 1
  Skew <- MCSkew
SPECIFICATION PagesSpec
CHECK_DEADLOCK FALSE
INVARIANTS
  OneSpeedTest
  ShownBelongTogether
PROPERTIES
  ChartsCatchUp
  FirewallSettles
  PagesReturn
  LanspeedCatchesUp
