CONSTANTS
  MaxChunks = 1
  MaxOut = 1
  MaxInputs = 3
  Failures = TRUE
  Kinds = {"live", "list", "cmaf", "hidden", "junk"}
  MaxLoads = 2
  MaxCmds = 1
  Cap = 2
  PauseAt = 1
  ResumeAt = 1
  MaxBack = 1
  Unsupported = {{}, {"audio"}}
  Managed = {TRUE}
  MaxSeq = 7
  MaxWindow = 3
  Breaks = {2, 5}
  LIVE_EDGE_SEGMENTS = 2
  MAX_REFRESH_FAILURES = 2
  TrimAt = 2
  TrimKeep = 1
  CC = 4
  WRAP = 8
  Delay = 2
  Keys = {0, 2}
  Changes = {2}
  AudioChanges = {1}
  VideoCodecs = {"h264"}
  AudioCodecs = {"ac3", "mp3"}
  TsUnits = 4
  MaxLost = 1
  MaxInRow = 1
  MaxBoundaries = 1
  Ref <- RefDur
  Jumps <- RemuxJumps
  BatchDuration = 4
  BatchLimit = 4
  BaseOffsets = {0, 4}
  MaxSamples = 4
  MaxCuts = 1
  Undefined = Undefined
  MaxTime = 3
  Ahead = 1
  Lead = 1
  Window = 2
  HardResync = 1
  KeepBack = 3
SPECIFICATION PartsSpec
CHECK_DEADLOCK FALSE
INVARIANTS
  StreamsDoNotMix
  OneInputPerSegment
  NoLateSourceBuffer
  BackpressureAgrees
  SourceIsContinuous
  DemuxedIsClean
  RemuxedIsWhole
  SyncLeavesNothing
PROPERTIES
  FreeRunsInBackground
