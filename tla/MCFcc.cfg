CONSTANTS
  FirstServer <- A
  Scenarios <- MCScenarios
  Unset = Unset
  FCC_MAX_REDIRECTS = 2
  SignalingTimeout = 1
  UnicastTimeout = 2
  SyncWaitTimeout = 3
  McastTimeout = 2
  SeqSpace = 32
  WINDOW_SIZE = 4
  INIT_COLLECT = 2
  FirstSeq = 31
  Packets = 5
  Backlog = 2
  MaxControl = 4
  MaxLoss = 1
  JoinOutcomes = {TRUE}
  StartOutcomes = {TRUE, FALSE}
  SendOutcomes = {TRUE, FALSE}
SPECIFICATION Spec
CHECK_DEADLOCK FALSE
INVARIANTS
  HandoverIsSound
PROPERTIES
  ReachesMulticast
  SilenceEndsStream
