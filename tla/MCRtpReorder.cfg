CONSTANTS
  SeqSpace = 32
  WINDOW_SIZE = 4
  INIT_COLLECT = 3
  FEC_MAX_GROUPS = 1
  GroupSize = 2
  Parity = 1
  Packets = 11
  FirstSeq = 27
  InitialSpread = 3
  UseFec = {FALSE}
SPECIFICATION Spec
INVARIANTS
  InOrder
  StoredIsAccounted
