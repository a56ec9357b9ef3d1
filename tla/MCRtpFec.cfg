CONSTANTS
  SeqSpace = 64
  WINDOW_SIZE = 4
  INIT_COLLECT = 2
  FEC_MAX_GROUPS = 2
  GroupSize = 2
  Parity = 1
  Packets = 6
  FirstSeq = 61
  InitialSpread = 3
  UseFec = {TRUE}
SPECIFICATION Spec
INVARIANTS
  FecKeepsOrder
CONSTRAINT FewDelivered
