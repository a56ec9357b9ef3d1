CONSTANTS
  MAX_IOVECS = 2
  BATCH_BYTES = 2
  QueueLimit = 2
  SocketSpace = 2
  IdSpace = 3
  SoZerocopy = {TRUE}
  MaxEntries = 3
  MaxLength = 2
SPECIFICATION Spec
CHECK_DEADLOCK FALSE
INVARIANTS
  StreamIntegrity
  BuffersReturn
PROPERTIES
  DataMoves
