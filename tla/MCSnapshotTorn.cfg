CONSTANTS
  Workers = {1, 2}
  Pids = {11, 12}
  NSlots = 1
  MaxClients = 1
  SNAPSHOT_ATTEMPTS = 2
  MaxStarts = 2
  MaxUpdates = 0
  MaxRequests = 1
  MaxCrashes = 0
SPECIFICATION Spec
CHECK_DEADLOCK FALSE
INVARIANTS
  SnapshotIsWhole
