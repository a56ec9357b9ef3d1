CONSTANTS
  Workers = {1, 2}
  Pids = {11, 12}
  NSlots = 2
  MaxClients = 1
  SNAPSHOT_ATTEMPTS = 2
  MaxStarts = 2
  MaxUpdates = 1
  MaxRequests = 1
  MaxCrashes = 1
SPECIFICATION Spec
CHECK_DEADLOCK FALSE
INVARIANTS
  AdmissionBound
  SlotIsFound
  SlotsAreOwned
  SharedReadsAreSound
PROPERTIES
  DisconnectHonoured
  DeathIsCleanedUp
