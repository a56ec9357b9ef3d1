CONSTANTS
  Workers = {1, 2}
  Pids = {11, 12}
  NSlots = 2
  MaxClients = 1
  SNAPSHOT_ATTEMPTS = 2
  MaxStarts = 2
  MaxUpdates = 0
  MaxRequests = 2
  MaxCrashes = 0
SPECIFICATION Spec
CHECK_DEADLOCK FALSE
PROPERTIES
  DisconnectHonoured
