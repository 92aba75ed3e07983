SPECIFICATION SocketsSpec
CONSTANTS
  Sockets = {1, 2, 3, 4, 5, 6, 7}
  NULL = NULL
  MaxScripts = 1
  SocketFaults = {"entry"}
INVARIANTS
  NobodyWaitsForItself
CHECK_DEADLOCK FALSE
