SPECIFICATION LinesSpec
CONSTANTS
  MaxOut = 3
  MaxIn = 3
  FifoSize = 2
  Blocks = 4
  kXModemEof = 4
  kBufferSize = 3
  MaxFaults = 3
  MaxLate = 1
  Faults = {"head", "tail", "first", "answer"}
  Sockets = {1, 2, 3, 4, 5, 6, 7, 8}
  NULL = NULL
  MaxScripts = 2
  SocketFaults = {"reply", "stop"}
INVARIANTS
  LinesTypeOK
  ThreadsNeedPort
  RomIntact
  SomebodyListens
  WaitersTracked
PROPERTIES
  BothChannels
  CloseEnds
  InputArrives
  DownloadEnds
CHECK_DEADLOCK FALSE
