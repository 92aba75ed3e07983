SPECIFICATION Spec
CONSTANTS
  MaxSessions = 2
  HomeDuringLoad = FALSE
PROPERTIES
  ShutdownEnds
CHECK_DEADLOCK FALSE
