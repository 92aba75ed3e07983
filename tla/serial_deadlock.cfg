SPECIFICATION FairSpec
CONSTANTS
  MaxOut = 2
  MaxIn = 1
  FifoSize = 1
PROPERTIES
  WriteReturns
CHECK_DEADLOCK FALSE
