SPECIFICATION FairSpec
CONSTANTS
  RxSize = 2
  TxSize = 2
  MaxOut = 3
  MaxIn = 2
INVARIANTS
  TypeOK
PROPERTIES
  StatusHonest
  BytesKept
  AvailHonoured
  InputPosted
CHECK_DEADLOCK FALSE
