SPECIFICATION FairSpec
CONSTANTS
  MaxBlocks = 2
  SndBuf = 2
  Ring = 3
  RcvSize = 2
  DataRoom = 2
  AckRoom = 1
  ControlRoom = 1
  MayBreak = TRUE
PROPERTIES
  EverythingArrives
CHECK_DEADLOCK FALSE
