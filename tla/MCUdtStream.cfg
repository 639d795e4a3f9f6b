SPECIFICATION Spec
CONSTANTS
  MaxBlocks = 4
  SndBuf = 2
  Ring = 3
  RcvSize = 3
  DataRoom = 1
  AckRoom = 2
  ControlRoom = 1
  MayBreak = FALSE
CONSTRAINT TwoAcksAlone
INVARIANTS
  IInv
  NeverAccused
  ReleasedIsReceived
  LossListIsExact
  LossesAreScheduled
PROPERTIES
  ImplementsStream
CHECK_DEADLOCK FALSE
