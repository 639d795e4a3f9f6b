SPECIFICATION PartsSpec
CONSTANTS
  Size = 4
  MaxAckNo = 4
  Acks = {7, 8}
  MaxSeqNo = 13
  SeqNoTH = 6
  SndSize = 5
  RcvSize = 5
  SndWindow = 4
  RcvWindow = 5
  Limit = 2
  Socket = {s1, s2, s3, s4, s5, s6}
  MaxTime = 2
  NoSocket = noSocket
  None = none
  Window = 2
  Unit = 1
  Limits = {3}
  MaxRandom = 2
  MaxPeriod = 9
CONSTRAINTS SmallOnceCut WrapOnce
INVARIANTS
  ReportFits
  HeapIsOrdered
  EpochsAreFresh
  RateHalvedAtMost
  RateLimited
PROPERTIES
  SndImplementsLossSet
  RcvImplementsLossSet
  ImplementsAckQueue
  NeverEarly
CHECK_DEADLOCK FALSE
