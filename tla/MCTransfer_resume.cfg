SPECIFICATION FairSpec
CONSTANTS
  N = 3
  End <- MCEnd
  Offsets <- MCOffsets
  Attempts = 3
  FilesMayFail = TRUE
  NetMayBreak = TRUE
INVARIANTS
  IInv
  DiskIsPrefix
  FinishedIsExact
  RetryIsSafe
  NeverBothWaiting
PROPERTIES
  AttemptEnds
CHECK_DEADLOCK FALSE
