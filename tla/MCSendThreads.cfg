SPECIFICATION Spec
CONSTANTS
  MaxConnections = 3
  Speeds <- MCSpeeds
  FirstSpeed = 2
  HolePoke = TRUE
  None = None
INVARIANTS
  OwnConnection
  NeverEmpty
  LeftOutByTwins
  LimitKept
  IInv
CHECK_DEADLOCK FALSE
