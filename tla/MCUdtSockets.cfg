SPECIFICATION FairSpec
CONSTANTS
  Attempt <- MCAttempt
  Id <- MCId
  Isn <- MCIsn
  Address <- MCAddress
  Width = 4
  Backlog = 1
  MaxSocket = 2
  None = None
INVARIANTS
  Agreement
  TablesAgree
  NobodySleeps
PROPERTIES
  EverythingIsRemoved
CHECK_DEADLOCK FALSE
