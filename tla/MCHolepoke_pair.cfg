SPECIFICATION FairSpec
CONSTANTS
  Sender = {s1}
  Receiver = {r1}
  ID = {id1, id2}
  BogusID = bogus
  None = none
  Local <- MCLocal
  Public <- MCPublic
  SendMayFail = TRUE
  Roaming = {}
  Open = {}
INVARIANTS
  IInv
PROPERTIES
  OnlyMissingTransition
  ConnectionIsFinal
  AttemptEnds
