SPECIFICATION Spec
CONSTANTS
  Sender = {s1}
  Receiver = {r1}
  ID = {id1}
  BogusID = bogus
  None = none
  Local <- MCLocal
  Public <- MCPublic
  SendMayFail = TRUE
  Roaming = {s1}
  Open = {r1}
SYMMETRY Symmetry
INVARIANTS
  MapIsHonest
  BothTold
