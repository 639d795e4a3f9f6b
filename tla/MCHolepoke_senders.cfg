SPECIFICATION Spec
CONSTANTS
  Sender = {s1, s2}
  Receiver = {r1}
  ID = {id1, id2}
  BogusID = bogus
  None = none
  Local <- MCLocal
  Public <- MCPublic
  SendMayFail = FALSE
  Roaming = {}
  Open = {}
SYMMETRY Symmetry
INVARIANTS
  PeerIsPartner
  ConnectedMet
PROPERTIES
  ImplementsIntroduction
