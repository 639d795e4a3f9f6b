SPECIFICATION ReliableSpec
CONSTANTS
  Sender = {s1}
  Receiver = {r1}
  ID = {id1}
  BogusID = bogus
  None = none
  Local <- MCLocal
  Public <- MCPublic
  SendMayFail = FALSE
  Roaming = {}
  Open = {}
PROPERTIES
  InvalidIDIsReported
