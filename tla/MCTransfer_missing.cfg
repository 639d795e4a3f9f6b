SPECIFICATION Spec
CONSTANTS
  N = 3
  End <- MCEnd
  Offsets <- MCOffsets
  Attempts = 1
  FilesMayFail = FALSE
  NetMayBreak = FALSE
INVARIANTS
  ExpectsWhatIsSent
CHECK_DEADLOCK FALSE
