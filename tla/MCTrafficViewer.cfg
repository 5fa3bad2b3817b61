SPECIFICATION Spec
CONSTANTS
  Req = {q1, q2}
  NoReq = NoReq
  MaxDay = 2
  MaxClicks = 1
  MaxFaults = 1
SYMMETRY Symmetry
INVARIANTS
  RecordedRight
  ShownOnce
  IndexRight
PROPERTY
  LogSpec
CHECK_DEADLOCK FALSE
