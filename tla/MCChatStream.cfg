SPECIFICATION Spec
CONSTANTS
  MaxEvents = 5
  MaxItems = 2
  MaxChunk = 3
INVARIANTS
  TypeOK
  DoneMeansWhole
  ClientHasAnswer
  NothingHeld
CHECK_DEADLOCK FALSE
