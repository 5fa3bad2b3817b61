SPECIFICATION Spec
CONSTANTS
  Getter = {g1, g2}
  Probe = probe
  NoThread = NoThread
  Floor = 1
  MaxVersion = 3
  RetryMin = 30
  Interval = 3600
INVARIANTS
  LearnedIsServed
PROPERTIES
  ProbeBacksOff
CHECK_DEADLOCK FALSE
