SPECIFICATION FairSpec
CONSTANTS
  Getter = {g1}
  Probe = probe
  NoThread = NoThread
  Floor = 1
  MaxVersion = 3
  RetryMin = 30
  Interval = 3600
CHECK_DEADLOCK FALSE
PROPERTIES
  ProbeGoesOn
