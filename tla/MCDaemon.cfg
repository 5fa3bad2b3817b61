SPECIFICATION FairSpec
CONSTANTS
  Cmd = {c1, c2}
  NoOne = NoOne
  MaxPid = 2
INVARIANTS
  SingleInstance
  StartedIsServing
  StoppedIsGone
  SignalsHolder
PROPERTIES
  EveryCommandEnds
