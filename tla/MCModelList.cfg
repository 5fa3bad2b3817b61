SPECIFICATION FairSpec
CONSTANTS
  Provider = {anthropic, codex}
  Versioned = {codex}
  NoOne = NoOne
  MaxAttempts = 3
  Limit = 2
  MaxHeld = 1
INVARIANTS
  TypeOK
  ListInTime
  LegTrue
PROPERTIES
  ListEnds
