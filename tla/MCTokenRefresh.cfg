SPECIFICATION Spec
CONSTANTS
  r1 = r1
  r2 = r2
  m1 = m1
  daemon = daemon
  cli = cli
  Caller <- OnePerProcess
  Lister = {m1}
  Process <- MCProcess
  ProcessOf <- ProcessOfTwo
  Account = {alice, bob}
  NoProcess = NoProcess
  MaxAttempts = 3
  MaxToken = 3
SYMMETRY AccountSymmetry
INVARIANTS
  TypeOK
  NeverReplayed
  RefreshesCurrent
  RejectedNotResent
  RefreshTokenKept
  AccountFollowsLogin
PROPERTIES
  NoExpiredToken
