SPECIFICATION FairSpec
CONSTANTS
  r1 = r1
  r2 = r2
  m1 = m1
  daemon = daemon
  cli = cli
  Caller <- OnePerProcess
  Lister = {m1}
  Process <- MCProcess
  ProcessOf <- ProcessOfTwo
  Account = {alice}
  NoProcess = NoProcess
  MaxAttempts = 2
  MaxToken = 2
PROPERTIES
  EveryRequestEnds
