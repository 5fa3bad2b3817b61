SPECIFICATION Spec
CONSTANTS
  Provider = {anthropic, codex}
  Credential = {cred}
  NoCredential = NoCredential
  d1 = d1
  d2 = d2
  c1 = c1
  daemon = daemon
  cli = cli
  NoThread = NoThread
  NoRequest = NoRequest
  Torn = Torn
  Thread <- MCThread
  Process <- MCProcess
  ProcessOf <- MCProcessOf
SYMMETRY Symmetry
INVARIANTS
  NoStaleWrite
  NeverTorn
PROPERTIES
  MapSpec
