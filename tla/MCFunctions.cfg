CONSTANTS
  MaxMessages = 5
  MaxCalls = 2
  MaxPrefix = 2
  MaxDays = 1500
  MaxMarks = 8
  MaxFrames = 4
  Value = {"first", "second", "third"}
  MaxSeconds = 6000
SPECIFICATION CaseSpec
INVARIANTS
  ConversationKept
  OptionsMeant
  RequestForwarded
  ExchangeRight
  LogFilesRight
  UsageCounted
  CredentialKept
CHECK_DEADLOCK FALSE
