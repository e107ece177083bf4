SPECIFICATION Spec
CONSTANTS
  Requests = {q1}
  Home <- RecHome
  Inputs <- RecInputs
  Fetches <- RecFetches
  Programs <- RecPrograms
  GlobalInputs <- UserInputs
  OutType <- RecOutType
  Dest <- RecDest
  Big <- RecBig
  User = "USER"
  Cnt = "CNT"
  MaxFaults = 0
INVARIANTS TriggerOnce AnsweredAtRest
CHECK_DEADLOCK FALSE
