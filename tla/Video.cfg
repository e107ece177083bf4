SPECIFICATION Spec
CONSTANTS
  Requests = {q1}
  Home <- VideoHome
  Inputs <- VideoInputs
  Fetches <- VideoFetches
  Programs <- VideoPrograms
  GlobalInputs <- UserInputs
  OutType <- VideoOutType
  Dest <- VideoDest
  Big <- VideoBig
  User = "USER"
  Cnt = "CNT"
  MaxFaults = 0
INVARIANTS RunsComplete
CHECK_DEADLOCK FALSE
