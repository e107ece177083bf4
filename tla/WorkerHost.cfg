SPECIFICATION HostSpec
CONSTANTS
  Requests = {q1}
  Home <- WordcountHome
  Inputs <- SplitInputs
  Fetches <- SplitFetches
  Programs <- UpToTwo
  GlobalInputs <- UserInputs
  OutType <- SplitOutType
  Dest <- SplitDest
  Big <- SplitBig
  User = "USER"
  Cnt = "CNT"
  MaxFaults = 2
  Watched = "h2"
  SerialNumbers <- TwoItems
  DeleteBatch = 1
  WriteFails = TRUE
INVARIANTS  HostClean
CHECK_DEADLOCK FALSE
