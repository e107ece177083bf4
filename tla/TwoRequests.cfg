SPECIFICATION FairSpec
CONSTANTS
  Requests = {q1,q2}
  Home <- SvdHome
  Inputs <- SplitInputs
  Fetches <- SplitFetches
  Programs <- UpToOne
  GlobalInputs <- UserInputs
  OutType <- SplitOutType
  Dest <- SplitDest
  Big <- SplitBig
  User = "USER"
  Cnt = "CNT"
  MaxFaults = 0
INVARIANTS RunsComplete ReleasedAtRest
PROPERTIES ImplementsDataflow Answered
CHECK_DEADLOCK FALSE
