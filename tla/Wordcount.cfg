SPECIFICATION Spec
CONSTANTS
  Requests = {q1}
  Home <- WordcountHome
  Inputs <- SplitInputs
  Fetches <- SplitFetches
  Programs <- UpToThree
  GlobalInputs <- UserInputs
  OutType <- SplitOutType
  Dest <- SplitDest
  Big <- SplitBig
  User = "USER"
  Cnt = "CNT"
  MaxFaults = 2
INVARIANTS TypeOK MergeComplete SocketServerLives  KeptUntilRead AnsweredAtRest
PROPERTIES ImplementsDataflow
CHECK_DEADLOCK FALSE
