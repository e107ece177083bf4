SPECIFICATION FairSpec
CONSTANTS
  a1 = a1
  a2 = a2
  a3 = a3
  b1 = b1
  Requests = {a1, a2, a3, b1}
  TemplateOf <- MCTemplateOf
  WorkDirOf <- MCWorkDirOf
  MaxContainers <- NoContainer
  ParallelLimit <- OneBlock
  Ports <- TwoPorts
  NoPort = 0
  None = None
  MaxFailures = 0
PROPERTIES Served Drained
CHECK_DEADLOCK FALSE
