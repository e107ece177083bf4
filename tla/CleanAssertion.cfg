SPECIFICATION Spec
CONSTANTS
  a1 = a1
  a2 = a2
  a3 = a3
  b1 = b1
  Requests = {a1, a2}
  TemplateOf <- MCTemplateOf
  WorkDirOf <- MCWorkDirOf
  MaxContainers <- NoContainer
  ParallelLimit <- TwoBlocks
  Ports <- TwoPorts
  NoPort = 0
  None = None
  MaxFailures = 1
INVARIANTS CleanAssertion
CHECK_DEADLOCK FALSE
