SPECIFICATION Spec
CONSTANTS
  a1 = a1
  a2 = a2
  a3 = a3
  b1 = b1
  Requests = {a1, a2, a3, b1}
  TemplateOf <- MCTemplateOf
  WorkDirOf <- MCWorkDirOf
  MaxContainers <- OneContainer
  ParallelLimit <- TwoBlocks
  Ports <- ThreePorts
  NoPort = 0
  None = None
  MaxFailures = 1
SYMMETRY Symmetric
INVARIANTS TypeOK NumExecExact SlotAccounting IdleExact PortsDistinct
PROPERTIES ImplementsService
CHECK_DEADLOCK FALSE
