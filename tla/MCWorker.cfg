SPECIFICATION WorkerSpec
CONSTANTS
  Configs <- AllConfigs
  AckWindow = 2
  Window = 2
  MaxBlocks = 3
  MaxFaults = 1
INVARIANTS
  WorkerTypeOK
  OperationsAreServed
  NeverBothWait
  CountsAreComplete
  AcceptedIsSampled
PROPERTIES
  EveryoneReturns
CHECK_DEADLOCK FALSE
