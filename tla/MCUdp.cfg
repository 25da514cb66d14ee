SPECIFICATION Spec
CONSTANTS
  Configs <- Workloads
  MaxSequence = 3
  MaxFaults = 2
INVARIANTS
  TypeOK
  RequestsMeasuredOnce
  EveryRequestIsCounted
  OperationsProveThePath
  CorruptionIsDamage
PROPERTIES
  RunReturns
CHECK_DEADLOCK FALSE
