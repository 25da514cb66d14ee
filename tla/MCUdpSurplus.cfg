SPECIFICATION Spec
CONSTANTS
  Configs <- Surplus
  MaxSequence = 3
  MaxFaults = 0
INVARIANTS
  SendsOnlyRequests
CHECK_DEADLOCK FALSE
