SPECIFICATION Spec
CONSTANTS
  Plan <- OneBlock
  Pps <- PpsCase
  FailFasts <- Collect
  MaxFaults = 0
INVARIANT
  NextCaseIsProven
