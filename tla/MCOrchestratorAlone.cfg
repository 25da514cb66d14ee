SPECIFICATION Spec
CONSTANTS
  Configs <- Full
  NRules = 4
  MaxLosses = 1
INVARIANT
  MatrixRunsAlone
CHECK_DEADLOCK FALSE
