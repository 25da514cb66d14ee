SPECIFICATION Spec
CONSTANTS
  Configs <- Full
  NRules = 4
  MaxLosses = 1
INVARIANT
  CleanupBeforeService
CHECK_DEADLOCK FALSE
