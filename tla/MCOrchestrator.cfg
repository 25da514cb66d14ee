SPECIFICATION Spec
CONSTANTS
  Configs <- AllParts
  NRules = 4
  MaxLosses = 2
INVARIANTS
  TypeOK
  SuccessMeansRestored
  RunsTranslated
  TranslationIsInert
PROPERTIES
  OthersChainIsKept
  RunDeviceReturns
CHECK_DEADLOCK FALSE
