SPECIFICATION Spec
CONSTANTS
  Plan <- ShortBlock
  Pps <- PpsCase
  FailFasts <- Both
  MaxFaults = 2
INVARIANTS
  TypeOK
  StateMatchesResults
  NothingAfterFailure
  InPlanOrder
  SummaryIsTruthful
PROPERTIES
  ResultsAreFinal
  MatrixFinishes
