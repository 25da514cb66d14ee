SPECIFICATION Spec
CONSTANTS
  CaseNames = {"a", "b"}
  MaxWarmups = 1
  MaxRepetitions = 2
  MaxPlanned = 8
  MaxShuffled = 2
  Requested <- AllOptions
  Written <- TwoCases
INVARIANTS
  OnlyTheInfeasibleIsRefused
  BaselinesAreComparable
  EveryRepetitionRunsOnce
CHECK_DEADLOCK FALSE
