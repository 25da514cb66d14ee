SPECIFICATION Spec
CONSTANTS
  Kinds <- AllKinds
  Modes <- AllModes
INVARIANTS
  TypeOK
  ValidIsRestored
  BalancedTrace
  OrphanOnlyOnDeadline
  MeasuredSubjectServed
PROPERTIES
  ImplementsContract
  RepetitionEnds
CHECK_DEADLOCK FALSE
