SPECIFICATION Spec
CONSTANTS
  r1 = r1
  r2 = r2
  n1 = n1
  t1 = t1
  Run = {r1, r2}
  One = r1
  Host = host
  Name = {n1, t1}
  Kind <- AllRedirect
  ChainName <- SameName
  Table <- SameTable
  Faults = {"scan", "fail", "interrupt"}
INVARIANTS TypeOK VerifiedInert
PROPERTIES OnlyOwnRemoved EveryRunEnds ImplementsContract
CHECK_DEADLOCK FALSE
