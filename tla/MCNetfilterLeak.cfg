SPECIFICATION Spec
CONSTANTS
  r1 = r1
  r2 = r2
  n1 = n1
  t1 = t1
  Run = {r1}
  One = r1
  Host = host
  Name = {n1, t1}
  Kind <- AllTProxy
  ChainName <- SameName
  Table <- SameTable
  Faults = {"scan", "fail", "interrupt"}
INVARIANTS VerifiedClean
CHECK_DEADLOCK FALSE
