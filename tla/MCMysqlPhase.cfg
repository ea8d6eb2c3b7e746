CONSTANTS
  None = None
  ThreadNum = 2
  User = {1, 2}
  PoolSize = 2
  TotalOps = 3
  Service = {d1, d2}
  Clocks = {"memory", "register"}
  MaxTime = 2
SPECIFICATION FairSpec
INVARIANTS
  ConnectionsConserved
  ServedWhileEnough
  ResultIsWhole
PROPERTIES
  PhaseEnds
CHECK_DEADLOCK FALSE
