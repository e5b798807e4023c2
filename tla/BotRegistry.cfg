SPECIFICATION Spec
CONSTANTS
  Callers = {c1, c2}
  MaxInstances = 2
  MaxFaults = 1
  Jobs = {"send", "close", "restore"}
  MayRevoke = TRUE
SYMMETRY CallerSymmetry
INVARIANTS
  TypeOK
  NoOrphan
  OneSession
  ShutdownStops
  RevokedIsForgotten
  WaitersAreServed
CHECK_DEADLOCK FALSE
