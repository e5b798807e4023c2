SPECIFICATION PoolFairSpec
CONSTANTS
  Workers = {w1, w2}
  QueueSize = 1
  MaxAttempts = 2
  Ids = {1}
  Contexts = {1, 2, 3}
  Refused = {}
INVARIANTS
  PoolTypeOK
  ReportedOnce
  StopDrains
PROPERTIES
  EveryTaskReported
  StopReturns
CHECK_DEADLOCK FALSE
