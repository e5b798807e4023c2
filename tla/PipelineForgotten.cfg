SPECIFICATION Spec
CONSTANTS
  MaxUpdates = 2
  MaxInstances = 2
  MaxDrops = 0
  Unsequenced = {}
  Silent = {}
  Poisoned = {}
  IntakeMaxItems = 2
  GapQueueSize = 1
  UpdateQueueSize = 1
  RetryAttempts = 2
  RedisFaults = {}
  Resets = TRUE
INVARIANTS
  RestartFetchesMissed
CHECK_DEADLOCK FALSE
