SPECIFICATION StuckSpec
CONSTANTS
  MaxUpdates = 2
  MaxInstances = 2
  MaxDrops = 1
  Unsequenced = {2}
  Silent = {1}
  Poisoned = {}
  IntakeMaxItems = 1
  GapQueueSize = 1
  UpdateQueueSize = 1
  RetryAttempts = 1
  RedisFaults = {}
  Resets = TRUE
PROPERTIES
  Reconnects
  HandleReturns
CHECK_DEADLOCK FALSE
