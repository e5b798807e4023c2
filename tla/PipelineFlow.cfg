SPECIFICATION FairSpec
CONSTANTS
  MaxUpdates = 2
  MaxInstances = 1
  MaxDrops = 1
  Unsequenced = {}
  Silent = {}
  Poisoned = {1}
  IntakeMaxItems = 1
  GapQueueSize = 1
  UpdateQueueSize = 1
  RetryAttempts = 2
  RedisFaults = {"pts", "id", "id reply", "append", "append reply"}
  Resets = TRUE
PROPERTIES
  EventuallyPersisted
CHECK_DEADLOCK FALSE
