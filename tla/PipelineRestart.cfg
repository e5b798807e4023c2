SPECIFICATION Spec
CONSTANTS
  MaxUpdates = 2
  MaxInstances = 2
  MaxDrops = 0
  Unsequenced = {}
  Silent = {}
  Poisoned = {}
  IntakeMaxItems = 1
  GapQueueSize = 1
  UpdateQueueSize = 1
  RetryAttempts = 1
  RedisFaults = {"pts"}
  Resets = TRUE
INVARIANTS
  TypeOK
  NothingSkipped
  StopPersists
  IDsAreUnique
CHECK_DEADLOCK FALSE
