SPECIFICATION FairSpec
CONSTANTS
  MaxUpdates = 3
  MaxStreamLen = 2
  PageSize = 1
  Limits = {1}
  Hidden = {1}
  Workers = {w1}
  Calls = {c1, c2}
  NoCall = NoCall
  MaxAbandoned = 1
  RedisFaults = {"ack", "read", "append"}
  MayDrop = TRUE
INVARIANTS
  TypeOK
  AckedWereSeen
  AckComplete
  NoLostWakeup
PROPERTIES
  KeepsPromise
  EventuallySeen
CHECK_DEADLOCK FALSE
