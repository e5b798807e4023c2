SPECIFICATION FairSpec
CONSTANTS
  MaxUpdates = 2
  MaxContexts = 2
  MaxAged = 1
  MaxStreamLen = 3
  PageSize = 2
  MaxLoaded = 3
  DefaultConnections = 2
  MaxConnections = 2
  ChatOf <- OneChat
  KindOf <- MessageThenMember
  NoChat = NoChat
  Unreadable = {}
  StoredHooks = {0}
  Backlog = 1
  Requests <- SetOne
  RedisFaults = {"read", "ack", "save", "restore"}
  Workers = {w1}
  QueueSize = 1
  MaxAttempts = 1
  Refused = {1}
INVARIANTS
  EveryReportHasRoom
PROPERTIES
  EventuallySettled
  ChangeReturns
