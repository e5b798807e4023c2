SPECIFICATION Spec
CONSTANTS
  MaxUpdates = 2
  MaxContexts = 2
  MaxAged = 1
  MaxStreamLen = 2
  PageSize = 2
  MaxLoaded = 3
  DefaultConnections = 2
  MaxConnections = 2
  ChatOf <- OneChat
  KindOf <- AllMessages
  NoChat = NoChat
  Unreadable = {}
  StoredHooks = {0}
  Backlog = 0
  Requests <- AllRequests
  RedisFaults = {"ack", "drop", "save", "restore", "read"}
  Workers = {w1, w2}
  QueueSize = 1
  MaxAttempts = 2
  Refused = {}
SYMMETRY WorkerSymmetry
INVARIANTS
  TypeOK
  NoSilentLoss
  ChatOrder
  OnePerQueue
PROPERTIES
  KeepsPromise
