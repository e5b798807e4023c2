SPECIFICATION FairSpec
CONSTANTS
  MaxUpdates = 1
  MaxContexts = 1
  MaxAged = 0
  MaxStreamLen = 3
  PageSize = 2
  MaxLoaded = 3
  DefaultConnections = 2
  MaxConnections = 2
  ChatOf <- ChatsOneTwoOne
  KindOf <- AllMessages
  NoChat = NoChat
  Unreadable = {}
  StoredHooks = {2}
  Backlog = 0
  Requests <- NoRequests
  RedisFaults = {"restore"}
  Workers = {w1}
  QueueSize = 2
  MaxAttempts = 1
  Refused = {}
PROPERTIES
  StoredWebhookDelivers
