SPECIFICATION Spec
CONSTANTS
  Attempts = 3
  PoolAttempts = 2
INVARIANTS
  TypeOK
  CopiesNeedALoss
  ResetIsDeserved
  RefusalMeansNothingDone
  PartsStayWhereUploaded
  OneAccount
  ItemsStayHome
PROPERTIES
  EventuallyAnswered
