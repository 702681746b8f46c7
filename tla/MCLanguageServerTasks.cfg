SPECIFICATION FairSpec
CONSTANTS
  Workers <- TwoWorkers
  SyncWorker = sync
  Reader = reader
  Ids <- TwoIds
  NoId = NoId
  MaxMessages = 4
  MaxOutgoing = 1
  Vocabulary <- TaskVocabulary
  Senders <- AllThreads
  UniqueIds = TRUE
  OrderlyClient = TRUE
  RunMayThrow = TRUE
  HooksMayThrow = FALSE
  w1 = w1
  w2 = w2
  i1 = i1
  i2 = i2
INVARIANTS
  DispatchNeedsSession
  ResponseRoutedOnce
  DrainedOnReturn
  SyncInOrder
PROPERTIES
  QuietAfterReturn
  RunReturns
  ImplementsContract
CHECK_DEADLOCK FALSE
