SPECIFICATION FairSpec
CONSTANTS
  Workers <- TwoWorkers
  SyncWorker = sync
  Reader = reader
  Ids <- TwoIds
  NoId = NoId
  MaxMessages = 4
  MaxOutgoing = 0
  Vocabulary <- CancelVocabulary
  Senders <- Nobody
  UniqueIds = FALSE
  OrderlyClient = TRUE
  RunMayThrow = FALSE
  HooksMayThrow = FALSE
  w1 = w1
  w2 = w2
  i1 = i1
  i2 = i2
INVARIANT PreCancelledNeverEnters
CHECK_DEADLOCK FALSE
