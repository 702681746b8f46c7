SPECIFICATION Spec
CONSTANTS
  Workers <- OneWorker
  SyncWorker = sync
  Reader = reader
  Ids <- TwoIds
  NoId = NoId
  MaxMessages = 3
  MaxOutgoing = 0
  Vocabulary <- InitializeVocabulary
  Senders <- Nobody
  UniqueIds = TRUE
  OrderlyClient = TRUE
  RunMayThrow = FALSE
  HooksMayThrow = TRUE
  w1 = w1
  w2 = w2
  i1 = i1
  i2 = i2
INVARIANT RefusesOnlySecondInitialize
CHECK_DEADLOCK FALSE
