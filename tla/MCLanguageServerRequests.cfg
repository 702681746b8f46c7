SPECIFICATION Spec
CONSTANTS
  Workers <- TwoWorkers
  SyncWorker = sync
  Reader = reader
  Ids <- TwoIds
  NoId = NoId
  MaxMessages = 5
  MaxOutgoing = 0
  Vocabulary <- RequestVocabulary
  Senders <- Nobody
  UniqueIds = TRUE
  OrderlyClient = FALSE
  RunMayThrow = FALSE
  HooksMayThrow = TRUE
  w1 = w1
  w2 = w2
  i1 = i1
  i2 = i2
SYMMETRY Symmetric
INVARIANTS
  TypeOK
  TokensMatchInFlight
  CancelHonoured
  OneReply
  ExitCodeTellsShutdown
CHECK_DEADLOCK FALSE
