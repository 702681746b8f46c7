SPECIFICATION Spec
CONSTANTS
  IntBits = 2
  ClientIds <- MCClientIds
  Vocabulary <- MCVocabulary
  MaxMessages = 2
  MaxRequests = 5
  MaxNotifications = 1
INVARIANTS TypeOK AnswersNameTheirRequests CallbackGetsItsResponse PeerUnderstands
CHECK_DEADLOCK FALSE
