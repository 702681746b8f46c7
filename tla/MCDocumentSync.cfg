SPECIFICATION FairSpec
CONSTANTS
  u1 = u1
  u2 = u2
  r1 = r1
  SyncWorker = SyncWorker
  Uris <- MCUris
  Readers <- MCReaders
  Announced <- MCAnnounced
  Texts <- MCTexts
  Inserts <- MCInserts
  Positions <- MCPositions
  MaxNotifications = 3
  MaxChanges = 2
INVARIANTS
  TypeOK
  StoreFollowsClient
  SavedIsWhatClientSaved
  PointersOutliveChanges
PROPERTY NotificationsHandled
CHECK_DEADLOCK FALSE
