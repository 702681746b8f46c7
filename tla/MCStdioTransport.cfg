SPECIFICATION FairSpec
CONSTANTS
  t1 = t1
  t2 = t2
  NoWriter = NoWriter
  Writers <- MCWriters
  Bodies <- MCBodies
  Fields <- MCFields
  Malformed <- MCMalformed
  MaxFrames = 2
  MaxHeader = 12
  IntBits = 6
INVARIANTS TypeOK GivesUpForCause
PROPERTY ImplementsChannel
CHECK_DEADLOCK FALSE
