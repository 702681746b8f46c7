SPECIFICATION FairSpec
CONSTANTS
  t1 = t1
  t2 = t2
  NoWriter = NoWriter
  Writers <- MCWriters
  Bodies <- ShortBodies
  Fields <- None
  Malformed <- None
  MaxFrames = 1
  MaxHeader = 9
  IntBits = 6
PROPERTY EndOfInputReturns
CHECK_DEADLOCK FALSE
