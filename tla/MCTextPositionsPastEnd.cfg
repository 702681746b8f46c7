SPECIFICATION TextSpec
CONSTANTS
  MaxBytes = 4
  MaxLine = 2
  MaxCharacter = 4
INVARIANT PastEndClamps
CHECK_DEADLOCK FALSE
