SPECIFICATION MCSpec
CONSTANTS
  MaxBytes = 6
  MaxLine = 2
  MaxCharacter = 4
  Alphabet <- MCAlphabet
  MaxPath = 4
  TokenLines <- MCTokenLines
  StartChars <- MCStartChars
  Lengths <- MCLengths
  TokenTypes <- MCTokenTypes
  Modulus = 8
  MaxPushes = 3
  MaxBuilds = 2
  MaxOdd = 2
INVARIANTS
  OffsetIsPlace
  OffsetWithinText
  OffsetsInOrder
  PathSurvivesUri
  SpellingDoesNotMatter
  ClientDecodesPushed
  WrittenIsRead
  NullIsAbsent
CHECK_DEADLOCK FALSE
