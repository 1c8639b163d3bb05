SPECIFICATION JsonSpec
CONSTANTS
  Alphabet = {34, 44, 45, 49, 58, 91, 92, 93, 32, 123, 125}
  MaxText = 5
  Sources <- SomeTexts
  Rooms = {1, 10, 14, 20, 25, 30, 40, 60}
  NESTING_LIMIT = 3  INT_MAX = 100  NumberLength = 5  DefaultBufferSize = 4
INVARIANTS ValueIsDenoted MinifyKeepsMeaning WritesFit CompareIsEquality DuplicateIsEqual
CHECK_DEADLOCK FALSE
