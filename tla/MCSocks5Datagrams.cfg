SPECIFICATION DatagramSpec
CONSTANTS
  V4_LEN = 1
  V6_LEN = 4
  Alphabet = {0, 1, 3, 4}
  Destinations <- MCDestinations
  MaxLen = 11
CHECK_DEADLOCK FALSE
INVARIANTS ParserSound ParserComplete
