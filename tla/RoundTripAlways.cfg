SPECIFICATION RoundTripSpec
CONSTANTS
  Cases <- WordCases
  MaxLiteralPieces = 0
  MaxNamePieces = 1
INVARIANTS NamesDontFuse
CHECK_DEADLOCK FALSE
