SPECIFICATION RoundTripSpec
CONSTANTS
  Cases <- PrefixCases
  MaxLiteralPieces = 0
  MaxNamePieces = 2
INVARIANTS NameRoundTrip
CHECK_DEADLOCK FALSE
