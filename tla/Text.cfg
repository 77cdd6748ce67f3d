SPECIFICATION MCSpec
CONSTANTS
  Texts <- ScannerTexts
  MaxQuotePieces = 5
  MaxDollarPieces = 7
  Fragments <- StreamFragments
  MaxFragments = 4
  BufferSize = 5
  Cases <- AllCases
  MaxLiteralPieces = 3
  MaxNamePieces = 2
INVARIANTS MCTypeOK SemicolonsSeparate DollarQuotesMatch
           StreamIsParse ErrorsExplained
           LiteralRoundTrip NameRoundTrip OnlyAlwaysFuses
PROPERTIES Progress
