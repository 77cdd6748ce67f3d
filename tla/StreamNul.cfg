SPECIFICATION MCSpec
CONSTANTS
  Texts <- ScannerTexts
  MaxQuotePieces = 0
  MaxDollarPieces = 0
  Fragments <- NulFragments
  MaxFragments = 3
  BufferSize = 5
  Cases = {}
  MaxLiteralPieces = 0
  MaxNamePieces = 0
INVARIANTS CompleteAtEOF
