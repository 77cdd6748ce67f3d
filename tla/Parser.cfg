SPECIFICATION Spec
CONSTANTS
  Uses <- MCUses
  MaxTextPieces = 4
  MaxReusePieces = 2
INVARIANTS TypeOK TokensMatchText ErrorPointsAtToken StatementsExact ReturnedIntact
