SPECIFICATION MCSpec
CONSTANTS
  Element = {a, b}
  Nil = Nil
  MaxLen = 4
  MaxReserve = 4
  Value = {z, x}
  Zero = z
  MaxArrays = 2
  MaxCap = 2
  MaxPiece = 2
  CacheEntry = {1, 2, 3, 4}
  CacheKey <- MCCacheKey
  CacheValue = {0, 1}
  ExpiredValue = {0}
  MaxSize = 2
  TreeElem <- MCTreeElem
  MaxPoint = 6
  MaxBound = 7
  BucketSize = 2
INVARIANTS
  StringsIntact
  Balanced
  HoldsStored
  GetIsExact
  HoldsPoints
PROPERTIES
  ImplementsDeque
  EvictsInOrder
  AnswersRight
CHECK_DEADLOCK FALSE
