SPECIFICATION MCSpec
CONSTANTS
  m1 = m1
  m2 = m2
  a1 = a1
  a2 = a2
  a3 = a3
  g1 = g1
  g2 = g2
  g3 = g3
  Monitor = {m1, m2}
  Root = Root
  Account = {a1, a2, a3}
  OwnerOf <- MCOwnerOf
  Chunk <- MCChunk
  Limit <- MCLimit
  Capacity = 12
  UnusedBlocks = 1
  MaxRoundSize = 5
  Sizes = {0, 3, 5}
  Reserves = {0, 2}
  Standalones = {4}
  Goroutine = {g1, g2, g3}
  OpsOf <- MCOpsOf
  Remote <- MCRemote
  MaxTime = 2
  MaxLogical = 1
  MaxOffset = 2
  Delta = 1
  MaxCalls = 3
  MapUser = {u1, u2}
  MapKey = {k1, k2}
  MapValue = {v1}
  NoValue = none
  NilPtr = nilptr
  Expunged = expunged
SYMMETRY MCSymmetry
INVARIANTS
  BytesAddUp
  Covered
  SlackBounded
  HighestReadingWins
  PromisesPersisted
  SkewBounded
  PartsAgree
PROPERTIES
  StoppedHandsOutNoPool
  TimestampAdvances
  Linearizable
