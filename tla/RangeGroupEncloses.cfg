SPECIFICATION RangeSpec
CONSTANTS
  MaxBound = 7
  BucketSize = 2
INVARIANTS EnclosesExact
