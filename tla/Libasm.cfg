SPECIFICATION Spec
CONSTANTS
  Bytes <- MCBytes
  S = 1
  T = 5
  Memory <- MCMemory
  Counts <- MCCounts
  Rests <- MCRests
  UINT_MAX = 511
  LONG_MAX = 511
INVARIANTS
  AgreesWithC
  ReadsInBounds
PROPERTY Returns
