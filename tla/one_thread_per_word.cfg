SPECIFICATION Spec
CONSTANTS
  WordSize = 4
  CountBits = 2
  ByteSize = 2
  Threads <- MCThreads
  t1 = t1
  t2 = t2
  Lists <- MCLists
  Bounds <- MCBounds
  Counts <- MCCounts
  Values <- MCValues
  MaxWindows = 2
  MaxRefs = 1
  Careful = FALSE
INVARIANTS
  OneThreadPerWord
SYMMETRY Symmetry
CHECK_DEADLOCK FALSE
