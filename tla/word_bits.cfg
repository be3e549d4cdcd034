SPECIFICATION Spec
CONSTANTS
  WordSize = 8
  CountBits = 3
  DebugBuild = TRUE
  Values <- MCValues
  Numbers <- MCNumbers
INVARIANTS
  EqIgnoresGarbage
PROPERTIES
  WordPromise
VIEW View
