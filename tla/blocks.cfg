SPECIFICATION Spec
CONSTANTS
  WordSize = 4
  CountBits = 2
  MaxLen = 12
  MaxWords = 3
  Addresses <- MCAddresses
  a1 = a1
  a2 = a2
  a3 = a3
  Null = Null
  Positions <- MCPositions
  Reserves <- MCReserves
  Repeats <- MCRepeats
INVARIANTS
  BlocksOwned
PROPERTIES
  ImplementsBitList
VIEW View
SYMMETRY Symmetry
CHECK_DEADLOCK FALSE
