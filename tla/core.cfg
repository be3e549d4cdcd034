SPECIFICATION Spec
CONSTANTS
  WordSize = 4
  CountBits = 2
  MaxLen = 8
  MaxWords = 3
  DebugBuild = FALSE
  Careful = FALSE
  Operands <- MCOperands4
  Positions <- MCPositions4
  Reserves <- MCReserves
  Residues <- MCResidues
  Repeats <- MCRepeats
INVARIANTS
  TypeOK
  TrailingBitsZero
  FitsCapacity
  RoomIsUsed
  NoGarbage
  EqIsSameString
  EqualHashAlike
  OrderIsUnsigned
  OrderIsSigned
  CountsAreExact
PROPERTIES
  PanicLeavesListIntact
  CapacityKept
VIEW View
CHECK_DEADLOCK FALSE
