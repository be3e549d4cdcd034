SPECIFICATION Spec
CONSTANTS
  WordSize = 8
  CountBits = 3
  MaxLen = 9
  MaxWords = 2
  DebugBuild = FALSE
  Careful = TRUE
  Operands <- MCOperands8
  Positions <- MCPositions8
  Reserves <- MCReserves
  Residues <- MCResidues
  Repeats <- MCRepeats
PROPERTIES
  Promise
VIEW View
CHECK_DEADLOCK FALSE
