SPECIFICATION Spec
CONSTANTS
  WordSize = 4
  CountBits = 2
  MaxLen = 7
  MaxWords = 3
  DebugBuild = TRUE
  Careful = TRUE
  Operands <- MCOperands4
  Positions <- MCPositions4
  Reserves <- MCReserves
  Residues <- MCResidues
  Repeats <- MCRepeats
PROPERTIES
  Promise
VIEW View
CHECK_DEADLOCK FALSE
