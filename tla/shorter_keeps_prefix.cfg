SPECIFICATION Spec
CONSTANTS
  WordSize = 4
  CountBits = 2
  MaxLen = 7
  MaxWords = 3
  DebugBuild = FALSE
  Careful = FALSE
  Operands <- MCOperands4
  Positions <- MCPositions4
  Reserves <- MCReserves
  Residues <- MCResidues
  Repeats <- MCRepeats
INVARIANTS
  ShorterKeepsPrefix
VIEW View
CHECK_DEADLOCK FALSE
