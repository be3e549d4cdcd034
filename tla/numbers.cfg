SPECIFICATION NumbersSpec
CONSTANTS
  WordSize = 8
  CountBits = 3
  MaxLen = 10
  MaxWords = 2
  DebugBuild = TRUE
  Careful = TRUE
  Operands <- MCOperands
  Positions = {}
  Reserves = {}
  Residues <- MCResidues
  Repeats = {}
  ByteSize = 4
  LongBits = 8
  WideBits = 16
  Scalars <- MCScalars
  Lengths <- MCLengths
  Texts <- MCTexts
PROPERTIES
  NumberPromise
VIEW View
CHECK_DEADLOCK FALSE
INVARIANTS
  NumbersReadBack
  PartsRejoin
  SetAtOverwrites
  BcdFits
  DecimalIsNumber
