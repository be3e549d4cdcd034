SPECIFICATION Spec
CONSTANTS
  WordSize = 4
  CountBits = 2
  ByteSize = 2
  MemWords = 4
  Contents <- MCContents
INVARIANTS
  ContractKept
  TouchesOnlyItsWords
  ReadsInitialisedOnly
PROPERTIES
  Terminates
CHECK_DEADLOCK FALSE
