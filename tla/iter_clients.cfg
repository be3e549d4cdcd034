SPECIFICATION ClientSpec
CONSTANTS
  WordSize = 8
  CountBits = 3
  MemWords = 2
  Memories <- MCMemories
  Counts <- MCCounts
  Sizes <- MCSizes
  Aligns <- MCAligns
  Bounds <- MCBounds
  Slices <- MCSlices
  Range1 = 1
  Range2 = 2
  Range3 = 3
  Clients <- MCClients
INVARIANTS
  IndexFollowsWindow
  CompressedReadsBack
  WordsCoverList
PROPERTIES
  NextIndexIsNext
  ClientsFinish
VIEW View
CHECK_DEADLOCK FALSE
