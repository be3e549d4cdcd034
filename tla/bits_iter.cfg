SPECIFICATION Spec
CONSTANTS
  WordSize = 4
  CountBits = 2
  MemWords = 3
  Memories <- MCMemories
  Counts <- MCCounts
  Sizes <- MCSizes
  Aligns <- MCAligns
  Bounds <- MCBounds
  Slices <- MCSlices
INVARIANTS
  WindowOK
  EqualIffSameBits
PROPERTIES
  ReadsInside
  OpensWhatIsAsked
  IterPromise
VIEW View
