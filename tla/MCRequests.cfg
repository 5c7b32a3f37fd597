CONSTANTS
  Threads = {t1}
  WordBits = 24
  IntBits = 7
  Sizes <- MCSizes
  Counts <- MCCounts
  Blocks = {b1, b2, b3}
SPECIFICATION RequestSpec
SYMMETRY BlockSymmetry
INVARIANTS ClassesSound HeadersRight ShortOnlyIfKnown
PROPERTIES SizesServed OnlyReAllocLeaks
