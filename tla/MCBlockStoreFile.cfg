CONSTANTS
  BitCount = 4
  ByteBits = 2
  SIZE_MAX = 99
  BlockBits = 2
  BITMAP_START_BLOCK = 1
  c1 = c1
  c2 = c2
  Client <- MCClient
  Values <- MCValues
  PointerBits = 1
  WriteSizes <- MCWriteSizes
  Garbage <- MCGarbage
SYMMETRY Symmetry
CONSTRAINT NotTorn
SPECIFICATION FileSpec
INVARIANTS ReloadIsExact ReloadKeepsWrites
