CONSTANTS
  BitCount = 6
  ByteBits = 3
  SIZE_MAX = 99
  BlockBits = 3
  BITMAP_START_BLOCK = 2
  c1 = c1
  c2 = c2
  Client <- MCClient
  Values <- MCValues
SPECIFICATION Spec
INVARIANTS TypeOK MapIsExact GrantsAreExclusive ReadsLastWrite CountsAddUp
PROPERTY ImplementsAllocator
