CONSTANTS
  BitCount = 6
  ByteBits = 4
  SIZE_MAX = 99
SPECIFICATION Spec
INVARIANTS TypeOK TotalSetExact FirstFoundIsLowest ForEachVisits
PROPERTY IsBitSet
