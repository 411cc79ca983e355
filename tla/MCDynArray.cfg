CONSTANTS
  Object <- MCObject
  Junk = Junk
  FirstCapacity = 1
  DYN_MAX_CAPACITY = 4
  SIZE_MAX = 7
  MaxStored = 3
SPECIFICATION Spec
INVARIANTS TypeOK EachObjectOnce
PROPERTIES IsList
