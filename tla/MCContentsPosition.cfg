CONSTANTS
  BLOCK_SIZE_BYTES = 3
  Turn = 1
  fd_size = 2
  number_pointers = 2
  MaxBlocks = 62
  Word = 64
  Fd = {fd1, fd2}
  DataBlock <- MCDataBlock
  Overflow = 63
  File = {file1, file2}
  Requests <- MCRequests
  Offsets <- MCOffsets
  MaxWrites = 3
SPECIFICATION Spec
PROPERTY PositionAdvances
