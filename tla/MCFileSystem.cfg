CONSTANTS
  number_inodes = 4
  number_fd = 1
  folder_number_entries = 2
  DataBlocks = 2
  Names <- LetterAndBitmap
  MaxDepth = 3
SPECIFICATION Spec
INVARIANTS TypeOK TreeShape InodeMapExact BlocksExclusive DescriptorsAreFiles OpenFinds CreateFindsParent FilesStay
