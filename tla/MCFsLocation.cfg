CONSTANTS
  number_inodes = 6
  number_fd = 1
  folder_number_entries = 2
  DataBlocks = 3
  Names <- Letters
  MaxDepth = 3
SPECIFICATION Spec
INVARIANT CreatedWhereAsked
