SPECIFICATION Spec
CONSTANTS
  a = a
  b = b
  c = c
  Names = {a, b, c}
  NUM_IMAP_PTRS_IN_CR = 2
  NUM_INODES_PER_IMAP_CHUNK = 2
  NUM_INODE_PTRS = 2
  DirSlots = 3
  Modes <- OnDiskModes
  MaxDepth = 1
  MaxLog = 21
SYMMETRY NamesAlike
INVARIANT NamesLeadToInodes
CHECK_DEADLOCK FALSE
