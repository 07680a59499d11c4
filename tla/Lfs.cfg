SPECIFICATION Spec
CONSTANTS
  a = a
  b = b
  c = c
  Names = {a, b, c}
  NUM_IMAP_PTRS_IN_CR = 2
  NUM_INODES_PER_IMAP_CHUNK = 2
  NUM_INODE_PTRS = 2
  DirSlots = 2
  Modes <- InMemoryModes
  MaxDepth = 2
  MaxLog = 16
SYMMETRY NamesAlike
INVARIANTS
  TypeOK
  LinkCountsMatchEntries
  CheckpointIsCurrent
PROPERTIES
  ImplementsNamespace
CHECK_DEADLOCK FALSE
