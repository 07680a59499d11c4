SPECIFICATION Spec
CONSTANTS
  Disks <- SmallDisks
  Paths <- SmallPaths
  Sizes = {0, 1, 3}
  Symbols = 4
  MaxInodes = 9
INVARIANTS
  BooksBalance
  ErrorsAreExplained
PROPERTIES
  ImplementsNamespace
  FilesArePlaced
CHECK_DEADLOCK FALSE
