SPECIFICATION Spec
CONSTANTS
  a = a
  b = b
  c = c
  Names = {a, b, c}
  Geometries <- MCGeometries
  MaxUsed = 4
  MaxDepth = 2
SYMMETRY NamesAlike
INVARIANTS
  BitmapsMatchTables
  LinkCountsMatchEntries
  NamesResolve
PROPERTIES
  ImplementsNamespace
CHECK_DEADLOCK FALSE
