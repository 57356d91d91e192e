\* Orders 2 and 3, into splits of internal nodes, and a caller with duplicates.
CONSTANTS
  Keys <- SomeKeys
  Rows = {0, 1, 2}
  NoKey = NoKey
  NoRow = NoRow
  Callers <- PlainCallers
SPECIFICATION Spec
INVARIANTS
  TypeOK
  SearchFindsStored
  RangeSearchSorted
  KeyCountExact
  TreeShapeSound
PROPERTIES
  ImplementsKeyIndex
\* The caller stops when it has inserted and removed every key.
CHECK_DEADLOCK FALSE
