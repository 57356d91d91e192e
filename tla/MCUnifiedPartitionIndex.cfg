\* Eight unique keys, three to a partition, trees of order 3: a tree splits a leaf before its partition splits.
CONSTANTS
  Keys <- SomeKeys
  Rows <- SomeRows
  Order = 3
  NoKey = NoKey
  NoRow = NoRow
  Entries <- UniqueEntries
  Duplicates = FALSE
  MaxPartitionSize = 3
SPECIFICATION Spec
INVARIANTS
  QueriesFindInserted
PROPERTIES
  ImplementsPartitionedIndex
\* The caller stops when every entry is stored.
CHECK_DEADLOCK FALSE
