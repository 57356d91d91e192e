\* The end key of a range when it starts a partition.
CONSTANTS
  Keys <- SomeKeys
  Rows <- SomeRows
  Order = 3
  NoKey = NoKey
  NoRow = NoRow
  Entries <- UniqueEntries
  Duplicates = FALSE
  MaxPartitionSize = 3
SPECIFICATION Spec
INVARIANTS
  RangeEndIncluded
CHECK_DEADLOCK FALSE
