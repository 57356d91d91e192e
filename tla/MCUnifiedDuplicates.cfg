\* Duplicate keys in a partition that splits.
CONSTANTS
  Keys <- SomeKeys
  Rows <- SomeRows
  Order = 3
  NoKey = NoKey
  NoRow = NoRow
  Entries <- DuplicateEntries
  Duplicates = TRUE
  MaxPartitionSize = 3
SPECIFICATION Spec
INVARIANTS
  OldPartitionBelowSplit
CHECK_DEADLOCK FALSE
