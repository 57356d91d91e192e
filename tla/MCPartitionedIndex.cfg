\* Seven keys and two rows: up to six splits when partitions hold two entries.
CONSTANTS
  Keys <- MCKeys
  Rows = {r1, r2}
  NoKey = NoKey
  NoRow = NoRow
  MaxPartitionSize = 2
SPECIFICATION Spec
INVARIANTS
  TypeOK
  KeySpaceCovered
  EntriesInOnePlace
  SearchFindsWhatIsStored
  SizesBalanced
  RangeSearchSound
PROPERTIES
  BoundariesPersist
  ImplementsKeyIndex
\* The index is full when every key is stored.
CHECK_DEADLOCK FALSE
