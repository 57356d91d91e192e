\* Eleven callers: each encoder, with values at the boundaries of its range, order
\* and length.
CONSTANTS
  Base = 8
  Radix = 3
  Minus = 0
  Zero = 1
  Bom = 5
  Throws = Throws
  NoKey = NoKey
  NoRow = NoRow
  MaxPartitionSize = 2
  Callers <- MCCallers
SPECIFICATION Spec
INVARIANTS
  TypeOK
  SearchFindsInserted
  RangeSearchDecodes
  RangeSearchByValue
  SplitsHappen
PROPERTIES
  ImplementsPartitionedIndex
\* The caller stops when it has inserted every value.
CHECK_DEADLOCK FALSE
