\* A caller that inserts a key again after it has removed it.
CONSTANTS
  Keys <- SomeKeys
  Rows = {0, 1, 2}
  NoKey = NoKey
  NoRow = NoRow
  Callers <- ReinsertingCallers
SPECIFICATION Spec
INVARIANTS
  SearchFindsStored
