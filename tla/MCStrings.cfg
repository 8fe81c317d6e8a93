SPECIFICATION StringsSpec
CONSTANTS
  Copies <- MCCopies
  Batch = 2
  MaxText = 5
  Aways <- MCAways
  Keys <- MCKeys
  Empty <- EmptyKey
  Values = {1, 2}
  Hash <- MCHash
  CacheSize = 1
  MaxCached = 64
  MaxPairs = 2
  MaxDicts = 1
  MaxHeap = 4
INVARIANTS
  PartsHoldText
  ResultHasText
  LeastKind
  RefsCountOwners
  LeaksOnlyRepeated
  KeyIsText
  DictIsSpelled
CHECK_DEADLOCK FALSE
