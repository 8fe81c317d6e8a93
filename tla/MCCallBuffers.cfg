SPECIFICATION Spec
CONSTANTS
  MaxKeys = 4
  MaxOthers = 1
  Numberings <- MCNumberings
  Threads = {t1, t2}
  MaxDepth = 2
  NULL = NULL
  Calls <- MCCalls
SYMMETRY Symmetric
INVARIANTS
  LoadedIsWhole
  OthersKeepOut
  NothingLeaks
CHECK_DEADLOCK FALSE
