SPECIFICATION FairSpec
CONSTANTS
  Objects <- MCObjects
  Kind <- MCKind
  Level <- MCLevel
  Lone <- MCLone
  Graphs <- MCGraphs
  None = "none"
  MaxRecursion = 3
INVARIANTS
  TypeOK
  StackIsPath
  ListInHand
  TextSoFar
  ReturnsForGood
  CharsFitParts
  KindIsCanonical
  FailureRaises
PROPERTIES
  Ends
