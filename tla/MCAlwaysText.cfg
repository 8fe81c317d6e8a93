SPECIFICATION Spec
CONSTANTS
  Copies <- MCCopies
  Batch = 2
  MaxText = 5
  Aways <- MCAways
INVARIANT
  AlwaysText
