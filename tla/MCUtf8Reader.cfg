SPECIFICATION Spec
CONSTANTS
  Inputs <- MCInputs
  Junk <- MCJunk
  MaxPieces = 3
INVARIANTS
  ReadsExactly
  LeastKind
  StoresInBuffer
