SPECIFICATION Spec
CONSTANTS
  Isas <- MCIsas
  Texts <- MCTexts
  Before <- MCBefore
  Batch = 4
  MaxPieces = 3
INVARIANTS
  ReadsString
  MaxIsOfRaw
  StoresInReserve
