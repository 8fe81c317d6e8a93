SPECIFICATION Spec
CONSTANTS
  AsciiStart = 2
  CompactStart = 3
  Sizes <- MCSizes
  InitSize = 8
  VectorBytes = 8
  MaxSpare = 2
  MaxToken = 4
  MaxText = 11
INVARIANTS
  RoomForText
  TextHeld
