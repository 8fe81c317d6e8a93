SPECIFICATION Spec
CONSTANTS
  WordBits = 14
  SafeDig = 4
  SigFullBits = 5
  MaxBinExp = 20
  MaxDecExp = 6
  MinDecExp <- LeastDecExp
  MaxDecDig = 19
  Pow10MaxExact = 2
  ShortChars = {"-", "+", "0", "1", "9", ".", "e", "]"}
  ShortLength = 5
  Significands = {1, 3, 17, 31, 32, 33, 63, 64, 65, 127, 128, 459, 999, 1000, 1023, 1025, 2461, 4097, 7777, 8191, 8192, 8193, 9999}
  MaxSignificand = 300
  MaxExponent = 7
  HalfStep = 1
  LongZeros = {1, 20}
  Texts <- AllTexts
INVARIANT DroppedDigitsRound
CHECK_DEADLOCK FALSE
