\* Characters of few and of many bits, on both sides of each class; limbs of
\* one to eight digits, on both sides of every power of ten.
SPECIFICATION ConversionSpec
CONSTANTS
  TwoByteChars = {128, 191, 1365, 2047}
  ThreeByteChars = {2048, 4095, 43690, 55295, 65535}
  HighLimbs = {0, 1, 9, 10, 99, 100, 999, 1000, 9999, 10000, 99999, 100000, 999999, 1000000, 18446744}
  MidLimbs = {0, 7, 10, 99, 100, 700, 4099, 9999}
  LowLimbs = {0, 1, 9, 10, 19, 99, 100, 999, 1000, 9999, 10000, 10099, 99999, 100000, 999999, 1000000,
              9999999, 10000000, 10000099, 43690000, 99990000, 99999999}
  WordBits = 14
  SafeDig = 4
  SigFullBits = 5
  MaxBinExp = 20
  MaxDecExp = 6
  MinDecExp <- LeastDecExp
  MaxDecDig = 19
  Pow10MaxExact = 2
  ShortChars = {"-", "+", "0", "1", "9", ".", "e", "]"}
  ShortLength = 5
  Significands = {1, 3, 17, 31, 32, 33, 63, 64, 65, 127, 128, 459, 999, 1000, 1023, 1025, 2461, 4097, 7777, 8191, 8192, 8193, 9999}
  MaxSignificand = 300
  MaxExponent = 7
  HalfStep = 1
  LongZeros = {1, 20}
  Texts <- AllTexts
INVARIANTS
  VectorsEncode
  NumberIsDecimal
  NumberIsNearest
CHECK_DEADLOCK FALSE
