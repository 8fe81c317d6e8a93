\* Every copy, with its own vectors, loops over four of them and TAIL_PADDING.
SPECIFICATION Spec
CONSTANTS
  Isas = {"sse2", "ssse3", "avx2", "avx512"}
  Texts <- MCTexts
  BatchOf <- MCBatchOf
  Unroll = 4
  Padding = 64
INVARIANTS
  BytesAreUtf8
  StaysInReserve
CHECK_DEADLOCK FALSE
