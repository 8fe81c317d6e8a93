---------------------------- MODULE MCConversions ----------------------------
(***************************************************************************)
(* Model checking of the conversions, which keep nothing between calls:    *)
(* one call of the vector code of Utf8Vectors or of write_u64 of           *)
(* IntWriter, on every input below, or the reading of one number, on each  *)
(* text of MCNumberReader, against what the result should be.              *)
(***************************************************************************)
EXTENDS Utf8Vectors, IntDecimal, MCNumberReader

CONSTANTS
  TwoByteChars,    \* characters of two bytes that a vector may hold
  ThreeByteChars,  \* and of three
  HighLimbs,       \* of a number, its digits above the twelfth
  MidLimbs,        \* the four below these
  LowLimbs         \* and the last eight

callVars == <<call, result>>

\* The functions: the characters in a vector, the bytes of each, and whether
\* only the last len of them are to be stored.
Vector(f, n, k) == [fn |-> f, n |-> n, k |-> k, blend |-> FALSE]
Blend(f, n, k) == [Vector(f, n, k) EXCEPT !.blend = TRUE]

Functions ==
  { Vector("ucs2_encode_2bytes_utf8_sse2", 8, 2),    Vector("ucs4_encode_2bytes_utf8_sse2", 4, 2),
    Vector("ucs2_encode_2bytes_utf8_avx2", 16, 2),   Vector("ucs4_encode_2bytes_utf8_avx2", 8, 2),
    Vector("ucs2_encode_2bytes_utf8_avx512", 32, 2), Vector("ucs4_encode_2bytes_utf8_avx512", 16, 2),
    Vector("ucs2_encode_3bytes_utf8_ssse3", 8, 3),   Vector("ucs4_encode_3bytes_utf8_ssse3", 4, 3),
    Vector("ucs2_encode_3bytes_utf8_avx2", 16, 3),   Vector("ucs4_encode_3bytes_utf8_avx2", 8, 3),
    Vector("ucs2_encode_3bytes_utf8_avx512", 32, 3), Vector("ucs4_encode_3bytes_utf8_avx512", 16, 3),
    Blend("ucs2_encode_2bytes_utf8_avx2_blendhigh", 16, 2),
    Blend("ucs4_encode_2bytes_utf8_avx2_blendhigh", 8, 2),
    Blend("ucs2_encode_3bytes_utf8_avx2_blendhigh", 16, 3),
    Blend("ucs4_encode_3bytes_utf8_avx2_blendhigh", 8, 3) }

\* A vector of one character with another one at a place of it.
Chars(f) ==
  LET cs == IF f.k = 2 THEN TwoByteChars ELSE ThreeByteChars IN
  {[i \in Places(f.n) |-> IF i = at THEN d ELSE c] : at \in {0, 3, 4, 7, f.n - 1} \cap Places(f.n), c \in cs, d \in cs}

VectorCalls ==
  UNION {{[f |-> f, cs |-> cs, len |-> l] : cs \in Chars(f), l \in IF f.blend THEN 1 .. f.n - 1 ELSE {f.n}} : f \in Functions}

NumberCalls == {NumberCall(h, m, l) : h \in HighLimbs, m \in MidLimbs, l \in LowLimbs}

\* One of the calls.
CallInit == call \in VectorCalls \cup NumberCalls /\ result = Nothing

CallNext ==
  \/ Is("ucs2_encode_2bytes_utf8_sse2") /\ Returns(TwoBytesUcs2Sse2(call.cs, 8))
  \/ Is("ucs4_encode_2bytes_utf8_sse2") /\ Returns(TwoBytesUcs4Sse2(call.cs, 4))
  \/ Is("ucs2_encode_2bytes_utf8_avx2") /\ Returns(TwoBytesUcs2Avx2(call.cs, 16))
  \/ Is("ucs4_encode_2bytes_utf8_avx2") /\ Returns(TwoBytesUcs4Avx2(call.cs, 8))
  \/ Is("ucs2_encode_2bytes_utf8_avx512") /\ Returns(TwoBytesUcs2Avx512(call.cs, 32))
  \/ Is("ucs4_encode_2bytes_utf8_avx512") /\ Returns(TwoBytesUcs4Avx512(call.cs, 16))
  \/ Is("ucs2_encode_3bytes_utf8_ssse3") /\ Returns(ThreeBytesUcs2Ssse3(call.cs))
  \/ Is("ucs4_encode_3bytes_utf8_ssse3") /\ Returns(ThreeBytesUcs4Ssse3(call.cs))
  \/ Is("ucs2_encode_3bytes_utf8_avx2") /\ Returns(ThreeBytesUcs2Avx2(call.cs))
  \/ Is("ucs4_encode_3bytes_utf8_avx2") /\ Returns(ThreeBytesUcs4Avx2(call.cs))
  \/ Is("ucs2_encode_3bytes_utf8_avx512") /\ Returns(ThreeBytesUcs2Avx512(call.cs))
  \/ Is("ucs4_encode_3bytes_utf8_avx512") /\ Returns(ThreeBytesUcs4Avx512(call.cs))
  \/ Is("ucs2_encode_2bytes_utf8_avx2_blendhigh") /\ Returns(TwoBytesUcs2BlendHigh(call.cs, 16, call.len))
  \/ Is("ucs4_encode_2bytes_utf8_avx2_blendhigh") /\ Returns(TwoBytesUcs4BlendHigh(call.cs, 8, call.len))
  \/ Is("ucs2_encode_3bytes_utf8_avx2_blendhigh") /\ Returns(ThreeBytesUcs2BlendHigh(call.cs, call.len))
  \/ Is("ucs4_encode_3bytes_utf8_avx2_blendhigh") /\ Returns(ThreeBytesUcs4BlendHigh(call.cs, call.len))
  \/ WriteNumber

\* Where nothing is called, and where nothing is read.
NoCall == [f |-> [fn |-> "none"]]

NothingRead ==
  /\ text = <<>> /\ pc = "none" /\ number = Unknown
  /\ cur = 0 /\ sig = 0 /\ taken = 0 /\ dot_pos = 0 /\ sig_cut = 0 /\ sig_end = 0 /\ exp_sig = 0

\* One conversion, of either kind.
ConversionInit ==
  \/ CallInit /\ NothingRead
  \/ Init /\ call = NoCall /\ result = Nothing

ConversionNext ==
  \/ CallNext /\ UNCHANGED vars
  \/ Next /\ UNCHANGED callVars

ConversionSpec == ConversionInit /\ [][ConversionNext]_<<vars, callVars>>

-----------------------------------------------------------------------------
\* The UTF-8 of a character of two or three bytes.
Utf8(c) ==
  IF c < 2048 THEN <<192 + c \div 64, 128 + (c % 64)>>
  ELSE <<224 + c \div 4096, 128 + ((c \div 64) % 64), 128 + (c % 64)>>

\* Every character of a vector of one class is encoded at its place, in every
\* lane, and a blend stores the last len characters and nothing before them:
\* that is the end of a text whose bytes stand there (simd/*/encode/bytes).
VectorsEncode ==
  result # Nothing /\ ~Is("write_u64") =>
    LET f == call.f IN
    /\ \A i \in f.n - call.len .. f.n - 1 : \A j \in 1 .. f.k :
         result[f.k * i + j - 1] = Utf8(call.cs[i])[j]
    /\ f.blend => DOMAIN result = f.k * (f.n - call.len) .. f.k * f.n - 1
=============================================================================
