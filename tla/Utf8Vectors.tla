---------------------------- MODULE Utf8Vectors ----------------------------
(***************************************************************************)
(* The vector code that makes UTF-8 of a vector of characters of one class *)
(* (simd/*/encode/bytes): a function for every instruction set, width of   *)
(* the characters and class, and for AVX2 a second one that stores the     *)
(* last len characters of the vector only.                                 *)
(*                                                                         *)
(* A vector is a function from 0 to its bytes or words, the first at the   *)
(* lowest address; what a function stores is one from the offsets behind   *)
(* the writer to the bytes.                                                *)
(***************************************************************************)
EXTENDS Integers, Bitwise

Places(n) == 0 .. n - 1

\* The bytes of a vector of n words of size bytes each.
BytesOf(words, n, size) ==
  [b \in Places(n * size) |-> (words[b \div size] \div 256^(b % size)) % 256]

\* rshift_u16, rshift_u32.
ShiftedRight(words, bits) == [i \in DOMAIN words |-> words[i] \div 2^bits]

\* shuffle_128, shuffle_256, shuffle_512: within lanes of 16 bytes.
Shuffled(bytes, table) ==
  [b \in DOMAIN bytes |-> IF table[b] >= 128 THEN 0 ELSE bytes[16 * (b \div 16) + table[b]]]

\* cvt_u32_to_u16.
Narrowed(words) == [i \in DOMAIN words |-> words[i] % 65536]

\* Bytes first .. first + n - 1 of a vector, stored at offset.
Part(bytes, first, n, offset) == [o \in offset .. offset + n - 1 |-> bytes[o - offset + first]]

\* Two stores, to different places.
Both(f, g) == [o \in DOMAIN f \cup DOMAIN g |-> IF o \in DOMAIN f THEN f[o] ELSE g[o]]

Last(stored, n, bytes) == [o \in n - bytes .. n - 1 |-> stored[o]]

-----------------------------------------------------------------------------
(* Two bytes a character: 110xxxxx 10xxxxxx.                               *)

\* gh123000|abcdef00 with the marks of 0x80c0.
Marked2(b, byte) == IF b % 2 = 0 THEN byte | 192 ELSE byte | 128

\* ucs2_encode_2bytes_utf8_sse2: the vector one byte further, and the six bits.
TwoBytesUcs2Sse2(cs, n) ==
  LET x == BytesOf(cs, n, 2)
      x1 == BytesOf(ShiftedRight(cs, 6), n, 2)
  IN  [b \in Places(2 * n) |-> Marked2(b, x1[b] | (IF b % 2 = 0 THEN 0 ELSE x[b - 1] & 63))]

\* ucs4_encode_2bytes_utf8_sse2: the same on words of four bytes, the upper
\* half of each dropped.
TwoBytesUcs4Sse2(cs, n) ==
  LET x == BytesOf(cs, n, 4)
      x1 == BytesOf(ShiftedRight(cs, 6), n, 4)
      At(b) == 4 * (b \div 2) + (b % 2)
  IN  [b \in Places(2 * n) |->
        Marked2(b, x1[At(b)] | (IF b % 2 = 0 THEN 0 ELSE x[At(b) - 1] & 63))]

\* t1: 0x80, 0, 0x80, 2 ...
EvenToOdd(n) == [b \in Places(2 * n) |-> IF b % 2 = 0 THEN 128 ELSE (b - 1) % 16]

\* __ucs2_encode_2bytes_utf8_avx2_impl: shuffled, then both masked by 0x3fff.
TwoBytesUcs2Avx2(cs, n) ==
  LET y1 == BytesOf(ShiftedRight(cs, 6), n, 2)
      y2 == Shuffled(BytesOf(cs, n, 2), EvenToOdd(n))
  IN  [b \in Places(2 * n) |-> Marked2(b, (y1[b] | y2[b]) & (IF b % 2 = 0 THEN 255 ELSE 63))]

\* ucs2_encode_2bytes_utf8_avx512.
TwoBytesUcs2Avx512(cs, n) == TwoBytesUcs2Avx2(cs, n)

\* __ucs4_encode_2bytes_utf8_avx2_impl.
TwoBytesUcs4Avx2(cs, n) == TwoBytesUcs2Avx2(Narrowed(cs), n)

\* ucs4_encode_2bytes_utf8_avx512.
TwoBytesUcs4Avx512(cs, n) == TwoBytesUcs2Avx2(Narrowed(cs), n)

-----------------------------------------------------------------------------
(* Three bytes a character: 1110xxxx 10xxxxxx 10xxxxxx.                    *)

\* Twelve bytes of the 16 of a lane are used, from place 4 or from place 0.
Used(b, from) == b % 16 \in from .. from + 11

\* Which of the three bytes of a character stands at b, and whose it is.
Which(b, from) == ((b % 16) - from) % 3
Whose(b, from) == ((b % 16) - from) \div 3

\* A table that takes the lowest byte of each word to the place of byte j.
LowTo(j, b, from) == IF Used(b, from) /\ Which(b, from) = j THEN 4 * Whose(b, from) ELSE 128

\* m1 and m2: the six bits and the marks.
Marked3(b, byte, from) ==
  IF ~Used(b, from) THEN byte
  ELSE IF Which(b, from) = 0 THEN byte | 224 ELSE (byte & 63) | 128

\* One lane of the SSSE3 code: one table for all, and the vectors moved.
\* Mutant: the middle byte is not moved.
Ssse3LaneUnmoved(cs) ==
  LET t1 == [b \in Places(16) |-> LowTo(2, b, 0)]
      x4 == Shuffled(BytesOf(ShiftedRight(cs, 6), 4, 4), t1)
      x5 == Shuffled(BytesOf(ShiftedRight(cs, 12), 4, 4), t1)
      x3 == Shuffled(BytesOf(cs, 4, 4), t1)
      Moved(x, b, k) == IF b + k > 15 THEN 0 ELSE x[b + k]
  IN  [b \in Places(16) |-> Marked3(b, x3[b] | x4[b] | Moved(x5, b, 2), 0)]

Ssse3Lane(cs) ==
  LET t1 == [b \in Places(16) |-> LowTo(2, b, 0)]
      x3 == Shuffled(BytesOf(cs, 4, 4), t1)
      x4 == Shuffled(BytesOf(ShiftedRight(cs, 6), 4, 4), t1)
      x5 == Shuffled(BytesOf(ShiftedRight(cs, 12), 4, 4), t1)
      Moved(x, b, k) == IF b + k > 15 THEN 0 ELSE x[b + k]
  IN  [b \in Places(16) |-> Marked3(b, x3[b] | Moved(x4, b, 1) | Moved(x5, b, 2), 0)]

Half(cs, first, n) == [i \in Places(n) |-> cs[first + i]]

\* ucs4_encode_3bytes_utf8_ssse3.
ThreeBytesUcs4Ssse3(cs) == Part(Ssse3Lane(cs), 0, 12, 0)

\* ucs2_encode_3bytes_utf8_ssse3: two vectors, the end of the second empty.
ThreeBytesUcs2Ssse3(cs) ==
  LET x13 == Ssse3Lane(Half(cs, 0, 4))
      x14 == Ssse3Lane(Half(cs, 4, 4))
      x16 == [b \in Places(16) |-> IF b > 11 THEN 0 ELSE x14[b + 4]]
  IN  Both(Both(Part(x13, 0, 12, 0), Part(x14, 0, 4, 12)), Part(x16, 0, 16, 16))

\* The lanes of the AVX2 and AVX-512 code: the even ones leave their first
\* four bytes, the odd ones their last.
Begin(b) == IF (b \div 16) % 2 = 0 THEN 4 ELSE 0
Lanes(cs, n) ==
  LET Table(j) == [b \in Places(4 * n) |-> LowTo(j, b, Begin(b))]
      low == Shuffled(BytesOf(cs, n, 4), Table(2))
      middle == Shuffled(BytesOf(ShiftedRight(cs, 6), n, 4), Table(1))
      high == Shuffled(BytesOf(ShiftedRight(cs, 12), n, 4), Table(0))
  IN  [b \in Places(4 * n) |-> Marked3(b, low[b] | middle[b] | high[b], Begin(b))]

\* __ucs4_encode_3bytes_utf8_avx2_impl: two vectors, x3 and x4.
ThreePartsUcs4Avx2(cs) ==
  LET y == Lanes(cs, 8) IN <<Part(y, 4, 16, 0), Part(y, 20, 8, 16)>>

\* ucs4_encode_3bytes_utf8_avx2.
ThreeBytesUcs4Avx2(cs) ==
  LET x == ThreePartsUcs4Avx2(cs) IN Both(x[1], x[2])

\* __ucs2_encode_3bytes_utf8_avx2_impl: four vectors.
ThreePartsUcs2Avx2(cs) ==
  LET y13 == Lanes(Half(cs, 0, 8), 8)
      y14 == Lanes(Half(cs, 8, 8), 8)
  IN  <<Part(y13, 4, 16, 0), Part(y13, 20, 8, 16), Part(y14, 4, 16, 24), Part(y14, 20, 8, 40)>>

\* ucs2_encode_3bytes_utf8_avx2.
ThreeBytesUcs2Avx2(cs) ==
  LET x == ThreePartsUcs2Avx2(cs) IN Both(Both(x[1], x[2]), Both(x[3], x[4]))

\* A masked store of the bytes of z whose places are in mask, at offset.
Masked(z, mask, offset) == [o \in {b + offset : b \in mask} |-> z[o - offset]]

\* ucs4_encode_3bytes_utf8_avx512: the two masks of 24 bytes.
ThreeBytesUcs4Avx512(cs) ==
  LET z == Lanes(cs, 16) IN Both(Masked(z, 4 .. 27, -4), Masked(z, 36 .. 59, -12))

\* ucs2_encode_3bytes_utf8_avx512: two vectors, two masks of six words each.
ThreeBytesUcs2Avx512(cs) ==
  LET z13 == Lanes(Half(cs, 0, 16), 16)
      z14 == Lanes(Half(cs, 16, 16), 16)
  IN  Both(Both(Masked(z13, 4 .. 27, -4), Masked(z14, 4 .. 27, 44)),
           Both(Masked(z13, 36 .. 59, -12), Masked(z14, 36 .. 59, 36)))

-----------------------------------------------------------------------------
(* The last len characters of an AVX2 vector.                              *)

\* ucs2_encode_2bytes_utf8_avx2_blendhigh.
TwoBytesUcs2BlendHigh(cs, n, len) == Last(TwoBytesUcs2Avx2(cs, n), 2 * n, 2 * len)

\* ucs4_encode_2bytes_utf8_avx2_blendhigh.
TwoBytesUcs4BlendHigh(cs, n, len) == Last(TwoBytesUcs4Avx2(cs, n), 2 * n, 2 * len)

\* ucs4_encode_3bytes_utf8_avx2_blendhigh: the end of the second vector, or
\* all of it and the end of the first.
ThreeBytesUcs4BlendHigh(cs, len) ==
  LET x == ThreePartsUcs4Avx2(cs) IN
  CASE len <= 2 /\ len % 2 = 1 -> Last(x[2], 24, 3)
    [] len <= 2 /\ len % 2 = 0 -> Last(x[2], 24, 6)
    [] len > 2 -> Both(x[2], Last(x[1], 16, 3 * len - 8))

\* ucs2_encode_3bytes_utf8_avx2_blendhigh: the vectors and parts of one that
\* (len * 3 - 1) / 8 says.
ThreeBytesUcs2BlendHigh(cs, len) ==
  LET x == ThreePartsUcs2Avx2(cs)
      parts == (len * 3 - 1) \div 8
      odd == IF len % 2 = 1 THEN 3 ELSE 6
  IN  CASE parts = 0 -> Last(x[4], 48, odd)
        [] parts \in {1, 2} -> Both(x[4], Last(x[3], 40, len * 3 - 8))
        [] parts = 3 -> Both(Both(x[4], x[3]), Last(x[2], 24, odd))
        [] parts \in {4, 5} -> Both(Both(x[4], x[3]), Both(x[2], Last(x[1], 16, len * 3 - 32)))
=============================================================================
