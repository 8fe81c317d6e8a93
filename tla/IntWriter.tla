------------------------------ MODULE IntWriter ------------------------------
(***************************************************************************)
(* Writing an int as decimal digits: write_u64() and the functions under   *)
(* it (encode_shared.h).  A number is split into pairs of digits by a      *)
(* multiplication and a shift instead of a division, and a pair is copied  *)
(* from a table of the hundred pairs; a leading zero is left out by        *)
(* copying from one digit further and moving the buffer one back, so that  *)
(* the digit too many is written over.                                     *)
(*                                                                         *)
(* A buffer is a function from offsets to digits.  An unsigned number of   *)
(* 64 bits is its quotients and remainders by powers of 10^4, which the    *)
(* code computes by true divisions.                                        *)
(***************************************************************************)
EXTENDS Integers

\* DIGIT_TABLE: 00, 01 ... 99 in a row.
DigitTable == [i \in 0 .. 199 |-> IF i % 2 = 0 THEN i \div 20 ELSE (i \div 2) % 10]

\* byte_copy_2: two digits of the table at p.
Copy2(mem, p, i) == [mem EXCEPT ![p] = DigitTable[i], ![p + 1] = DigitTable[i + 1]]

\* (u64)v * m without its low 26 bits; the product of the halves of 13 bits.
ProductAbove26(v, m) ==
  LET v1 == v \div 8192  v0 == v % 8192
      m1 == m \div 8192  m0 == m % 8192
  IN  v1 * m1 + (v1 * m0 + v0 * m1 + (v0 * m0) \div 8192) \div 8192

\* (v * 5243) >> 19, for v of up to four digits.
By100(v) == (v * 5243) \div 524288

\* ((u64)v * 429497) >> 32, for v of up to six digits.
By10000OfSix(v) == ProductAbove26(v, 429497) \div 64

\* ((u64)v * 109951163) >> 40, for v of up to eight digits.
By10000(v) == ProductAbove26(v, 109951163) \div 16384

-----------------------------------------------------------------------------
(* Each writes at buf.at and leaves buf.at behind the last digit.          *)

\* write_u32_len_8.
WriteLen8(val, buf) ==
  LET aabb == By10000(val)  ccdd == val - aabb * 10000
      aa == By100(aabb)     bb == aabb - aa * 100
      cc == By100(ccdd)     dd == ccdd - cc * 100
      p == buf.at
  IN  [mem |-> Copy2(Copy2(Copy2(Copy2(buf.mem, p, aa * 2), p + 2, bb * 2), p + 4, cc * 2), p + 6, dd * 2),
       at |-> p + 8]

\* write_u32_len_4.
WriteLen4(val, buf) ==
  LET aa == By100(val)  bb == val - aa * 100
  IN  [mem |-> Copy2(Copy2(buf.mem, buf.at, aa * 2), buf.at + 2, bb * 2), at |-> buf.at + 4]

\* Five and six digits: aabbcc.
Write5To6(val, buf) ==
  LET aa == By10000OfSix(val)  bbcc == val - aa * 10000
      bb == By100(bbcc)        cc == bbcc - bb * 100
      lz == IF aa < 10 THEN 1 ELSE 0
      p == buf.at - lz
  IN  [mem |-> Copy2(Copy2(Copy2(buf.mem, buf.at, aa * 2 + lz), p + 2, bb * 2), p + 4, cc * 2),
       at |-> p + 6]

\* Seven and eight digits: aabbccdd.
\* Mutant: the writer is not moved back over the digit too many.
Write7To8Unmoved(val, buf) ==
  LET aabb == By10000(val)  ccdd == val - aabb * 10000
      aa == By100(aabb)     bb == aabb - aa * 100
      cc == By100(ccdd)     dd == ccdd - cc * 100
      p == buf.at
      first == Copy2(buf.mem, p, aa * 2 + (IF aa < 10 THEN 1 ELSE 0))
  IN  [mem |-> Copy2(Copy2(Copy2(first, p + 2, bb * 2), p + 4, cc * 2), p + 6, dd * 2),
       at |-> p + 8]
Write7To8(val, buf) ==
  LET aabb == By10000(val)  ccdd == val - aabb * 10000
      aa == By100(aabb)     bb == aabb - aa * 100
      cc == By100(ccdd)     dd == ccdd - cc * 100
      lz == IF aa < 10 THEN 1 ELSE 0
      p == buf.at - lz
      first == Copy2(buf.mem, buf.at, aa * 2 + lz)
  IN  [mem |-> Copy2(Copy2(Copy2(first, p + 2, bb * 2), p + 4, cc * 2), p + 6, dd * 2),
       at |-> p + 8]

\* write_u32_len_1_8.
WriteLen1To8(val, buf) ==
  LET lz == IF val < 10 THEN 1 ELSE 0
      aa == By100(val)  bb == val - aa * 100
      lz2 == IF aa < 10 THEN 1 ELSE 0
  IN  IF val < 100
        THEN [mem |-> Copy2(buf.mem, buf.at, val * 2 + lz), at |-> buf.at - lz + 2]
      ELSE IF val < 10000
        THEN [mem |-> Copy2(Copy2(buf.mem, buf.at, aa * 2 + lz2), buf.at - lz2 + 2, bb * 2),
              at |-> buf.at - lz2 + 4]
      ELSE IF val < 1000000 THEN Write5To6(val, buf)
      ELSE Write7To8(val, buf)

\* write_u64_len_5_8.
WriteLen5To8(val, buf) == IF val < 1000000 THEN Write5To6(val, buf) ELSE Write7To8(val, buf)

\* write_u64 on (high * 10^4 + mid) * 10^8 + low, by how many digits it has.
WriteU64(high, mid, low, buf) ==
  LET above == high * 10000 + mid IN
  IF high = 0 /\ mid = 0 THEN WriteLen1To8(low, buf)
  ELSE IF high < 10000 THEN WriteLen8(low, WriteLen1To8(above, buf))
  ELSE WriteLen8(low, WriteLen4(mid, WriteLen5To8(high, buf)))
=============================================================================
