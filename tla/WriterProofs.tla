----------------------------- MODULE WriterProofs -----------------------------
(***************************************************************************)
(* The writers that turn values into bytes: write_u64 for every number     *)
(* that reaches it, and the loops of the UTF-8 writer for every text.      *)
(***************************************************************************)
EXTENDS IntDecimal, Utf8Writer, WellFoundedInduction, TLAPS

(***************************************************************************)
(* The multiplications of write_u64 are divisions, for every number that   *)
(* reaches them: no run can try all of these.                              *)
(*                                                                         *)
(* A quotient is known by its bounds, and the bounds are linear once the   *)
(* halves of the number are named: the rest is arithmetic.                 *)
(***************************************************************************)

LEMMA By8192 == ASSUME NEW x \in Nat
                PROVE  /\ x \div 8192 \in Nat /\ x % 8192 \in 0 .. 8191
                       /\ x = 8192 * (x \div 8192) + (x % 8192)
  BY SMT

LEMMA By64 == ASSUME NEW x \in Nat
              PROVE  x \div 64 \in Nat /\ 64 * (x \div 64) <= x /\ x < 64 * (x \div 64) + 64
  BY SMT

LEMMA By16384 == ASSUME NEW x \in Nat
                 PROVE  x \div 16384 \in Nat /\ 16384 * (x \div 16384) <= x /\ x < 16384 * (x \div 16384) + 16384
  BY SMT

\* A number between two multiples of 10000 has the first as its quotient.
LEMMA QuotientIs == ASSUME NEW v \in Nat, NEW q \in Nat, 10000 * q <= v, v < 10000 * q + 10000
                    PROVE  v \div 10000 = q
  BY SMT

-----------------------------------------------------------------------------
\* (v * 5243) >> 19 is v / 100 for every number of up to four digits.
THEOREM By100Exact == \A v \in 0 .. 9999 : By100(v) = v \div 100
  BY SMTT(60) DEF By100

\* (v * 429497) >> 32 is v / 10000 for every number of up to six digits.
THEOREM By10000OfSixExact ==
  ASSUME NEW v \in Nat, v <= 999999
  PROVE  By10000OfSix(v) = v \div 10000
<1> DEFINE v1 == v \div 8192
           v0 == v % 8192
           a == (v0 * 3513) \div 8192
           b == (v1 * 3513 + v0 * 52 + a) \div 8192
           r == (v1 * 52 + b) \div 64
<1>1. v1 \in Nat /\ v0 \in 0 .. 8191 /\ v = 8192 * v1 + v0  BY By8192, SMT
<1> HIDE DEF v1, v0
<1>2. a \in Nat /\ 8192 * a <= v0 * 3513 /\ v0 * 3513 < 8192 * a + 8192
  <2>1. v0 * 3513 \in Nat  BY <1>1, SMT
  <2> QED  BY <2>1, By8192, SMT
<1> HIDE DEF a
<1>3. b \in Nat /\ 8192 * b <= v1 * 3513 + v0 * 52 + a /\ v1 * 3513 + v0 * 52 + a < 8192 * b + 8192
  <2>1. v1 * 3513 + v0 * 52 + a \in Nat  BY <1>1, <1>2, SMT
  <2> QED  BY <2>1, By8192, SMT
<1> HIDE DEF b
<1>4. r \in Nat /\ 64 * r <= v1 * 52 + b /\ v1 * 52 + b < 64 * r + 64
  <2>1. v1 * 52 + b \in Nat  BY <1>1, <1>3, SMT
  <2> QED  BY <2>1, By64, SMT
<1> HIDE DEF r
<1>5. 10000 * r <= v /\ v < 10000 * r + 10000
  BY <1>1, <1>2, <1>3, <1>4, SMTT(60)
<1>6. v \div 10000 = r  BY <1>4, <1>5, QuotientIs, SMT
<1>7. 429497 \div 8192 = 52 /\ 429497 % 8192 = 3513  BY SMT
<1>8. By10000OfSix(v) = r
  <2>1. ProductAbove26(v, 429497) = v1 * 52 + b  BY <1>7, SMT DEF ProductAbove26, v1, v0, a, b
  <2> QED  BY <2>1, SMT DEF By10000OfSix, r
<1> QED  BY <1>6, <1>8, SMT

\* (v * 109951163) >> 40 is v / 10000 for every number of up to eight digits.
THEOREM By10000Exact ==
  ASSUME NEW v \in Nat, v <= 99999999
  PROVE  By10000(v) = v \div 10000
<1> DEFINE v1 == v \div 8192
           v0 == v % 8192
           a == (v0 * 6331) \div 8192
           b == (v1 * 6331 + v0 * 13421 + a) \div 8192
           r == (v1 * 13421 + b) \div 16384
<1>1. v1 \in Nat /\ v0 \in 0 .. 8191 /\ v = 8192 * v1 + v0  BY By8192, SMT
<1> HIDE DEF v1, v0
<1>2. a \in Nat /\ 8192 * a <= v0 * 6331 /\ v0 * 6331 < 8192 * a + 8192
  <2>1. v0 * 6331 \in Nat  BY <1>1, SMT
  <2> QED  BY <2>1, By8192, SMT
<1> HIDE DEF a
<1>3. b \in Nat /\ 8192 * b <= v1 * 6331 + v0 * 13421 + a /\ v1 * 6331 + v0 * 13421 + a < 8192 * b + 8192
  <2>1. v1 * 6331 + v0 * 13421 + a \in Nat  BY <1>1, <1>2, SMT
  <2> QED  BY <2>1, By8192, SMT
<1> HIDE DEF b
<1>4. r \in Nat /\ 16384 * r <= v1 * 13421 + b /\ v1 * 13421 + b < 16384 * r + 16384
  <2>1. v1 * 13421 + b \in Nat  BY <1>1, <1>3, SMT
  <2> QED  BY <2>1, By16384, SMT
<1> HIDE DEF r
<1>5. 10000 * r <= v /\ v < 10000 * r + 10000
  BY <1>1, <1>2, <1>3, <1>4, SMTT(60)
<1>6. v \div 10000 = r  BY <1>4, <1>5, QuotientIs, SMT
<1>7. 109951163 \div 8192 = 13421 /\ 109951163 % 8192 = 6331  BY SMT
<1>8. By10000(v) = r
  <2>1. ProductAbove26(v, 109951163) = v1 * 13421 + b  BY <1>7, SMT DEF ProductAbove26, v1, v0, a, b
  <2> QED  BY <2>1, SMT DEF By10000, r
<1> QED  BY <1>6, <1>8, SMT

-----------------------------------------------------------------------------
(***************************************************************************)
(* Writing text as UTF-8, for every text, every size of a vector and each  *)
(* of the instruction sets.                                                *)
(*                                                                         *)
(* The invariant says of every state but the last that the call could go   *)
(* on from there one character at a time (Ready): behind the quote stand   *)
(* the bytes of the characters before src and nothing else, and the writer *)
(* has not used more than six bytes for each of them, so that what is left *)
(* of the reserve is enough for the rest.  A vector keeps this, since its  *)
(* stores begin at the writer and the writer passes only what the          *)
(* comparisons found to be of the class (StoredReady); encode_one keeps it *)
(* (EncodedReady); and the mask of a block of AVX-512 that goes on still   *)
(* holds every character that is not of its class (Masked).                *)
(***************************************************************************)
Chars == Len(text)

Labels == {"choose", "loop", "encode_one", "trailing", "restart", "again", "close",
           "returned", "failed"}

\* How far a store may go.
Over == Overrun(isa, width)
Limit == Reserve + Over

InputOK == width \in {1, 2, 4} /\ text \in Texts(isa, width) /\ IsOfWidth(text, width) /\ isa \in Isas

Ready(s, o, w, r) ==
  /\ s \in 1 .. Chars + 1
  /\ DOMAIN o = 0 .. 6 * Chars + 4 * Batch + 8
  /\ w \in Nat /\ w >= 1 /\ w <= 1 + 6 * (s - 1)
  /\ r \in Nat /\ r <= Limit
  /\ Spells(o, s - 1, w)
  /\ \A i \in 1 .. s - 1 : ~IsSurrogate(text[i])

\* The mask of a block that goes on holds every character that is not of its
\* class.
Masked(l, k, s, ms) ==
  l = "again" =>
    /\ k \in 1 .. 3 /\ (width = 1 => k = 1)
    /\ \A b \in ms : b <= Chars - s
    /\ \A b \in 0 .. Chars - s : b \notin ms => InClass(k, text[s + b])

\* How far src is at a label.
Placed(l, s) ==
  /\ l \in {"encode_one", "trailing", "restart", "again"} => s <= Chars
  /\ l \in {"trailing", "restart", "again"} => Chars - s + 1 < Batch
  /\ l = "close" => s = Chars + 1

Returned(s, o, w, r) ==
  /\ s = Chars + 1 /\ r <= Limit
  /\ \E end \in {w - 2, w - 3} : Spells(o, Chars, end) /\ o[end] = Quote
  /\ \A i \in 1 .. Chars : ~IsSurrogate(text[i])

State(l, k, s, ms, o, w, r) ==
  /\ l \in Labels /\ k \in 0 .. 3 /\ ms \in SUBSET Nat
  /\ Placed(l, s) /\ Masked(l, k, s, ms)
  /\ l # "returned" => Ready(s, o, w, r)
  /\ l = "returned" => Returned(s, o, w, r)
  /\ l = "failed" => \E i \in s .. Chars : IsSurrogate(text[i])

IInv == InputOK /\ State(label, class, src, mask, out, writer, reach)

\* A set of numbers has a least one.
LEMMA Least == ASSUME NEW S \in SUBSET Nat, S # {} PROVE \E n \in S : \A m \in S : n <= m
<1>1. IsWellFoundedOn(OpToRel(<, Nat), Nat)  BY NatLessThanWellFounded
<1>2. PICK x \in S : \A y \in S : ~ (<<y, x>> \in OpToRel(<, Nat))  BY <1>1, WFMin
<1>3. \A y \in S : ~ (y < x)  BY <1>2 DEF OpToRel
<1> QED BY <1>3

-----------------------------------------------------------------------------
(* The classes.                                                            *)

LEMMA TextIs ==
  ASSUME InputOK
  PROVE  /\ text \in Seq(Nat) /\ Chars \in Nat /\ DOMAIN text = 1 .. Chars
         /\ \A i \in 1 .. Chars : text[i] \in Nat
<1>1. text \in Seq(Nat)  BY SizesAssumption DEF InputOK
<1>. QED  BY <1>1 DEF Chars

LEMMA BatchIs == ASSUME InputOK PROVE Batch \in Nat /\ Batch > 1
  BY SizesAssumption DEF InputOK, Batch

\* Character i is one of k bytes that no escape stands for.
Good(k, i) == Type(text[i]) = k /\ ~IsEscaped(text[i]) /\ ~IsSurrogate(text[i])

\* What the comparisons of a vector find is of the class, at every width.
LEMMA AsciiIs ==
  ASSUME NEW c \in Nat, c < 1114112
  PROVE  /\ c < 256 /\ AsciiInUcs1(c) => c >= 32 /\ c < 128 /\ c # 34 /\ c # 92
         /\ c < 65536 /\ AsciiInUcs2(c) => c >= 32 /\ c < 128 /\ c # 34 /\ c # 92
         /\ AsciiInUcs4(c) => c >= 32 /\ c < 128 /\ c # 34 /\ c # 92
<1>1. c < 256 /\ AsciiInUcs1(c) => c >= 32 /\ c < 128 /\ c # 34 /\ c # 92  BY SMT DEF AsciiInUcs1, Signed
<1>2. c < 65536 /\ AsciiInUcs2(c) => c >= 32 /\ c < 128 /\ c # 34 /\ c # 92  BY SMT DEF AsciiInUcs2, Signed
<1>3. AsciiInUcs4(c) => c >= 32 /\ c < 128 /\ c # 34 /\ c # 92  BY SMT DEF AsciiInUcs4
<1>. QED  BY <1>1, <1>2, <1>3

LEMMA TwoBytesIs ==
  ASSUME NEW c \in Nat, c < 1114112
  PROVE  /\ c < 65536 /\ TwoBytesInUcs2(c) => c >= 128 /\ c < 2048
         /\ TwoBytesInUcs4(c) => c >= 128 /\ c < 2048
<1>1. c < 65536 /\ TwoBytesInUcs2(c) => c >= 128 /\ c < 2048  BY SMT DEF TwoBytesInUcs2, Signed
<1>2. TwoBytesInUcs4(c) => c >= 128 /\ c < 2048  BY SMT DEF TwoBytesInUcs4
<1>. QED  BY <1>1, <1>2

LEMMA ThreeBytesIs ==
  ASSUME NEW c \in Nat, c < 1114112
  PROVE  /\ c < 65536 /\ ThreeBytesInUcs2(c) => c >= 2048 /\ c < 65536 /\ ~IsSurrogate(c)
         /\ ThreeBytesInUcs4(c) => c >= 2048 /\ c < 65536 /\ ~IsSurrogate(c)
<1>1. c < 65536 /\ ThreeBytesInUcs2(c) => c >= 2048 /\ c < 65536 /\ ~IsSurrogate(c)
  BY SMT DEF ThreeBytesInUcs2, Signed, IsSurrogate
<1>2. ThreeBytesInUcs4(c) => c >= 2048 /\ c < 65536 /\ ~IsSurrogate(c)
  BY SMT DEF ThreeBytesInUcs4, IsSurrogate
<1>. QED  BY <1>1, <1>2

LEMMA TypeIs ==
  ASSUME NEW c \in Nat
  PROVE  /\ Type(c) \in 1 .. 4
         /\ c >= 32 /\ c < 128 /\ c # 34 /\ c # 92 => Type(c) = 1 /\ ~IsEscaped(c) /\ ~IsSurrogate(c)
         /\ c >= 128 /\ c < 2048 => Type(c) = 2 /\ ~IsEscaped(c) /\ ~IsSurrogate(c)
         /\ c >= 2048 /\ c < 65536 => Type(c) = 3 /\ ~IsEscaped(c)
  BY SMT DEF Type, IsEscaped, IsSurrogate

LEMMA ClassIs ==
  ASSUME InputOK, NEW k, NEW i \in 1 .. Chars, InClass(k, text[i])
  PROVE  Good(k, i)
<1> DEFINE c == text[i]
<1>1. c \in Nat /\ i \in DOMAIN text  BY TextIs
<1>2. /\ width = 1 => c < 256
      /\ width = 2 => c < 65536
      /\ width = 4 => c < 1114112
      /\ width \in {1, 2, 4}
  BY <1>1, SMT DEF InputOK, IsOfWidth
<1>3. c < 1114112  BY <1>1, <1>2, SMT
<1>4. CASE k = 1 /\ width = 1 /\ AsciiInUcs1(c)  BY <1>1, <1>2, <1>3, <1>4, AsciiIs, TypeIs DEF Good
<1>5. CASE k = 1 /\ width = 2 /\ AsciiInUcs2(c)  BY <1>1, <1>2, <1>3, <1>5, AsciiIs, TypeIs DEF Good
<1>6. CASE k = 1 /\ width = 4 /\ AsciiInUcs4(c)  BY <1>1, <1>2, <1>3, <1>6, AsciiIs, TypeIs DEF Good
<1>7. CASE k = 2 /\ width = 2 /\ TwoBytesInUcs2(c)  BY <1>1, <1>2, <1>3, <1>7, TwoBytesIs, TypeIs DEF Good
<1>8. CASE k = 2 /\ width = 4 /\ TwoBytesInUcs4(c)  BY <1>1, <1>2, <1>3, <1>8, TwoBytesIs, TypeIs DEF Good
<1>9. CASE k = 3 /\ width = 2 /\ ThreeBytesInUcs2(c)  BY <1>1, <1>2, <1>3, <1>9, ThreeBytesIs, TypeIs DEF Good
<1>10. CASE k = 3 /\ width = 4 /\ ThreeBytesInUcs4(c)  BY <1>1, <1>2, <1>3, <1>10, ThreeBytesIs, TypeIs DEF Good
<1>. QED  BY <1>4, <1>5, <1>6, <1>7, <1>8, <1>9, <1>10 DEF InClass

-----------------------------------------------------------------------------
(* How far a vector counts.                                                *)

\* The characters of class k among the next n: d of them, and then another or none.
IsFront(k, n, d) ==
  d \in 0 .. n /\ \A i \in 0 .. d - 1 : InClass(k, text[src + i])

LEMMA LeadingIs ==
  ASSUME NEW k, NEW n \in Nat
  PROVE  IsFront(k, n, Leading(k, n))
<1> DEFINE P(d) == /\ \A i \in 0 .. d - 1 : InClass(k, text[src + i])
                   /\ d = n \/ ~InClass(k, text[src + d])
           S == {i \in 0 .. n - 1 : ~InClass(k, text[src + i])}
<1>1. CASE S = {}
  <2>1. P(n) /\ n \in 0 .. n  BY <1>1
  <2>. QED  BY <2>1 DEF Leading, IsFront
<1>2. CASE S # {}
  <2> S \in SUBSET Nat  OBVIOUS
  <2> HIDE DEF S
  <2>1. PICK d \in S : \A m \in S : d <= m  BY <1>2, Least
  <2> USE DEF S
  <2>2. d \in 0 .. n - 1 /\ ~InClass(k, text[src + d])  BY <2>1
  <2>3. \A i \in 0 .. d - 1 : i \in 0 .. n - 1 /\ ~ (d <= i)  BY <2>2
  <2>4. \A i \in 0 .. d - 1 : InClass(k, text[src + i])  BY <2>1, <2>3
  <2>5. P(d) /\ d \in 0 .. n  BY <2>2, <2>4
  <2>. QED  BY <2>5 DEF Leading, IsFront
<1>. QED  BY <1>1, <1>2

LEMMA LowestIs ==
  ASSUME NEW m \in SUBSET Nat, m # {}
  PROVE  Lowest(m) \in m /\ \A other \in m : Lowest(m) <= other
  BY Least DEF Lowest

LEMMA Grows == ASSUME NEW a \in Nat, NEW b \in Nat, NEW c \in Nat, a <= b PROVE a * c <= b * c
<1>1. PICK x \in Nat : b = a + x
  <2>1. b - a \in Nat /\ b = a + (b - a)  OBVIOUS
  <2>. QED  BY <2>1
<1>2. x * c \in Nat /\ a * c \in Nat /\ b * c = a * c + x * c  BY <1>1
<1>. QED  BY <1>2

\* A number below u * b is one of u rows of b.
LEMMA RowIs ==
  ASSUME NEW u \in Nat, NEW b \in Nat, b > 0, NEW i \in Nat, i < u * b
  PROVE  \E v \in 0 .. u - 1, r \in 0 .. b - 1 : i = v * b + r
<1> DEFINE S == {v \in Nat : i < (v + 1) * b}
<1>1. u # 0  BY SMT
<1>2. u - 1 \in S
  <2>1. u - 1 \in Nat /\ (u - 1) + 1 = u  BY <1>1
  <2>. QED  BY <2>1
<1>3. S \in SUBSET Nat /\ S # {}  BY <1>2
<1>4. PICK v \in S : \A w \in S : v <= w  BY <1>3, Least
<1>5. v \in Nat /\ i < v * b + b /\ v * b \in Nat
  <2>1. v \in Nat /\ i < (v + 1) * b  BY <1>4
  <2>2. (v + 1) * b = v * b + b  BY <2>1
  <2>. QED  BY <2>1, <2>2
<1>6. v * b <= i
  <2>1. CASE v = 0  BY <2>1
  <2>2. CASE v # 0
    <3>1. v - 1 \in Nat /\ (v - 1) + 1 = v  BY <1>5, <2>2
    <3>2. v - 1 \notin S  BY <1>4, <1>5, <3>1
    <3>3. ~ (i < v * b)  BY <3>1, <3>2
    <3>. QED  BY <3>3, <1>5
  <2>. QED  BY <2>1, <2>2
<1>7. v <= u - 1  BY <1>2, <1>4
<1>8. v \in 0 .. u - 1 /\ i - v * b \in 0 .. b - 1 /\ i = v * b + (i - v * b)  BY <1>1, <1>5, <1>6, <1>7
<1>. QED  BY <1>8

LEMMA LeadingOfVectorsIs ==
  ASSUME NEW k, src \in Nat, InputOK
  PROVE  IsFront(k, Unroll * Batch, LeadingOfVectors(k))
<1> DEFINE In(j) == InClass(k, text[src + j])
           Whole(v) == \A i \in 0 .. Batch - 1 : InClass(k, text[src + v * Batch + i])
           n == Unroll * Batch
<1>1. Batch \in Nat /\ Batch > 0 /\ Unroll \in Nat /\ n \in Nat  BY BatchIs, SizesAssumption
<1>2. \A v \in Nat, i \in Nat : src + v * Batch + i = src + (v * Batch + i)  BY <1>1
<1>3. CASE \A u \in 0 .. Unroll - 1 : Whole(u)
  <2>1. LeadingOfVectors(k) = n  BY <1>3 DEF LeadingOfVectors
  <2>2. ASSUME NEW j \in 0 .. n - 1 PROVE In(j)
    <3>1. j \in Nat /\ j < Unroll * Batch  BY <1>1
    <3>2. PICK v \in 0 .. Unroll - 1, r \in 0 .. Batch - 1 : j = v * Batch + r  BY <1>1, <3>1, RowIs
    <3>3. v \in Nat /\ r \in Nat  BY <3>2
    <3>4. InClass(k, text[src + v * Batch + r])  BY <1>3, <3>2
    <3>. QED  BY <1>2, <3>2, <3>3, <3>4
  <2>. QED  BY <1>1, <2>1, <2>2 DEF IsFront
<1>4. CASE ~ \A u \in 0 .. Unroll - 1 : Whole(u)
  <2> DEFINE V == {v \in 0 .. Unroll - 1 : ~Whole(v)}
             OfV(v) == v \in 0 .. Unroll - 1 /\ ~Whole(v) /\ \A u \in 0 .. v - 1 : Whole(u)
             v0 == CHOOSE v \in 0 .. Unroll - 1 : ~Whole(v) /\ \A u \in 0 .. v - 1 : Whole(u)
             R == {i \in 0 .. Batch - 1 : ~InClass(k, text[src + v0 * Batch + i])}
             OfR(i) == /\ i \in 0 .. Batch - 1
                       /\ ~InClass(k, text[src + v0 * Batch + i])
                       /\ \A j \in 0 .. i - 1 : InClass(k, text[src + v0 * Batch + j])
             i0 == CHOOSE i \in 0 .. Batch - 1 :
                     /\ ~InClass(k, text[src + v0 * Batch + i])
                     /\ \A j \in 0 .. i - 1 : InClass(k, text[src + v0 * Batch + j])
  <2>1. LeadingOfVectors(k) = v0 * Batch + i0  BY <1>4 DEF LeadingOfVectors
  <2>2. OfV(v0)
    <3>1. \E v \in 0 .. Unroll - 1 : OfV(v)
      <4> HIDE DEF Whole
      <4>1. V \in SUBSET Nat /\ V # {}  BY <1>4
      <4>2. PICK v \in V : \A u \in V : v <= u  BY <4>1, Least
      <4>3. v \in 0 .. Unroll - 1 /\ ~Whole(v)  BY <4>2
      <4>4. \A u \in 0 .. v - 1 : u \in 0 .. Unroll - 1 /\ ~ (v <= u)  BY <1>1, <4>3
      <4>5. \A u \in 0 .. v - 1 : Whole(u)  BY <4>2, <4>4
      <4>. QED  BY <4>3, <4>5
    <3> HIDE DEF Whole
    <3>. QED  BY <3>1
  <2> HIDE DEF v0
  <2>3. v0 \in 0 .. Unroll - 1 /\ v0 \in Nat  BY <2>2
  <2>4. OfR(i0)
    <3>1. \E i \in 0 .. Batch - 1 : OfR(i)
      <4>1. R \in SUBSET Nat /\ R # {}  BY <2>2
      <4> HIDE DEF R
      <4>2. PICK i \in R : \A u \in R : i <= u  BY <4>1, Least
      <4> USE DEF R
      <4>3. i \in 0 .. Batch - 1 /\ ~InClass(k, text[src + v0 * Batch + i])  BY <4>2
      <4>4. \A u \in 0 .. i - 1 : u \in 0 .. Batch - 1 /\ ~ (i <= u)  BY <1>1, <4>3
      <4>5. \A u \in 0 .. i - 1 : InClass(k, text[src + v0 * Batch + u])  BY <4>2, <4>4
      <4>. QED  BY <4>3, <4>5
    <3>. QED  BY <3>1
  <2> HIDE DEF i0
  <2>5. i0 \in 0 .. Batch - 1 /\ i0 \in Nat  BY <2>4
  <2> DEFINE d == v0 * Batch + i0
  <2>6. d \in 0 .. n
    <3>1. (v0 + 1) * Batch <= Unroll * Batch
      <4>1. v0 + 1 \in Nat /\ v0 + 1 <= Unroll  BY <1>1, <2>3
      <4>. QED  BY <1>1, <4>1, Grows
    <3>2. (v0 + 1) * Batch = v0 * Batch + Batch /\ v0 * Batch \in Nat  BY <1>1, <2>3
    <3>. QED  BY <1>1, <2>5, <3>1, <3>2
  <2>7. ASSUME NEW j \in 0 .. d - 1 PROVE In(j)
    <3>1. j \in Nat /\ j < Unroll * Batch  BY <1>1, <2>6
    <3>2. PICK v \in 0 .. Unroll - 1, r \in 0 .. Batch - 1 : j = v * Batch + r  BY <1>1, <3>1, RowIs
    <3>3. v \in Nat /\ r \in Nat  BY <3>2
    <3>4. CASE v < v0
      <4>1. v \in 0 .. v0 - 1  BY <2>3, <3>3, <3>4
      <4>2. InClass(k, text[src + v * Batch + r])  BY <2>2, <3>2, <4>1
      <4>. QED  BY <1>2, <3>2, <3>3, <4>2
    <3>5. CASE v = v0
      <4>1. v * Batch \in Nat  BY <1>1, <3>3
      <4>2. r < i0
        <5>1. v * Batch + r < v * Batch + i0  BY <1>1, <2>6, <3>2, <3>5
        <5>. QED  BY <2>5, <3>3, <4>1, <5>1
      <4>3. r \in 0 .. i0 - 1  BY <2>5, <3>3, <4>2
      <4>4. InClass(k, text[src + v * Batch + r])  BY <2>4, <3>5, <4>3
      <4>. QED  BY <1>2, <3>2, <3>3, <4>4
    <3>6. CASE v > v0
      <4>1. (v0 + 1) * Batch <= v * Batch
        <5>1. v0 + 1 \in Nat /\ v0 + 1 <= v  BY <2>3, <3>3, <3>6
        <5>. QED  BY <1>1, <3>3, <5>1, Grows
      <4>2. (v0 + 1) * Batch = v0 * Batch + Batch /\ v0 * Batch \in Nat /\ v * Batch \in Nat  BY <1>1, <2>3, <3>3
      <4>3. j < v0 * Batch + i0  BY <1>1, <2>6
      <4>. QED  BY <1>1, <2>5, <3>2, <3>3, <4>1, <4>2, <4>3
    <3>. QED  BY <2>3, <3>3, <3>4, <3>5, <3>6
  <2>. QED  BY <2>1, <2>6, <2>7 DEF IsFront
<1>. QED  BY <1>3, <1>4

-----------------------------------------------------------------------------
(* Stores.                                                                 *)

LEMMA DivIs ==
  ASSUME NEW k \in 1 .. 3, NEW q \in Nat
  PROVE  /\ q \div k \in Nat /\ q % k \in 0 .. k - 1
         /\ q # 0 /\ 1 + ((q - 1) % k) < k => q \div k = (q - 1) \div k /\ q % k = ((q - 1) % k) + 1
         /\ q # 0 /\ ~ (1 + ((q - 1) % k) < k) => q \div k = ((q - 1) \div k) + 1 /\ q % k = 0
         /\ \A d \in Nat : q < k * d => q \div k < d
<1>1. CASE k = 1  BY <1>1, SMT
<1>2. CASE k = 2  BY <1>2, SMT
<1>3. CASE k = 3  BY <1>3, SMT
<1>. QED  BY <1>1, <1>2, <1>3

LEMMA LastDivIs ==
  ASSUME NEW k \in 1 .. 3, NEW d \in Nat, d # 0
  PROVE  (k * d - 1) \div k = d - 1 /\ (k * d - 1) % k = k - 1
<1>1. CASE k = 1  BY <1>1, SMT
<1>2. CASE k = 2  BY <1>2, SMT
<1>3. CASE k = 3  BY <1>3, SMT
<1>. QED  BY <1>1, <1>2, <1>3

LEMMA SizeIs ==
  ASSUME InputOK, NEW i \in 1 .. Chars
  PROVE  /\ Size(i) \in 1 .. 6 /\ Spread(i) \in 1 .. 8 /\ Size(i) <= Spread(i)
         /\ \A k : Good(k, i) => Size(i) = k
<1>1. text[i] \in Nat  BY TextIs
<1>2. Type(text[i]) \in 1 .. 4  BY <1>1, TypeIs
<1>3. ControlJump(text[i]) \in 1 .. 6  BY DEF ControlJump
<1>. QED  BY <1>2, <1>3 DEF Size, Spread, Good

\* A buffer that keeps what is before the writer spells what it did.
LEMMA StillSpells ==
  ASSUME NEW m, NEW m2, NEW n, NEW end \in Nat, end >= 1, Spells(m, n, end),
         \A b \in 0 .. end - 1 : m2[b] = m[b]
  PROVE  Spells(m2, n, end)
<1>1. 0 \in 0 .. end - 1 /\ end - 1 \in 0 .. end - 1  OBVIOUS
<1>2. \A b \in 1 .. end - 1 : b \in 0 .. end - 1 /\ b - 1 \in 0 .. end - 1  OBVIOUS
<1>. QED  BY <1>1, <1>2 DEF Spells

\* Bytes behind those of the first i characters that are the bytes of the next
\* one spell it too.
LEMMA SpellsMore ==
  ASSUME NEW m, NEW n \in Nat, NEW end \in Nat, end >= 1, Spells(m, n, end),
         NEW e \in Nat, e >= end,
         \A b \in end .. e - 1 : m[b] = After(m[b - 1]),
         NEW n2, m[e - 1] = <<n2, BytesOf(n2)>>
  PROVE  Spells(m, n2, e)
<1>1. ASSUME NEW b \in 1 .. e - 1 PROVE m[b] = After(m[b - 1])
  <2>1. b \in 1 .. end - 1 \/ b \in end .. e - 1  OBVIOUS
  <2>. QED  BY <2>1 DEF Spells
<1>. QED  BY <1>1 DEF Spells

\* k * done bytes of a vector at the writer are those of done characters of
\* k bytes.
LEMMA StoredSpells ==
  ASSUME InputOK, NEW k \in 1 .. 3, NEW n \in Nat, NEW done \in Nat, k * done <= n,
         src \in Nat, src >= 1, src + done - 1 <= Chars,
         writer \in Nat, writer >= 1, Spells(out, src - 1, writer),
         NEW top \in Nat, DOMAIN out = 0 .. top, writer + k * done <= top,
         \A i \in 0 .. done - 1 : Good(k, src + i)
  PROVE  Spells(Stored(k, n), src + done - 1, writer + k * done)
<1> DEFINE m == Stored(k, n)
           At(q) == <<src + (q \div k), 1 + (q % k)>>
<1>1. k \in Nat /\ k * done \in Nat /\ Chars \in Nat  BY TextIs
<1>2. \A b \in 0 .. writer - 1 : m[b] = out[b]
  <2>1. TAKE b \in 0 .. writer - 1
  <2>2. b \in DOMAIN out /\ ~ (b >= writer)  BY <1>1
  <2>. QED  BY <2>2 DEF Stored
<1>3. ASSUME NEW q \in 0 .. k * done - 1
      PROVE  m[writer + q] = At(q) /\ BytesOf(src + (q \div k)) = k
  <2>1. q \in Nat /\ q < k * done  BY <1>1
  <2>2. q \div k \in Nat /\ q \div k < done  BY <2>1, DivIs
  <2>3. writer + q \in DOMAIN out /\ writer + q >= writer /\ writer + q < writer + n /\ (writer + q) - writer = q
    BY <1>1, <2>1
  <2>4. m[writer + q] = Converted(k, q)  BY <2>3 DEF Stored
  <2>5. Good(k, src + (q \div k)) /\ src + (q \div k) <= Len(text)
    <3> DEFINE d == q \div k
    <3>1. d \in 0 .. done - 1  BY <2>2
    <3> HIDE DEF d
    <3>2. Good(k, src + d)  BY <3>1, Zenon
    <3>3. src + d <= Chars  BY <1>1, <3>1
    <3>4. Chars = Len(text)  BY DEF Chars
    <3>. QED  BY <3>2, <3>3, <3>4 DEF d
  <2>6. src + (q \div k) \in 1 .. Chars /\ src + (q \div k) # 0  BY <1>1, <2>2
  <2>7. BytesOf(src + (q \div k)) = k  BY <2>5, <2>6, SizeIs DEF BytesOf
  <2>. QED  BY <2>4, <2>5, <2>7 DEF Converted, Good
<1>4. Spells(m, src - 1, writer)  BY <1>2, StillSpells
<1>5. CASE done = 0  BY <1>4, <1>5
<1>6. CASE done # 0
  <2>1. k * done >= 1  BY <1>1, <1>6
  <2>2. ASSUME NEW b \in writer .. (writer + k * done) - 1 PROVE m[b] = After(m[b - 1])
    <3> DEFINE q == b - writer
    <3>1. q \in 0 .. k * done - 1 /\ b = writer + q /\ q \in Nat  BY <1>1
    <3> HIDE DEF q
    <3>2. m[b] = At(q)  BY <1>3, <3>1
    <3>3. CASE q = 0
      <4>1. At(0) = <<src, 1>>
        <5>1. 0 \div k = 0 /\ 0 % k = 0  BY DivIs, SMT
        <5>. QED  BY <5>1
      <4>2. m[writer - 1] = <<src - 1, BytesOf(src - 1)>>  BY <1>4 DEF Spells
      <4>3. BytesOf(src - 1) \in Nat
        <5>1. CASE src = 1  BY <5>1 DEF BytesOf
        <5>2. CASE src # 1
          <6>1. src - 1 \in 1 .. Chars /\ src - 1 # 0  BY <1>1, <1>6, <5>2
          <6>. QED  BY <6>1, SizeIs DEF BytesOf
        <5>. QED  BY <5>1, <5>2
      <4>4. After(<<src - 1, BytesOf(src - 1)>>) = <<src, 1>>  BY <4>3 DEF After
      <4>. QED  BY <3>1, <3>2, <3>3, <4>1, <4>2, <4>4
    <3>4. CASE q # 0
      <4>1. q - 1 \in 0 .. k * done - 1 /\ b - 1 = writer + (q - 1) /\ q - 1 \in Nat  BY <3>1, <3>4
      <4>2. m[b - 1] = At(q - 1) /\ BytesOf(src + ((q - 1) \div k)) = k  BY <1>3, <4>1
      <4>3. (q - 1) \div k \in Nat /\ (q - 1) % k \in 0 .. k - 1  BY <4>1, DivIs
      <4>4. CASE 1 + ((q - 1) % k) < k
        <5>1. q \div k = (q - 1) \div k /\ q % k = ((q - 1) % k) + 1  BY <3>1, <3>4, <4>4, DivIs
        <5>2. After(At(q - 1)) = <<src + ((q - 1) \div k), (1 + ((q - 1) % k)) + 1>>  BY <4>2, <4>4 DEF After
        <5>3. (1 + ((q - 1) % k)) + 1 = 1 + (q % k)  BY <4>3, <5>1
        <5>. QED  BY <3>2, <4>2, <5>1, <5>2, <5>3
      <4>5. CASE ~ (1 + ((q - 1) % k) < k)
        <5>1. q \div k = ((q - 1) \div k) + 1 /\ q % k = 0  BY <3>1, <3>4, <4>5, DivIs
        <5>2. After(At(q - 1)) = <<(src + ((q - 1) \div k)) + 1, 1>>  BY <4>2, <4>5 DEF After
        <5>3. (src + ((q - 1) \div k)) + 1 = src + (q \div k) /\ 1 = 1 + (q % k)  BY <4>3, <5>1
        <5>. QED  BY <3>2, <4>2, <5>2, <5>3
      <4>. QED  BY <4>4, <4>5
    <3>. QED  BY <3>3, <3>4
  <2>3. m[(writer + k * done) - 1] = <<src + done - 1, BytesOf(src + done - 1)>>
    <3> DEFINE q == k * done - 1
    <3>1. q \in 0 .. k * done - 1 /\ (writer + k * done) - 1 = writer + q /\ q \in Nat /\ q + 1 = k * done  BY <1>1, <2>1
    <3>3. m[writer + q] = At(q) /\ BytesOf(src + (q \div k)) = k  BY <1>3, <3>1
    <3> HIDE DEF q
    <3>2. q \div k = done - 1 /\ q % k = k - 1  BY <1>1, <1>6, LastDivIs DEF q
    <3>4. src + (q \div k) = src + done - 1 /\ 1 + (q % k) = k  BY <3>2
    <3>. QED  BY <3>1, <3>3, <3>4
  <2>4. src - 1 \in Nat /\ writer + k * done \in Nat /\ writer + k * done >= writer  BY <1>1
  <2>. QED  BY <1>4, <2>2, <2>3, <2>4, SpellsMore
<1>. QED  BY <1>5, <1>6

\* encode_one writes the bytes of a character.
LEMMA EncodedSpells ==
  ASSUME InputOK, NEW m, NEW i \in 1 .. Chars, NEW p \in Nat, p >= 1, Spells(m, i - 1, p),
         NEW top \in Nat, DOMAIN m = 0 .. top, p + 8 <= top
  PROVE  Spells(Encoded(m, p, i), i, p + Size(i))
<1> DEFINE m2 == Encoded(m, p, i)
<1>1. Size(i) \in 1 .. 6 /\ Spread(i) \in 1 .. 8 /\ Size(i) <= Spread(i) /\ i # 0  BY TextIs, SizeIs
<1>2. \A b \in 0 .. p - 1 : m2[b] = m[b]
  <2>1. TAKE b \in 0 .. p - 1
  <2>2. b \in DOMAIN m /\ b < p  OBVIOUS
  <2>. QED  BY <2>2 DEF Encoded
<1>3. ASSUME NEW b \in p .. (p + Size(i)) - 1 PROVE m2[b] = <<i, 1 + b - p>>
  <2>1. b \in Int /\ b >= p /\ b <= (p + Size(i)) - 1  OBVIOUS
  <2>2. b < p + Size(i) /\ b < p + Spread(i) /\ b <= p + 8
    <3> DEFINE size == Size(i)
               spread == Spread(i)
    <3>1. size \in Nat /\ spread \in Nat /\ size <= spread /\ size <= 6 /\ b <= (p + size) - 1  BY <1>1, <2>1
    <3> HIDE DEF size, spread
    <3>2. b < p + size /\ b < p + spread /\ b <= p + 8  BY <2>1, <3>1
    <3>. QED  BY <3>2 DEF size, spread
  <2>3. b \in DOMAIN m /\ ~ (b < p \/ b >= p + Spread(i)) /\ b < p + Size(i)  BY <1>1, <2>1, <2>2
  <2>. QED  BY <2>3 DEF Encoded
<1>4. Spells(m2, i - 1, p)  BY <1>2, StillSpells
<1>5. BytesOf(i) = Size(i)  BY <1>1 DEF BytesOf
<1>6. ASSUME NEW b \in p .. (p + Size(i)) - 1 PROVE m2[b] = After(m2[b - 1])
  <2>1. m2[b] = <<i, 1 + b - p>>  BY <1>3
  <2>2. CASE b = p
    <3>1. m2[b - 1] = <<i - 1, BytesOf(i - 1)>>  BY <1>4, <2>2 DEF Spells
    <3>2. BytesOf(i - 1) \in Nat
      <4>1. CASE i = 1  BY <4>1 DEF BytesOf
      <4>2. CASE i # 1
        <5>1. i - 1 \in 1 .. Chars /\ i - 1 # 0  BY TextIs, <4>2
        <5>. QED  BY <5>1, SizeIs DEF BytesOf
      <4>. QED  BY <4>1, <4>2
    <3>3. After(<<i - 1, BytesOf(i - 1)>>) = <<i, 1>>  BY <3>2, TextIs DEF After
    <3>. QED  BY <2>1, <2>2, <3>1, <3>3
  <2>3. CASE b # p
    <3>1. b - 1 \in p .. (p + Size(i)) - 1 /\ 1 + (b - 1) - p = b - p /\ b - p < Size(i)  BY <1>1, <2>3
    <3>2. m2[b - 1] = <<i, b - p>>  BY <1>3, <3>1
    <3>3. After(<<i, b - p>>) = <<i, (b - p) + 1>>  BY <1>5, <3>1 DEF After
    <3>4. (b - p) + 1 = 1 + b - p  BY <1>1
    <3>. QED  BY <2>1, <3>2, <3>3, <3>4
  <2>. QED  BY <2>2, <2>3
<1>7. m2[(p + Size(i)) - 1] = <<i, BytesOf(i)>>
  <2>1. (p + Size(i)) - 1 \in p .. (p + Size(i)) - 1 /\ 1 + ((p + Size(i)) - 1) - p = Size(i)  BY <1>1
  <2>. QED  BY <1>3, <1>5, <2>1
<1>8. i - 1 \in Nat /\ p + Size(i) \in Nat /\ p + Size(i) >= p  BY <1>1, TextIs
<1>. QED  BY <1>4, <1>6, <1>7, <1>8, SpellsMore

-----------------------------------------------------------------------------
(* A store, a character by itself, a block.                                *)

LEMMA LimitIs ==
  ASSUME InputOK
  PROVE  Over \in Nat /\ Limit \in Nat /\ Limit >= (IF isKey THEN 5 ELSE 3) + 6 * Chars + Padding + Over
<1>1. Chars \in Nat /\ Padding \in Nat  BY TextIs, SizesAssumption
<1>2. Over \in Nat  BY DEF Over, Overrun
<1>. QED  BY <1>1, <1>2 DEF Limit, Reserve, Chars

LEMMA FartherIs ==
  ASSUME NEW a \in Nat, NEW b \in Nat
  PROVE  /\ Farther(a, b) \in Nat
         /\ \A c \in Nat : a <= c /\ b <= c => Farther(a, b) <= c
  BY DEF Farther

\* k bytes for each of some characters are at most six for each.
LEMMA BytesFew == ASSUME NEW k \in 1 .. 3, NEW d \in Nat PROVE k * d \in Nat /\ k * d <= 6 * d
<1>1. CASE k = 1  BY <1>1
<1>2. CASE k = 2  BY <1>2
<1>3. CASE k = 3  BY <1>3
<1>. QED  BY <1>1, <1>2, <1>3

LEMMA StoredReady ==
  ASSUME InputOK, Ready(src, out, writer, reach),
         NEW k \in 1 .. 3, NEW n \in Nat, NEW done \in Nat, k * done <= n,
         src + done - 1 <= Chars,
         n <= 2 + 6 * left + Padding + Over,
         \A i \in 0 .. done - 1 : Good(k, src + i)
  PROVE  Ready(src + done, Stored(k, n), writer + k * done, Farther(reach, writer + n))
<1> DEFINE e == k * done
<1>1. Chars \in Nat /\ Padding \in Nat /\ Batch \in Nat /\ Over \in Nat
  BY TextIs, BatchIs, LimitIs, SizesAssumption
<1>2. src \in 1 .. Chars + 1 /\ src \in Nat /\ writer \in Nat /\ writer >= 1 /\ writer <= 1 + 6 * (src - 1) /\ reach \in Nat
  BY <1>1 DEF Ready
<1>3. e \in Nat /\ e <= 6 * done  BY BytesFew
<1>4. Spells(Stored(k, n), src + done - 1, writer + e)
  <2> DEFINE top == 6 * Chars + 4 * Batch + 8
  <2>1. top \in Nat /\ DOMAIN out = 0 .. top  BY <1>1 DEF Ready
  <2>2. writer + k * done <= top
    <3>1. writer + e <= 6 * Chars + 4 * Batch + 8  BY <1>1, <1>2, <1>3
    <3>. QED  BY <3>1
  <2> HIDE DEF top
  <2>3. Spells(out, src - 1, writer)  BY DEF Ready
  <2>4. src >= 1  BY <1>2
  <2>5. Spells(Stored(k, n), src + done - 1, writer + k * done)
    BY <1>2, <2>1, <2>2, <2>3, <2>4, StoredSpells, ZenonT(30)
  <2>. QED  BY <2>5
<1> HIDE DEF e
<1>5. (src + done) - 1 = src + done - 1 /\ src + done \in 1 .. Chars + 1 /\ writer + e \in Nat /\ writer + e >= 1
      /\ writer + e <= 1 + 6 * ((src + done) - 1)
  BY <1>1, <1>2, <1>3
<1>6. Farther(reach, writer + n) \in Nat /\ Farther(reach, writer + n) <= Limit
  <2>1. writer + n \in Nat  BY <1>2
  <2>2. reach <= Limit /\ writer + n <= Limit
    <3>1. n <= 2 + 6 * (Chars - src + 1) + Padding + Over  BY DEF left, Chars
    <3>2. writer + n <= 3 + 6 * Chars + Padding + Over  BY <1>1, <1>2, <3>1
    <3>3. reach <= Limit  BY DEF Ready
    <3>. QED  BY <1>1, <2>1, <3>2, <3>3, LimitIs
  <2>. QED  BY <1>2, <2>1, <2>2, FartherIs, LimitIs
<1>7. \A i \in 1 .. (src + done) - 1 : ~IsSurrogate(text[i])
  <2>1. TAKE i \in 1 .. (src + done) - 1
  <2>2. CASE i <= src - 1
    <3>1. i \in 1 .. src - 1  BY <1>2, <2>2
    <3>. QED  BY <3>1 DEF Ready
  <2>3. CASE i > src - 1
    <3>1. i - src \in 0 .. done - 1 /\ src + (i - src) = i  BY <1>2, <2>3
    <3>. QED  BY <3>1 DEF Good
  <2>. QED  BY <1>2, <2>2, <2>3
<1>8. DOMAIN Stored(k, n) = DOMAIN out  BY DEF Stored
<1>9. DOMAIN Stored(k, n) = 0 .. 6 * Chars + 4 * Batch + 8  BY <1>8 DEF Ready
<1>. QED  BY <1>4, <1>5, <1>6, <1>7, <1>9 DEF Ready, e

LEMMA EncodedReady ==
  ASSUME InputOK, NEW m, NEW i \in 1 .. Chars, NEW p, NEW r, Ready(i, m, p, r), NEW next,
         EncodeOne(m, p, i, r, next)
  PROVE  \/ /\ label' = "failed" /\ IsSurrogate(text[i])
            /\ UNCHANGED <<src, out, writer, reach>>
         \/ label' = next /\ src' = i + 1 /\ Ready(src', out', writer', reach')
<1>1. CASE IsSurrogate(text[i])  BY <1>1 DEF EncodeOne
<1>2. CASE ~IsSurrogate(text[i])
  <2>1. label' = next /\ out' = Encoded(m, p, i) /\ writer' = p + Size(i)
        /\ reach' = Farther(r, p + Spread(i)) /\ src' = i + 1
    BY <1>2 DEF EncodeOne
  <2>2. Chars \in Nat /\ Padding \in Nat /\ Batch \in Nat /\ Over \in Nat
    BY TextIs, BatchIs, LimitIs, SizesAssumption
  <2>3. p \in Nat /\ p >= 1 /\ p <= 1 + 6 * (i - 1) /\ r \in Nat  BY DEF Ready
  <2>4. Size(i) \in 1 .. 6 /\ Spread(i) \in 1 .. 8  BY SizeIs
  <2> DEFINE size == Size(i)
             spread == Spread(i)
  <2>5. size \in Nat /\ size >= 1 /\ size <= 6 /\ spread \in Nat /\ spread <= 8  BY <2>4
  <2>6. Spells(out', i, p + size)
    <3> DEFINE top == 6 * Chars + 4 * Batch + 8
    <3>1. top \in Nat /\ DOMAIN m = 0 .. top  BY <2>2 DEF Ready
    <3>2. p + 8 <= top  BY <2>2, <2>3
    <3> HIDE DEF top
    <3>3. Spells(m, i - 1, p)  BY DEF Ready
    <3>4. Spells(Encoded(m, p, i), i, p + Size(i))  BY <2>3, <3>1, <3>2, <3>3, EncodedSpells
    <3>. QED  BY <2>1, <3>4
  <2> HIDE DEF size, spread
  <2>7. p + size \in Nat /\ p + size >= 1 /\ p + size <= 1 + 6 * ((i + 1) - 1)  BY <2>2, <2>3, <2>5
  <2>8. i + 1 \in 1 .. Chars + 1 /\ (i + 1) - 1 = i  BY <2>2
  <2>9. Farther(r, p + spread) \in Nat /\ Farther(r, p + spread) <= Limit
    <3>1. p + spread \in Nat /\ p + spread <= 3 + 6 * Chars + Padding + Over  BY <2>2, <2>3, <2>5
    <3>2. p + spread <= Limit  BY <2>2, <3>1, LimitIs
    <3>3. r <= Limit  BY DEF Ready
    <3>. QED  BY <2>3, <3>1, <3>2, <3>3, FartherIs, LimitIs
  <2>10. \A j \in 1 .. i : ~IsSurrogate(text[j])
    <3>1. TAKE j \in 1 .. i
    <3>2. CASE j = i  BY <1>2, <3>2
    <3>3. CASE j # i
      <4>1. j \in 1 .. i - 1  BY <3>3
      <4>. QED  BY <4>1 DEF Ready
    <3>. QED  BY <3>2, <3>3
  <2>11. DOMAIN Encoded(m, p, i) = DOMAIN m  BY DEF Encoded
  <2>12. DOMAIN out' = 0 .. 6 * Chars + 4 * Batch + 8  BY <2>1, <2>11 DEF Ready
  <2>13. writer' = p + size /\ reach' = Farther(r, p + spread)  BY <2>1 DEF size, spread
  <2>14. Ready(i + 1, out', p + size, Farther(r, p + spread))
    BY <2>6, <2>7, <2>8, <2>9, <2>10, <2>12 DEF Ready
  <2>. QED  BY <2>1, <2>13, <2>14
<1>. QED  BY <1>1, <1>2

\* A block ends at the end of the text, at a surrogate, or behind the
\* character that is not of its class.
LEMMA BlockReady ==
  ASSUME InputOK, Ready(src, out, writer, reach), src <= Chars,
         NEW k \in 1 .. 3, NEW n \in Nat, NEW done, IsFront(k, left, done), k * done <= n,
         n <= 2 + 6 * left + Padding + Over,
         NEW l, Block(k, n, done, l)
  PROVE  /\ Ready(src', out', writer', reach')
         /\ \/ label' = "close" /\ src' = Chars + 1
            \/ label' = "failed" /\ \E i \in src' .. Chars : IsSurrogate(text[i])
            \/ label' = l /\ src' = src + done + 1 /\ done + 1 < left
<1>1. Chars \in Nat /\ left = Chars - src + 1 /\ left \in Nat /\ src \in 1 .. Chars
  <2>1. Chars \in Nat /\ src \in 1 .. Chars + 1  BY TextIs DEF Ready
  <2>. QED  BY <2>1 DEF left, Chars
<1>2. done \in Nat /\ done <= left /\ \A i \in 0 .. done - 1 : InClass(k, text[src + i])
  BY <1>1 DEF IsFront
<1>3. \A i \in 0 .. done - 1 : Good(k, src + i)
  <2>1. TAKE i \in 0 .. done - 1
  <2>2. src + i \in 1 .. Chars  BY <1>1, <1>2
  <2>. QED  BY <1>2, <2>2, ClassIs
<1>4. Ready(src + done, Stored(k, n), writer + k * done, Farther(reach, writer + n))
  <2>1. src + done - 1 <= Chars  BY <1>1, <1>2
  <2>. QED  BY <1>2, <1>3, <2>1, StoredReady
<1>5. CASE done = left
  <2>1. /\ label' = "close" /\ out' = Stored(k, n) /\ reach' = Farther(reach, writer + n)
        /\ src' = src + done /\ writer' = writer + k * done
    BY <1>5 DEF Block
  <2>2. src' = Chars + 1  BY <1>1, <1>5, <2>1
  <2>. QED  BY <1>4, <2>1, <2>2
<1>6. CASE done # left
  <2> DEFINE i == src + done
             next == NextOr(l, left - done - 1)
  <2>1. EncodeOne(Stored(k, n), writer + k * done, i, Farther(reach, writer + n), next)
    BY <1>6 DEF Block
  <2>2. i \in 1 .. Chars  BY <1>1, <1>2, <1>6
  <2> HIDE DEF i, next
  <2>3. Ready(i, Stored(k, n), writer + k * done, Farther(reach, writer + n))  BY <1>4 DEF i
  <2>4. \/ /\ label' = "failed" /\ IsSurrogate(text[i])
           /\ UNCHANGED <<src, out, writer, reach>>
        \/ label' = next /\ src' = i + 1 /\ Ready(src', out', writer', reach')
    BY <2>1, <2>2, <2>3, EncodedReady
  <2>5. CASE label' = "failed" /\ IsSurrogate(text[i]) /\ UNCHANGED <<src, out, writer, reach>>
    <3>1. i \in src' .. Chars  BY <1>1, <1>2, <2>2, <2>5 DEF i
    <3>2. Ready(src', out', writer', reach')  BY <2>5
    <3>. QED  BY <2>5, <3>1, <3>2
  <2>6. CASE label' = next /\ src' = i + 1 /\ Ready(src', out', writer', reach')
    <3>1. src' = src + done + 1 /\ done < left  BY <1>1, <1>2, <1>6, <2>6 DEF i
    <3>2. CASE left - done - 1 = 0
      <4>1. label' = "close"  BY <2>6, <3>2 DEF next, NextOr
      <4>2. src' = Chars + 1  BY <1>1, <1>2, <3>1, <3>2
      <4>. QED  BY <2>6, <4>1, <4>2
    <3>3. CASE left - done - 1 # 0
      <4>1. label' = l  BY <2>6, <3>3 DEF next, NextOr
      <4>2. done + 1 < left  BY <1>1, <1>2, <3>1, <3>3
      <4>. QED  BY <2>6, <3>1, <4>1, <4>2
    <3>. QED  BY <3>2, <3>3
  <2>. QED  BY <2>4, <2>5, <2>6
<1>. QED  BY <1>5, <1>6

-----------------------------------------------------------------------------
(* A step.                                                                 *)

\* The invariant after a step that leaves the input alone.
LEMMA Kept ==
  ASSUME InputOK, UNCHANGED <<isa, width, text, isKey>>,
         State(label', class', src', mask', out', writer', reach')
  PROVE  IInv'
<1>1. Ready(src, out, writer, reach)' = Ready(src', out', writer', reach')
  BY DEF Ready, Limit, Over, Reserve, Batch, Chars, Spells, After, BytesOf, Size
<1>2. Returned(src, out, writer, reach)' = Returned(src', out', writer', reach')
  BY DEF Returned, Limit, Over, Reserve, Chars, Spells, After, BytesOf, Size
<1>3. Masked(label, class, src, mask)' = Masked(label', class', src', mask')
  BY DEF Masked, Chars, InClass
<1>4. Placed(label, src)' = Placed(label', src')  BY DEF Placed, Chars, Batch
<1>5. (\E i \in src .. Chars : IsSurrogate(text[i]))' = \E i \in src' .. Chars : IsSurrogate(text[i])
  BY DEF Chars
<1>6. State(label, class, src, mask, out, writer, reach)'
  BY <1>1, <1>2, <1>3, <1>4, <1>5 DEF State
<1>. QED  BY <1>6 DEF IInv, InputOK

LEMMA Now ==
  ASSUME IInv, label # "returned"
  PROVE  /\ InputOK /\ Ready(src, out, writer, reach) /\ Placed(label, src)
         /\ Chars \in Nat /\ Batch \in Nat /\ Batch > 1 /\ Unroll \in Nat /\ Padding \in Nat /\ Over \in Nat
         /\ src \in 1 .. Chars + 1 /\ writer \in Nat /\ reach \in Nat
         /\ left = Chars - src + 1 /\ left \in Nat
         /\ class \in 0 .. 3 /\ mask \in SUBSET Nat
<1>1. InputOK /\ State(label, class, src, mask, out, writer, reach)  BY DEF IInv
<1>2. Ready(src, out, writer, reach)  BY <1>1 DEF State
<1>3. Chars \in Nat /\ src \in 1 .. Chars + 1  BY <1>1, <1>2, TextIs DEF Ready
<1>4. left = Chars - src + 1  BY DEF left, Chars
<1>. QED  BY <1>1, <1>2, <1>3, <1>4, BatchIs, LimitIs, SizesAssumption DEF State, Ready

LEMMA GotoKeeps ==
  ASSUME IInv, label # "returned", NEW l \in {"loop", "encode_one", "close", "trailing"},
         NEW k \in 0 .. 3, Placed(l, src), Goto(l, k)
  PROVE  IInv'
<1>1. label' = l /\ class' = k /\ UNCHANGED <<isa, width, text, isKey, src, mask, out, writer, reach>>  BY DEF Goto
<1>2. l \in Labels /\ l \notin {"again", "returned", "failed"}  BY DEF Labels
<1>3. State(l, k, src, mask, out, writer, reach)  BY <1>2, Now DEF State, Masked
<1>4. State(label', class', src', mask', out', writer', reach')  BY <1>1, <1>3
<1>. QED  BY <1>1, <1>4, Now, Kept

LEMMA LeaveKeeps ==
  ASSUME IInv, label # "returned", ~CanLoop, Leave
  PROVE  IInv'
<1>1. CASE left = 0
  <2>1. Goto("close", 0)  BY <1>1 DEF Leave
  <2>2. Placed("close", src)  BY <1>1, Now DEF Placed
  <2>. QED  BY <2>1, <2>2, GotoKeeps
<1>2. CASE left # 0
  <2>1. Goto("trailing", 0)  BY <1>2 DEF Leave
  <2>2. Placed("trailing", src)  BY <1>2, Now DEF Placed, CanLoop
  <2>. QED  BY <2>1, <2>2, GotoKeeps
<1>. QED  BY <1>1, <1>2

LEMMA LoopKeeps ==
  ASSUME IInv, label = "loop", NEW k \in 1 .. 3, NEW n \in Nat, n <= left,
         NEW done, IsFront(k, n, done), NEW extra \in Nat, k * n + extra <= 6 * left,
         LoopStep(k, n, done, extra)
  PROVE  IInv'
<1>1. /\ label' = IF done = n THEN "loop" ELSE "encode_one"
      /\ out' = Stored(k, k * n + extra)
      /\ reach' = Farther(reach, writer + k * n + extra)
      /\ src' = src + done /\ writer' = writer + k * done
      /\ UNCHANGED <<isa, width, text, isKey, class, mask>>
  BY DEF LoopStep
<1>2. done \in Nat /\ done <= n /\ \A i \in 0 .. done - 1 : InClass(k, text[src + i])  BY DEF IsFront
<1> DEFINE size == k * n + extra
<1>3. size \in Nat /\ size <= 6 * left /\ writer + k * n + extra = writer + size
  <2> DEFINE e == k * n
  <2>1. e \in Nat /\ e + extra <= 6 * left /\ writer \in Nat  BY BytesFew, Now
  <2> HIDE DEF e
  <2>2. e + extra \in Nat /\ writer + e + extra = writer + (e + extra)  BY <2>1
  <2>. QED  BY <2>1, <2>2 DEF e
<1>4. k * done <= size
  <2>1. done * k <= n * k  BY <1>2, Grows
  <2>2. k * done \in Nat /\ k * n \in Nat /\ k * done = done * k /\ k * n = n * k  BY <1>2
  <2>. QED  BY <2>1, <2>2
<1> HIDE DEF size
<1>5. \A i \in 0 .. done - 1 : Good(k, src + i)
  <2>1. TAKE i \in 0 .. done - 1
  <2>2. src + i \in 1 .. Chars  BY <1>2, Now
  <2>. QED  BY <1>2, <2>2, ClassIs, Now
<1>6. Ready(src + done, Stored(k, size), writer + k * done, Farther(reach, writer + size))
  <2>1. src + done - 1 <= Chars  BY <1>2, Now
  <2>2. size <= 2 + 6 * left + Padding + Over  BY <1>3, Now
  <2>. QED  BY <1>2, <1>3, <1>4, <1>5, <2>1, <2>2, Now, StoredReady
<1>7. Ready(src', out', writer', reach')  BY <1>1, <1>3, <1>6 DEF size
<1>8. label' \in {"loop", "encode_one"} /\ Placed(label', src')
  <2>1. done # n => src + done <= Chars  BY <1>2, Now
  <2>. QED  BY <1>1, <2>1 DEF Placed
<1>9. State(label', class', src', mask', out', writer', reach')
  BY <1>1, <1>7, <1>8, Now DEF State, Masked, Labels
<1>. QED  BY <1>1, <1>9, Kept, Now

\* One vector, and the vectors of a loop4.
LEMMA VectorKeeps ==
  ASSUME IInv, label = "loop", CanLoop, NEW k \in 1 .. 3, NEW extra \in {0, Batch}, VectorStep(k, extra)
  PROVE  IInv'
<1>1. Batch \in Nat /\ extra \in Nat /\ Batch <= left  BY Now DEF CanLoop
<1>2. k * Batch + extra <= 6 * left
  <2>1. CASE k = 1  BY <1>1, <2>1, Now
  <2>2. CASE k = 2  BY <1>1, <2>2, Now
  <2>3. CASE k = 3  BY <1>1, <2>3, Now
  <2>. QED  BY <2>1, <2>2, <2>3
<1>3. IsFront(k, Batch, Leading(k, Batch))  BY <1>1, LeadingIs
<1>4. LoopStep(k, Batch, Leading(k, Batch), extra)  BY DEF VectorStep
<1>. QED  BY <1>1, <1>2, <1>3, <1>4, LoopKeeps

LEMMA Loop4Keeps ==
  ASSUME IInv, label = "loop", CanLoop4, LoopStep(1, Unroll * Batch, LeadingOfVectors(1), 0)
  PROVE  IInv'
<1> DEFINE n == Unroll * Batch
<1>1. n \in Nat /\ n <= left /\ 1 * n + 0 <= 6 * left
  <2>1. n \in Nat /\ n <= left  BY Now DEF CanLoop4
  <2> HIDE DEF n
  <2>. QED  BY <2>1, Now
<1>2. IsFront(1, n, LeadingOfVectors(1))
  <2>1. src \in Nat /\ InputOK  BY Now
  <2>. QED  BY <2>1, LeadingOfVectorsIs
<1>3. LoopStep(1, n, LeadingOfVectors(1), 0)  OBVIOUS
<1> HIDE DEF n
<1>. QED  BY <1>1, <1>2, <1>3, LoopKeeps

LEMMA ByItselfKeeps ==
  ASSUME IInv, label \in {"trailing", "restart", "encode_one"},
         NEW l \in {"trailing", "choose"},
         l = "trailing" => Chars - src + 1 < Batch,
         EncodeOne(out, writer, src, reach, IF l = "choose" THEN l ELSE NextOr(l, left - 1)),
         UNCHANGED <<isa, width, text, isKey, mask>>, class' \in 0 .. 3
  PROVE  IInv'
<1> DEFINE next == IF l = "choose" THEN l ELSE NextOr(l, left - 1)
<1>1. src \in 1 .. Chars  BY Now DEF Placed
<1>2. \/ /\ label' = "failed" /\ IsSurrogate(text[src])
         /\ UNCHANGED <<src, out, writer, reach>>
      \/ label' = next /\ src' = src + 1 /\ Ready(src', out', writer', reach')
  BY <1>1, Now, EncodedReady
<1>3. CASE label' = "failed" /\ IsSurrogate(text[src]) /\ UNCHANGED <<src, out, writer, reach>>
  <2>1. Ready(src', out', writer', reach')  BY <1>3, Now
  <2>2. \E i \in src' .. Chars : IsSurrogate(text[i])  BY <1>1, <1>3
  <2>3. State(label', class', src', mask', out', writer', reach')
    BY <1>3, <2>1, <2>2, Now DEF State, Masked, Placed, Labels
  <2>. QED  BY <2>3, Kept, Now
<1>4. CASE label' = next /\ src' = src + 1 /\ Ready(src', out', writer', reach')
  <2>1. label' \in {"choose", "trailing", "close"} /\ Placed(label', src')
    <3>1. CASE l = "choose"  BY <1>4, <3>1 DEF Placed
    <3>2. CASE l = "trailing" /\ left - 1 = 0
      <4>1. label' = "close"  BY <1>4, <3>2 DEF NextOr
      <4>2. src' = Chars + 1  BY <1>1, <1>4, <3>2, Now
      <4>. QED  BY <4>1, <4>2 DEF Placed
    <3>3. CASE l = "trailing" /\ left - 1 # 0
      <4>1. label' = "trailing"  BY <1>4, <3>3 DEF NextOr
      <4>2. src' <= Chars /\ Chars - src' + 1 < Batch  BY <1>1, <1>4, <3>3, Now
      <4>. QED  BY <4>1, <4>2 DEF Placed
    <3>. QED  BY <3>1, <3>2, <3>3
  <2>2. State(label', class', src', mask', out', writer', reach')
    BY <1>4, <2>1, Now DEF State, Masked, Labels
  <2>. QED  BY <2>2, Kept, Now
<1>. QED  BY <1>2, <1>3, <1>4

\* What a trailing function stores at most fits behind the last character.
LEMMA RoomFor ==
  ASSUME IInv, label \in {"trailing", "restart", "again"}
  PROVE  /\ \A k \in 1 .. 3 : (width = 1 => k = 1) => k * Batch <= 2 + 6 * left + Padding + Over
         /\ width = 2 /\ isa \in Copies128 => 4 * Batch <= 2 + 6 * left + Padding + Over
<1> DEFINE most == Stretch(isa, width)
<1>1. left \in Nat /\ left >= 1 /\ Batch \in Nat /\ Padding \in Nat /\ Over \in Nat  BY Now DEF Placed
<1>2. most * Batch <= Padding + 8 + Over
  <2>1. isa \in Isas /\ width \in {1, 2, 4}  BY Now DEF InputOK
  <2>. QED  BY <2>1, RoomAssumption DEF Batch, Over
<1>3. most \in {1, 3, 4} /\ (width # 1 => most \in {3, 4}) /\ (width = 2 /\ isa \in Copies128 => most = 4)
  BY DEF Stretch, Copies128
<1> HIDE DEF most
<1>4. most * Batch <= 2 + 6 * left + Padding + Over
  <2>1. CASE most = 1  BY <1>1, <1>2, <2>1
  <2>2. CASE most = 3  BY <1>1, <1>2, <2>2
  <2>3. CASE most = 4  BY <1>1, <1>2, <2>3
  <2>. QED  BY <1>3, <2>1, <2>2, <2>3
<1>5. ASSUME NEW k \in 1 .. 3, width = 1 => k = 1 PROVE k * Batch <= 2 + 6 * left + Padding + Over
  <2>1. k \in {1, 2, 3} /\ (most = 1 => k = 1)  BY <1>3, <1>5
  <2>2. k * Batch \in Nat /\ most * Batch \in Nat /\ k * Batch <= most * Batch
    <3>1. CASE most = 1  BY <1>1, <2>1, <3>1
    <3>2. CASE most = 3  BY <1>1, <2>1, <3>2
    <3>3. CASE most = 4  BY <1>1, <2>1, <3>3
    <3>. QED  BY <1>3, <3>1, <3>2, <3>3
  <2> DEFINE e == k * Batch
             m == most * Batch
  <2>3. e \in Nat /\ m \in Nat /\ e <= m /\ m <= 2 + 6 * left + Padding + Over  BY <1>4, <2>2
  <2> HIDE DEF e, m
  <2>4. e <= 2 + 6 * left + Padding + Over  BY <1>1, <2>3
  <2>. QED  BY <2>4 DEF e
<1>. QED  BY <1>3, <1>4, <1>5

LEMMA Less ==
  ASSUME NEW s \in Nat, NEW c \in Nat, NEW b \in Nat, NEW d \in Nat, d + 1 < c - s + 1, c - s + 1 < b
  PROVE  s + d + 1 <= c /\ c - (s + d + 1) + 1 < b
  OBVIOUS

LEMMA LessLeft ==
  ASSUME IInv, label # "returned", NEW d \in Nat, d + 1 < left, left < Batch
  PROVE  src + d + 1 <= Chars /\ Chars - (src + d + 1) + 1 < Batch
<1>1. src \in Nat /\ Chars \in Nat /\ Batch \in Nat /\ left = Chars - src + 1  BY Now
<1>. QED  BY <1>1, Less

LEMMA TrailingBlockKeeps ==
  ASSUME IInv, label = "trailing", NEW k \in 1 .. 3, NEW n \in Nat, NEW done, IsFront(k, left, done),
         k * done <= n, n <= 2 + 6 * left + Padding + Over,
         Block(k, n, done, "trailing"), UnchangedInTrailing
  PROVE  IInv'
<1>1. src <= Chars /\ left < Batch  BY Now DEF Placed
<1>2. /\ Ready(src', out', writer', reach')
      /\ \/ label' = "close" /\ src' = Chars + 1
         \/ label' = "failed" /\ \E i \in src' .. Chars : IsSurrogate(text[i])
         \/ label' = "trailing" /\ src' = src + done + 1 /\ done + 1 < left
  BY <1>1, Now, BlockReady
<1>3. label' \in {"close", "failed", "trailing"} /\ Placed(label', src')
  <2>1. done \in Nat  BY Now DEF IsFront
  <2>2. ASSUME src' = src + done + 1, done + 1 < left PROVE src' <= Chars /\ Chars - src' + 1 < Batch
    <3>1. src + done + 1 <= Chars /\ Chars - (src + done + 1) + 1 < Batch
      BY <1>1, <2>1, <2>2, Now, LessLeft
    <3>. QED  BY <2>2, <3>1
  <2>. QED  BY <1>2, <2>2 DEF Placed
<1>4. State(label', class', src', mask', out', writer', reach')
  BY <1>2, <1>3, Now DEF State, Masked, Labels, UnchangedInTrailing
<1>. QED  BY <1>4, Now, Kept DEF UnchangedInTrailing

LEMMA MaskedKeeps ==
  ASSUME IInv, label \in {"trailing", "restart", "again"},
         NEW k \in 1 .. 3, width = 1 => k = 1, NEW m \in SUBSET Nat,
         \A b \in m : b <= Chars - src,
         \A b \in 0 .. Chars - src : b \notin m => InClass(k, text[src + b]),
         MaskedBlock(k, m)
  PROVE  IInv'
<1> DEFINE done == IF m = {} THEN left ELSE Lowest(m)
           stays == m # {} /\ (width = 1 \/ StaysInBlock(k, src + done + 1))
           l == IF stays THEN "again" ELSE "restart"
<1>1. /\ Block(k, k * Batch, done, l)
      /\ class' = IF stays THEN k ELSE 0
      /\ mask' = IF stays THEN Shifted(m, done) ELSE {}
      /\ UNCHANGED <<isa, width, text, isKey>>
  BY DEF MaskedBlock
<1>2. src <= Chars /\ left < Batch  BY Now DEF Placed
<1>3. IsFront(k, left, done) /\ done \in Nat
  <2>1. CASE m = {}
    <3>1. done = left  BY <2>1
    <3>2. \A i \in 0 .. left - 1 : i \in 0 .. Chars - src /\ i \notin m  BY <2>1, Now
    <3>. QED  BY <3>1, <3>2, Now DEF IsFront
  <2>2. CASE m # {}
    <3>1. done \in m /\ \A other \in m : done <= other  BY <2>2, LowestIs
    <3>2. done \in Nat /\ done <= Chars - src  BY <3>1
    <3>3. \A i \in 0 .. done - 1 : i \in 0 .. Chars - src /\ ~ (done <= i)  BY <3>2, Now
    <3>4. \A i \in 0 .. done - 1 : InClass(k, text[src + i])  BY <3>1, <3>3
    <3>5. done \in 0 .. left  BY <3>2, Now
    <3>. QED  BY <3>2, <3>4, <3>5 DEF IsFront
  <2>. QED  BY <2>1, <2>2
<1>4. stays => m # {}  OBVIOUS
<1> HIDE DEF done, stays
<1>5. k * Batch \in Nat /\ k * done <= k * Batch
  <2>1. done <= Batch  BY <1>2, <1>3, Now DEF IsFront
  <2>2. done * k <= Batch * k  BY <1>3, <2>1, Now, Grows
  <2>3. k * done = done * k /\ k * Batch = Batch * k /\ k * Batch \in Nat  BY <1>3, Now
  <2>. QED  BY <2>2, <2>3
<1>6. k * Batch <= 2 + 6 * left + Padding + Over  BY RoomFor
<1>7. /\ Ready(src', out', writer', reach')
      /\ \/ label' = "close" /\ src' = Chars + 1
         \/ label' = "failed" /\ \E i \in src' .. Chars : IsSurrogate(text[i])
         \/ label' = l /\ src' = src + done + 1 /\ done + 1 < left
  BY <1>1, <1>2, <1>3, <1>5, <1>6, Now, BlockReady
<1>8. label' \in {"close", "failed", "again", "restart"} /\ Placed(label', src')
  <2>1. ASSUME src' = src + done + 1, done + 1 < left PROVE src' <= Chars /\ Chars - src' + 1 < Batch
    <3>1. src + done + 1 <= Chars /\ Chars - (src + done + 1) + 1 < Batch
      BY <1>2, <1>3, <2>1, Now, LessLeft
    <3>. QED  BY <2>1, <3>1
  <2>. QED  BY <1>7, <2>1 DEF Placed
<1>9. mask' \in SUBSET Nat /\ class' \in 0 .. 3
  <2>1. Shifted(m, done) \in SUBSET Nat
    <3>1. \A x \in m : x > done => x - (done + 1) \in Nat  BY <1>3
    <3>. QED  BY <3>1 DEF Shifted
  <2>. QED  BY <1>1, <2>1
<1>10. Masked(label', class', src', mask')
  <2> SUFFICES ASSUME label' = "again"
               PROVE  /\ class' \in 1 .. 3 /\ (width = 1 => class' = 1)
                      /\ \A b \in mask' : b <= Chars - src'
                      /\ \A b \in 0 .. Chars - src' : b \notin mask' => InClass(class', text[src' + b])
    BY DEF Masked
  <2>1. stays /\ src' = src + done + 1 /\ done + 1 < left  BY <1>7
  <2>2. class' = k /\ mask' = Shifted(m, done)  BY <1>1, <2>1
  <2>3. ASSUME NEW b \in mask' PROVE b <= Chars - src'
    <3>1. PICK x \in m : x > done /\ b = x - (done + 1)  BY <2>2 DEF Shifted
    <3>2. x \in Nat /\ x <= Chars - src  BY <3>1
    <3>. QED  BY <1>3, <2>1, <3>1, <3>2, Now
  <2>4. ASSUME NEW b \in 0 .. Chars - src', b \notin mask' PROVE InClass(k, text[src' + b])
    <3> DEFINE x == b + (done + 1)
    <3>1. b \in Nat /\ x \in 0 .. Chars - src /\ x > done /\ b = x - (done + 1) /\ src + x = src' + b
      BY <1>3, <2>1, Now
    <3> HIDE DEF x
    <3>2. x \notin m
      <4>1. SUFFICES ASSUME x \in m PROVE FALSE  OBVIOUS
      <4>2. b \in Shifted(m, done)  BY <3>1, <4>1 DEF Shifted
      <4>. QED  BY <2>2, <2>4, <4>2
    <3>3. InClass(k, text[src + x])  BY <3>1, <3>2
    <3>. QED  BY <3>1, <3>3
  <2>. QED  BY <2>2, <2>3, <2>4
<1>11. State(label', class', src', mask', out', writer', reach')
  BY <1>7, <1>8, <1>9, <1>10 DEF State, Labels
<1>. QED  BY <1>1, <1>11, Now, Kept

LEMMA MaskOfIs ==
  ASSUME IInv, label # "returned", NEW k
  PROVE  /\ MaskOf(k) \in SUBSET Nat /\ \A b \in MaskOf(k) : b <= Chars - src
         /\ \A b \in 0 .. Chars - src : b \notin MaskOf(k) => InClass(k, text[src + b])
<1>1. \A b : b \in 0 .. left - 1 <=> b \in 0 .. Chars - src  BY Now
<1>2. \A b \in 0 .. left - 1 : b \in Nat /\ b <= Chars - src  BY Now
<1>. QED  BY <1>1, <1>2 DEF MaskOf

-----------------------------------------------------------------------------
(* Every action.                                                           *)

LEMMA ChooseKeeps ==
  ASSUME IInv, BytesWriteUcs1 \/ BytesWriteUcs2 \/ BytesWriteUcs4
  PROVE  IInv'
<1>1. label = "choose"  BY DEF BytesWriteUcs1, BytesWriteUcs2, BytesWriteUcs4
<1>2. CASE ~CanLoop
  <2>1. Leave  BY <1>2 DEF BytesWriteUcs1, BytesWriteUcs2, BytesWriteUcs4
  <2>. QED  BY <1>1, <1>2, <2>1, LeaveKeeps
<1>3. CASE CanLoop
  <2>1. src <= Chars  BY <1>1, <1>3, Now DEF CanLoop
  <2>2. Placed("loop", src) /\ Placed("encode_one", src)  BY <2>1 DEF Placed
  <2>3. \E l \in {"loop", "encode_one"}, k \in 0 .. 3 : Goto(l, k)
    <3>1. CASE BytesWriteUcs1
      <4>1. Goto("loop", 1) \/ Goto("encode_one", 0)  BY <1>3, <3>1, SMT DEF BytesWriteUcs1
      <4>. QED  BY <4>1
    <3>2. CASE BytesWriteUcs2
      <4>1. Goto("loop", 1) \/ Goto("loop", 2) \/ Goto("loop", 3) \/ Goto("encode_one", 0)
        BY <1>3, <3>2, SMT DEF BytesWriteUcs2
      <4>. QED  BY <4>1
    <3>3. CASE BytesWriteUcs4
      <4>1. Goto("loop", 1) \/ Goto("loop", 2) \/ Goto("loop", 3) \/ Goto("encode_one", 0)
        BY <1>3, <3>3, SMT DEF BytesWriteUcs4
      <4>. QED  BY <4>1
    <3>. QED  BY <3>1, <3>2, <3>3
  <2>4. PICK l \in {"loop", "encode_one"}, k \in 0 .. 3 : Goto(l, k)  BY <2>3
  <2>5. l \in {"loop", "encode_one", "close", "trailing"} /\ Placed(l, src)  BY <2>2, <2>4
  <2>. QED  BY <1>1, <2>4, <2>5, GotoKeeps
<1>. QED  BY <1>2, <1>3

LEMMA EncodeOneOfLoopKeeps == ASSUME IInv, EncodeOneOfLoop PROVE IInv'
<1>1. /\ label = "encode_one"
      /\ EncodeOne(out, writer, src, reach, "choose")
      /\ class' \in 0 .. 3 /\ UNCHANGED <<isa, width, text, isKey, mask>>
  BY DEF EncodeOneOfLoop
<1> DEFINE l == "choose"
           next == IF l = "choose" THEN l ELSE NextOr(l, left - 1)
<1>2. l \in {"trailing", "choose"} /\ (l = "trailing" => Chars - src + 1 < Batch) /\ next = "choose"  OBVIOUS
<1>3. EncodeOne(out, writer, src, reach, next)  BY <1>1, <1>2
<1>. QED  BY <1>1, <1>2, <1>3, ByItselfKeeps

Loop4 == AsciiLoop4Ucs1 \/ AsciiLoop4Ucs2 \/ AsciiLoop4Ucs4

LEMMA Loop4sKeep == ASSUME IInv, Loop4 PROVE IInv'
<1>1. label = "loop" /\ CanLoop4 /\ LoopStep(1, Unroll * Batch, LeadingOfVectors(1), 0)
  BY DEF Loop4, AsciiLoop4Ucs1, AsciiLoop4Ucs2, AsciiLoop4Ucs4, InLoop,
         AsciiInUcs1x4, AsciiInUcs2x4, AsciiInUcs4x4
<1>. QED  BY <1>1, Loop4Keeps

Loop ==
  \/ AsciiLoopUcs1 \/ AsciiLoopUcs2 \/ TwoBytesLoopUcs2 \/ ThreeBytesLoopUcs2
  \/ AsciiLoopUcs4 \/ TwoBytesLoopUcs4 \/ ThreeBytesLoopUcs4

LEMMA LoopsKeep == ASSUME IInv, Loop PROVE IInv'
<1>1. label = "loop" /\ CanLoop
  BY DEF Loop, AsciiLoopUcs1, AsciiLoopUcs2, TwoBytesLoopUcs2, ThreeBytesLoopUcs2,
         AsciiLoopUcs4, TwoBytesLoopUcs4, ThreeBytesLoopUcs4, InLoop
<1>2. \E k \in 1 .. 3, extra \in {0, Batch} : VectorStep(k, extra)
  <2>1. CASE AsciiLoopUcs1 \/ AsciiLoopUcs2 \/ AsciiLoopUcs4
    <3>1. VectorStep(1, 0)  BY <2>1 DEF AsciiLoopUcs1, AsciiLoopUcs2, AsciiLoopUcs4
    <3>. QED  BY <3>1
  <2>2. CASE TwoBytesLoopUcs2 \/ TwoBytesLoopUcs4
    <3>1. VectorStep(2, 0)  BY <2>2 DEF TwoBytesLoopUcs2, TwoBytesLoopUcs4
    <3>. QED  BY <3>1
  <2>3. CASE ThreeBytesLoopUcs2
    <3> DEFINE extra == IF isa = "ssse3" THEN Batch ELSE 0
    <3>1. VectorStep(3, extra)  BY <2>3 DEF ThreeBytesLoopUcs2
    <3>2. extra \in {0, Batch} /\ 3 \in 1 .. 3  OBVIOUS
    <3> HIDE DEF extra
    <3>. QED  BY <3>1, <3>2
  <2>4. CASE ThreeBytesLoopUcs4
    <3>1. VectorStep(3, 0)  BY <2>4 DEF ThreeBytesLoopUcs4
    <3>. QED  BY <3>1
  <2>. QED  BY <2>1, <2>2, <2>3, <2>4 DEF Loop
<1>3. PICK k \in 1 .. 3, extra \in {0, Batch} : VectorStep(k, extra)  BY <1>2
<1>. QED  BY <1>1, <1>3, VectorKeeps

LEMMA LoopEndKeeps == ASSUME IInv, LoopEnd PROVE IInv'
  BY LeaveKeeps DEF LoopEnd

\* A block of the SSE2 or AVX2 copies: a vector or what is left of the text
\* is stored for each byte, or a vector more.
LEMMA TrailingKeeps ==
  ASSUME IInv, label = "trailing", NEW k \in 1 .. 3, width = 1 => k = 1,
         NEW n \in {k * left, k * Batch} \cup (IF width = 2 /\ isa \in Copies128 THEN {4 * Batch} ELSE {}),
         Block(k, n, Leading(k, left), "trailing"), UnchangedInTrailing
  PROVE  IInv'
<1> DEFINE done == Leading(k, left)
<1>1. left \in Nat /\ Batch \in Nat /\ Padding \in Nat /\ Over \in Nat /\ left < Batch  BY Now DEF Placed
<1>2. IsFront(k, left, done)  BY <1>1, LeadingIs
<1>3. done \in Nat /\ done <= left  BY <1>1, <1>2 DEF IsFront
<1> HIDE DEF done
<1>4. k * done <= k * left /\ k * left <= k * Batch /\ k * Batch <= 4 * Batch
      /\ k * left <= 6 * left /\ k * left \in Nat /\ k * Batch \in Nat
  <2>1. CASE k = 1  BY <1>1, <1>3, <2>1
  <2>2. CASE k = 2  BY <1>1, <1>3, <2>2
  <2>3. CASE k = 3  BY <1>1, <1>3, <2>3
  <2>. QED  BY <2>1, <2>2, <2>3
<1> DEFINE a == k * done
           b == k * left
           c == k * Batch
<1>5. a \in Nat
  <2>1. k \in Nat /\ done \in Nat  BY <1>3
  <2>. QED  BY <2>1
<1>6. n = b \/ n = c \/ (width = 2 /\ isa \in Copies128 /\ n = 4 * Batch)  OBVIOUS
<1>7. a <= b /\ b <= c /\ c <= 4 * Batch /\ b <= 6 * left /\ b \in Nat /\ c \in Nat  BY <1>4
<1>8. /\ c <= 2 + 6 * left + Padding + Over
      /\ width = 2 /\ isa \in Copies128 => 4 * Batch <= 2 + 6 * left + Padding + Over
  BY RoomFor
<1> HIDE DEF a, b, c
<1>9. n \in Nat /\ a <= n  BY <1>1, <1>5, <1>6, <1>7
<1>10. n <= 2 + 6 * left + Padding + Over  BY <1>1, <1>6, <1>7, <1>8
<1>11. Block(k, n, done, "trailing")  BY DEF done
<1>12. k * done <= n  BY <1>9 DEF a
<1>. QED  BY <1>2, <1>9, <1>10, <1>11, <1>12, TrailingBlockKeeps

LEMMA ItselfKeeps ==
  ASSUME IInv, label \in {"trailing", "restart"}, ByItself, UnchangedInTrailing
  PROVE  IInv'
<1> DEFINE l == "trailing"
           next == IF l = "choose" THEN l ELSE NextOr(l, left - 1)
<1>1. l \in {"trailing", "choose"} /\ next = NextOr("trailing", left - 1)  OBVIOUS
<1>2. EncodeOne(out, writer, src, reach, next)  BY <1>1 DEF ByItself
<1>3. Chars - src + 1 < Batch  BY Now DEF Placed
<1>4. UNCHANGED <<isa, width, text, isKey, mask>> /\ class' \in 0 .. 3  BY Now DEF UnchangedInTrailing
<1>. QED  BY <1>1, <1>2, <1>3, <1>4, ByItselfKeeps

\* A character that a block takes is of its class.
LEMMA BlockClass ==
  ASSUME IInv, label \in {"trailing", "restart", "again"}, ~NoBlock(text[src])
  PROVE  Type(text[src]) \in 1 .. 3
<1>1. src \in 1 .. Chars  BY Now DEF Placed
<1>2. text[src] \in Nat  BY <1>1, Now, TextIs
<1>3. Type(text[src]) \in 1 .. 4  BY <1>2, TypeIs
<1>. QED  BY <1>3 DEF NoBlock

Narrow == TrailingUcs1By128 \/ TrailingUcs1By256
Wide == TrailingUcs2By128 \/ TrailingUcs4By128 \/ TrailingUcs2By256 \/ TrailingUcs4By256
ByMask == TrailingUcs1By512 \/ TrailingUcs2By512 \/ TrailingUcs4By512

LEMMA NarrowKeeps == ASSUME IInv, Narrow PROVE IInv'
<1>1. label = "trailing" /\ width = 1 /\ UnchangedInTrailing
  BY DEF Narrow, TrailingUcs1By128, TrailingUcs1By256, InTrailing
<1>2. \E n \in {1 * left, 1 * Batch} : Block(1, n, Leading(1, left), "trailing")
  <2>1. 1 * left = left /\ 1 * Batch = Batch  BY <1>1, Now
  <2>2. Block(1, left, Leading(1, left), "trailing") \/ Block(1, Batch, Leading(1, left), "trailing")
    BY DEF Narrow, TrailingUcs1By128, TrailingUcs1By256
  <2>. QED  BY <2>1, <2>2
<1>3. PICK n \in {1 * left, 1 * Batch} : Block(1, n, Leading(1, left), "trailing")  BY <1>2
<1>4. n \in {1 * left, 1 * Batch} \cup (IF width = 2 /\ isa \in Copies128 THEN {4 * Batch} ELSE {})  BY <1>3
<1>. QED  BY <1>1, <1>3, <1>4, TrailingKeeps

LEMMA WideKeeps == ASSUME IInv, Wide PROVE IInv'
<1> DEFINE k == Type(text[src])
<1>1. label = "trailing" /\ width # 1 /\ UnchangedInTrailing
  BY DEF Wide, TrailingUcs2By128, TrailingUcs4By128, TrailingUcs2By256, TrailingUcs4By256, InTrailing
<1>2. CASE ByItself  BY <1>1, <1>2, ItselfKeeps
<1>3. CASE ~ByItself
  <2>1. /\ ~NoBlock(text[src])
        /\ \/ /\ width = 2 /\ isa \in Copies128
              /\ Block(k, (IF k = 3 THEN 4 ELSE k) * Batch, Leading(k, left), "trailing")
           \/ Block(k, k * Batch, Leading(k, left), "trailing")
           \/ Block(k, k * left, Leading(k, left), "trailing")
    BY <1>3, Zenon
       DEF Wide, TrailingUcs2By128, TrailingUcs4By128, TrailingUcs2By256, TrailingUcs4By256, InTrailing
  <2>2. k \in 1 .. 3  BY <1>1, <2>1, BlockClass
  <2> DEFINE Stores == {k * left, k * Batch} \cup (IF width = 2 /\ isa \in Copies128 THEN {4 * Batch} ELSE {})
  <2>3. \E n \in Stores : Block(k, n, Leading(k, left), "trailing")
    <3> HIDE DEF k
    <3>1. CASE k = 3  BY <2>1, <3>1
    <3>2. CASE k # 3  BY <2>1, <3>2
    <3>. QED  BY <3>1, <3>2
  <2>4. PICK n \in Stores : Block(k, n, Leading(k, left), "trailing")  BY <2>3
  <2> HIDE DEF k
  <2>. QED  BY <1>1, <2>2, <2>4, TrailingKeeps
<1>. QED  BY <1>2, <1>3

LEMMA ByMaskKeeps == ASSUME IInv, ByMask PROVE IInv'
<1>1. label \in {"trailing", "restart", "again"}
  BY DEF ByMask, TrailingUcs1By512, TrailingUcs2By512, TrailingUcs4By512, At512
<1>2. label # "returned"  BY <1>1
<1>3. label = "again" =>
        /\ class \in 1 .. 3 /\ (width = 1 => class = 1)
        /\ mask \in SUBSET Nat /\ \A b \in mask : b <= Chars - src
        /\ \A b \in 0 .. Chars - src : b \notin mask => InClass(class, text[src + b])
  BY DEF IInv, State, Masked
<1>4. CASE TrailingUcs1By512
  <2>1. width = 1  BY <1>4 DEF TrailingUcs1By512, At512
  <2>2. CASE label = "again"
    <3>1. MaskedBlock(1, mask)  BY <1>4, <2>2 DEF TrailingUcs1By512
    <3>2. class = 1  BY <1>3, <2>1, <2>2
    <3>. QED  BY <1>1, <1>3, <2>2, <3>1, <3>2, MaskedKeeps
  <2>3. CASE label # "again"
    <3>1. MaskedBlock(1, MaskOf(1))  BY <1>4, <2>3 DEF TrailingUcs1By512
    <3>. QED  BY <1>1, <1>2, <3>1, MaskOfIs, MaskedKeeps
  <2>. QED  BY <2>2, <2>3
<1>5. CASE TrailingUcs2By512 \/ TrailingUcs4By512
  <2>1. width # 1 /\ Switch512  BY <1>5 DEF TrailingUcs2By512, TrailingUcs4By512, At512
  <2>2. CASE label = "again"
    <3>1. MaskedBlock(class, mask)  BY <2>1, <2>2 DEF Switch512
    <3>. QED  BY <1>1, <1>3, <2>2, <3>1, MaskedKeeps
  <2>3. CASE label # "again"
    <3>1. \/ ByItself /\ UnchangedInTrailing
          \/ ~NoBlock(text[src]) /\ MaskedBlock(Type(text[src]), MaskOf(Type(text[src])))
      BY <2>1, <2>3, Zenon DEF Switch512
    <3>2. CASE ByItself /\ UnchangedInTrailing  BY <1>1, <2>3, <3>2, ItselfKeeps
    <3>3. CASE ~NoBlock(text[src]) /\ MaskedBlock(Type(text[src]), MaskOf(Type(text[src])))
      <4> DEFINE k == Type(text[src])
      <4>1. k \in 1 .. 3  BY <1>1, <3>3, BlockClass
      <4>2. MaskedBlock(k, MaskOf(k))  BY <3>3
      <4> HIDE DEF k
      <4>. QED  BY <1>1, <1>2, <2>1, <4>1, <4>2, MaskOfIs, MaskedKeeps
    <3>. QED  BY <3>1, <3>2, <3>3
  <2>. QED  BY <2>2, <2>3
<1>. QED  BY <1>4, <1>5 DEF ByMask

LEMMA CloseKeeps == ASSUME IInv, Close PROVE IInv'
<1>1. label = "close" /\ label' = "returned" /\ UNCHANGED <<isa, width, text, isKey, class, src, mask>>
  BY DEF Close
<1>2. PICK counts \in {2, 3}, stores \in {2, 4} :
        /\ stores = 4 => isKey
        /\ out' = [out EXCEPT ![writer] = Quote, ![writer + 1] = Behind]
        /\ writer' = writer + counts /\ reach' = Farther(reach, writer + stores)
  <2>1. PICK indented \in BOOLEAN :
          LET counts == IF isKey /\ indented THEN 3 ELSE 2
              stores == IF isKey /\ indented THEN 4 ELSE 2
          IN  /\ out' = [out EXCEPT ![writer] = Quote, ![writer + 1] = Behind]
              /\ writer' = writer + counts /\ reach' = Farther(reach, writer + stores)
    BY DEF Close
  <2>2. CASE isKey /\ indented  BY <2>1, <2>2
  <2>3. CASE ~ (isKey /\ indented)  BY <2>1, <2>3
  <2>. QED  BY <2>2, <2>3
<1>3. src = Chars + 1 /\ Ready(src, out, writer, reach) /\ Chars \in Nat /\ Padding \in Nat /\ Batch \in Nat
  BY <1>1, Now DEF Placed
<1>4. writer \in Nat /\ writer >= 1 /\ writer <= 1 + 6 * Chars /\ reach \in Nat /\ src - 1 = Chars
  BY <1>3 DEF Ready
<1>5. writer \in DOMAIN out /\ writer # writer + 1  BY <1>3, <1>4 DEF Ready
<1>6. out'[writer] = Quote  BY <1>2, <1>5
<1>7. \A b \in 0 .. writer - 1 : out'[b] = out[b]
  <2>1. TAKE b \in 0 .. writer - 1
  <2>2. b # writer /\ b # writer + 1  BY <1>4
  <2>3. b \in DOMAIN out  BY <1>3, <1>4 DEF Ready
  <2>. QED  BY <1>2, <2>2, <2>3
<1>8. Spells(out', Chars, writer)
  <2>1. Spells(out, Chars, writer)  BY <1>3, <1>4 DEF Ready
  <2>. QED  BY <1>4, <1>7, <2>1, StillSpells
<1>9. writer \in {writer' - 2, writer' - 3}  BY <1>2, <1>4
<1>10. reach' <= Limit
  <2>1. writer + stores \in Nat /\ writer + stores <= Limit /\ Limit \in Nat
    <3>1. Over \in Nat /\ Limit \in Nat /\ Limit >= (IF isKey THEN 5 ELSE 3) + 6 * Chars + Padding + Over
      BY <1>1, Now, LimitIs
    <3>2. CASE isKey  BY <1>2, <1>3, <1>4, <3>1, <3>2
    <3>3. CASE ~isKey  BY <1>2, <1>3, <1>4, <3>1, <3>3
    <3>. QED  BY <3>2, <3>3
  <2>2. reach <= Limit  BY <1>3 DEF Ready
  <2>. QED  BY <1>2, <1>4, <2>1, <2>2, FartherIs
<1>11. \A i \in 1 .. Chars : ~IsSurrogate(text[i])  BY <1>3, <1>4 DEF Ready
<1>12. Returned(src', out', writer', reach')  BY <1>1, <1>3, <1>6, <1>8, <1>9, <1>10, <1>11 DEF Returned
<1>13. State(label', class', src', mask', out', writer', reach')
  BY <1>1, <1>12, Now DEF State, Masked, Placed, Labels
<1>. QED  BY <1>1, <1>13, Now, Kept

-----------------------------------------------------------------------------
(* The theorems.                                                           *)

LEMMA InitIInv == Init => IInv
<1> SUFFICES ASSUME Init PROVE IInv  OBVIOUS
<1>1. /\ isa \in Isas /\ width \in {1, 2, 4} /\ isKey \in BOOLEAN
      /\ text \in Texts(isa, width) /\ IsOfWidth(text, width)
      /\ label = "choose" /\ class = 0 /\ src = 1 /\ mask = {} /\ writer = 1 /\ reach = 1
      /\ out = [b \in 0 .. 6 * Len(text) + 4 * Batch + 8 |-> IF b = 0 THEN Quote ELSE Garbage]
  BY DEF Init
<1>2. InputOK  BY <1>1 DEF InputOK
<1>3. Chars \in Nat /\ Batch \in Nat /\ Padding \in Nat  BY <1>2, TextIs, BatchIs, SizesAssumption
<1>4. DOMAIN out = 0 .. 6 * Chars + 4 * Batch + 8  BY <1>1 DEF Chars
<1>5. out[0] = Quote
  <2>1. 0 \in 0 .. 6 * Len(text) + 4 * Batch + 8  BY <1>3 DEF Chars
  <2>. QED  BY <1>1, <2>1
<1>6. Spells(out, src - 1, writer)
  <2>1. BytesOf(0) = 1 /\ Quote = <<0, 1>> /\ src - 1 = 0 /\ writer - 1 = 0  BY <1>1 DEF BytesOf, Quote
  <2>2. 1 .. writer - 1 = {}  BY <2>1
  <2>. QED  BY <1>5, <2>1, <2>2 DEF Spells
<1>7. Ready(src, out, writer, reach)
  <2>1. src \in 1 .. Chars + 1 /\ writer \in Nat /\ writer >= 1 /\ writer <= 1 + 6 * (src - 1) /\ reach \in Nat
        /\ 1 .. src - 1 = {}
    BY <1>1, <1>3
  <2>2. reach <= Limit  BY <1>1, <1>2, <1>3, LimitIs
  <2>. QED  BY <1>4, <1>6, <2>1, <2>2 DEF Ready
<1>. QED  BY <1>1, <1>2, <1>7 DEF IInv, State, Placed, Masked, Labels

LEMMA NextIInv == IInv /\ [Next]_vars => IInv'
<1> SUFFICES ASSUME IInv, [Next]_vars PROVE IInv'  OBVIOUS
<1>1. CASE UNCHANGED vars
  <2>1. State(label', class', src', mask', out', writer', reach')  BY <1>1 DEF IInv, vars
  <2>. QED  BY <1>1, <2>1, Kept DEF IInv, vars
<1>2. CASE Next
  <2>1. CASE BytesWriteUcs1 \/ BytesWriteUcs2 \/ BytesWriteUcs4  BY <2>1, ChooseKeeps
  <2>2. CASE EncodeOneOfLoop  BY <2>2, EncodeOneOfLoopKeeps
  <2>3. CASE Loop4  BY <2>3, Loop4sKeep
  <2>4. CASE Loop  BY <2>4, LoopsKeep
  <2>5. CASE LoopEnd  BY <2>5, LoopEndKeeps
  <2>6. CASE Narrow  BY <2>6, NarrowKeeps
  <2>7. CASE Wide  BY <2>7, WideKeeps
  <2>8. CASE ByMask  BY <2>8, ByMaskKeeps
  <2>9. CASE Close  BY <2>9, CloseKeeps
  <2>. QED  BY <1>2, <2>1, <2>2, <2>3, <2>4, <2>5, <2>6, <2>7, <2>8, <2>9
            DEF Next, Loop4, Loop, Narrow, Wide, ByMask
<1>. QED  BY <1>1, <1>2

LEMMA Invariant == Spec => []IInv
  BY InitIInv, NextIInv, PTL DEF Spec

\* However a text is cut into vectors, whatever was stored too far and written
\* over, and wherever the loops and blocks are left: the bytes behind the
\* quote are the UTF-8 of the characters read, and a surrogate fails.
THEOREM BytesAreRight == Spec => []BytesAreUtf8
<1>1. IInv => BytesAreUtf8
  <2> SUFFICES ASSUME IInv PROVE BytesAreUtf8  OBVIOUS
  <2>1. State(label, class, src, mask, out, writer, reach)  BY DEF IInv
  <2>2. CASE label # "returned"
    <3>1. Ready(src, out, writer, reach)  BY <2>1, <2>2 DEF State
    <3>2. label = "failed" => \E i \in src .. Chars : IsSurrogate(text[i])  BY <2>1 DEF State
    <3>. QED  BY <2>2, <3>1, <3>2 DEF BytesAreUtf8, Ready, Chars
  <2>3. CASE label = "returned"
    <3>1. Returned(src, out, writer, reach)  BY <2>1, <2>3 DEF State
    <3>2. src - 1 = Chars /\ Chars \in Nat
      <4>1. Chars \in Nat  BY TextIs DEF IInv
      <4>. QED  BY <3>1, <4>1 DEF Returned
    <3>. QED  BY <2>3, <3>1, <3>2 DEF BytesAreUtf8, Returned, Chars
  <2>. QED  BY <2>2, <2>3
<1>. QED  BY <1>1, Invariant, PTL

\* In every copy, however a text is cut into vectors and blocks, no store goes
\* past the reserve, or further past it than one for the AVX-512 copy and UCS2,
\* for all sizes of vectors whose longest store fits the padding (RoomAssumption).
THEOREM StoresFit == Spec => []StaysInReserve
<1>1. IInv => StaysInReserve
  <2> SUFFICES ASSUME IInv PROVE StaysInReserve  OBVIOUS
  <2>1. State(label, class, src, mask, out, writer, reach)  BY DEF IInv
  <2>2. CASE label # "returned"
    <3>1. Ready(src, out, writer, reach)  BY <2>1, <2>2 DEF State
    <3>. QED  BY <3>1 DEF Ready, StaysInReserve, Limit, Over
  <2>3. CASE label = "returned"
    <3>1. Returned(src, out, writer, reach)  BY <2>1, <2>3 DEF State
    <3>. QED  BY <3>1 DEF Returned, StaysInReserve, Limit, Over
  <2>. QED  BY <2>2, <2>3
<1>. QED  BY <1>1, Invariant, PTL

-----------------------------------------------------------------------------
(***************************************************************************)
(* What write_u64 leaves, for every number of 64 bits.                     *)
(*                                                                         *)
(* A number of up to eight digits is four pairs of digits (OfPairs), and   *)
(* the divisions give the pairs back.  Each copy puts one pair down and    *)
(* leaves what is before it (PairStep); the first pair may be one digit,   *)
(* and the digit too many behind it is written over by the next pair       *)
(* (FirstIs).  The numerals are kept behind definitions.                   *)
(***************************************************************************)
IsMemory(mem) == mem = [q \in Offsets |-> mem[q]]

\* x and y are at p and the rest is left alone.
Copied(m, mem, p, x, y) ==
  /\ IsMemory(m) /\ m[p] = x /\ m[p + 1] = y
  /\ \A q \in Offsets : q # p /\ q # p + 1 => m[q] = mem[q]

LEMMA TableIs ==
  ASSUME NEW v \in 0 .. 99
  PROVE  DigitTable[v * 2] = v \div 10 /\ DigitTable[v * 2 + 1] = v % 10
<1>1. v * 2 \in 0 .. 199 /\ v * 2 + 1 \in 0 .. 199  OBVIOUS
<1>2. (v * 2) % 2 = 0 /\ (v * 2) \div 20 = v \div 10 /\ (v * 2 + 1) % 2 = 1
      /\ (v * 2 + 1) \div 2 = v
  BY SMT
<1>. QED  BY <1>1, <1>2, SMT DEF DigitTable

LEMMA CopyIs ==
  ASSUME NEW mem, NEW p \in 0 .. 30, NEW i, IsMemory(mem)
  PROVE  Copied(Copy2(mem, p, i), mem, p, DigitTable[i], DigitTable[i + 1])
<1>1. p \in Offsets /\ p + 1 \in Offsets /\ p # p + 1  BY SMT DEF Offsets
<1>2. PICK a : a = [mem EXCEPT ![p] = DigitTable[i]]  OBVIOUS
<1>3. a = [q \in Offsets |-> IF q = p THEN DigitTable[i] ELSE mem[q]]
  BY <1>1, <1>2, SMT DEF IsMemory
<1>4. a = [q \in Offsets |-> a[q]]  BY <1>3
<1>5. Copy2(mem, p, i) = [a EXCEPT ![p + 1] = DigitTable[i + 1]]  BY <1>2, SMT DEF Copy2
<1>6. Copy2(mem, p, i) = [q \in Offsets |-> IF q = p + 1 THEN DigitTable[i + 1] ELSE a[q]]
  BY <1>1, <1>4, <1>5, SMT
<1>. QED  BY <1>1, <1>3, <1>6, SMT DEF IsMemory, Copied

\* The pair v is copied to p.
LEMMA PairIs ==
  ASSUME NEW mem, NEW p \in 0 .. 30, NEW v \in 0 .. 99, IsMemory(mem)
  PROVE  Copied(Copy2(mem, p, v * 2), mem, p, v \div 10, v % 10)
<1>1. PICK i : i = v * 2  OBVIOUS
<1>2. DigitTable[i] = v \div 10 /\ DigitTable[i + 1] = v % 10  BY <1>1, TableIs
<1>3. Copied(Copy2(mem, p, i), mem, p, v \div 10, v % 10)  BY <1>2, CopyIs
<1>. QED  BY <1>1, <1>3

\* The second of the pair v is copied to p, and a digit too many behind it.
LEMMA LastOfPairIs ==
  ASSUME NEW mem, NEW p \in 0 .. 30, NEW v \in 0 .. 99, IsMemory(mem)
  PROVE  \E y : Copied(Copy2(mem, p, v * 2 + 1), mem, p, v % 10, y)
<1>1. PICK i : i = v * 2 + 1  OBVIOUS
<1>2. DigitTable[i] = v % 10  BY <1>1, TableIs
<1>3. Copied(Copy2(mem, p, i), mem, p, v % 10, DigitTable[i + 1])  BY <1>2, CopyIs
<1>. QED  BY <1>1, <1>3

\* Numbers by their halves.
Twos(a, b) == a * 100 + b
OfFours(hi, lo) == hi * 10000 + lo
OfPairs(aa, bb, cc, dd) == OfFours(Twos(aa, bb), Twos(cc, dd))
HighOf(v) == v \div 10000
LowOf(v) == v % 10000

LEMMA SplitPairs == ASSUME NEW x \in Fours PROVE \E a, b \in 0 .. 99 : x = Twos(a, b)
<1>1. x \div 100 \in 0 .. 99 /\ x % 100 \in 0 .. 99 /\ x = Twos(x \div 100, x % 100)
  BY SMT DEF Fours, Twos
<1>. QED  BY <1>1

LEMMA QuotientsAre == ASSUME NEW v \in Nat
                      PROVE  HighOf(v) \in Nat /\ LowOf(v) \in Fours /\ v = OfFours(HighOf(v), LowOf(v))
<1>1. /\ v \div 10000 \in Nat /\ v % 10000 \in Nat /\ v % 10000 <= 9999
      /\ v = 10000 * (v \div 10000) + (v % 10000)
  BY SMT
<1>. QED  BY <1>1, SMT DEF Fours, OfFours, HighOf, LowOf

LEMMA HalvesAre == ASSUME NEW v \in Eights
                   PROVE  HighOf(v) \in Fours /\ LowOf(v) \in Fours /\ v = OfFours(HighOf(v), LowOf(v))
<1>1. v \in Nat /\ v <= 99999999  BY SMT DEF Eights
<1>2. HighOf(v) \in Nat /\ LowOf(v) \in Fours /\ v = OfFours(HighOf(v), LowOf(v))
  BY <1>1, QuotientsAre, SMT
<1> DEFINE hi == HighOf(v)
           lo == LowOf(v)
<1>3. hi \in Nat /\ lo \in Nat /\ lo <= 9999 /\ v = hi * 10000 + lo  BY <1>2, SMT DEF Fours, OfFours
<1>. HIDE DEF hi, lo
<1>4. hi <= 9999  BY <1>1, <1>3, SMT
<1>5. hi \in Fours  BY <1>3, <1>4, SMT DEF Fours
<1>. QED  BY <1>2, <1>5, SMT DEF hi, lo

LEMMA SplitFours == ASSUME NEW v \in Eights PROVE \E hi, lo \in Fours : v = OfFours(hi, lo)
  BY HalvesAre

LEMMA SplitDigits ==
  ASSUME NEW x \in 0 .. 99
  PROVE  \E a, b \in 0 .. 9 : x = a * 10 + b /\ x \div 10 = a /\ x % 10 = b
<1>1. x \div 10 \in 0 .. 9 /\ x % 10 \in 0 .. 9 /\ x = (x \div 10) * 10 + (x % 10)  BY SMT
<1>. QED  BY <1>1

LEMMA Split ==
  ASSUME NEW v \in Eights
  PROVE  \E aa, bb, cc, dd \in 0 .. 99 : v = OfPairs(aa, bb, cc, dd)
<1>1. PICK hi, lo \in Fours : v = OfFours(hi, lo)  BY SplitFours
<1>2. PICK aa, bb \in 0 .. 99 : hi = Twos(aa, bb)  BY SplitPairs
<1>3. PICK cc, dd \in 0 .. 99 : lo = Twos(cc, dd)  BY SplitPairs
<1>4. v = OfPairs(aa, bb, cc, dd)  BY <1>1, <1>2, <1>3 DEF OfPairs
<1>. QED  BY <1>4

\* Digit k of v, from the right and beginning with 1.
Digit(v, k) == (v \div Power[k]) % 10

DigitsOfPairs(v, aa, bb, cc, dd) ==
  /\ Digit(v, 8) = aa \div 10 /\ Digit(v, 7) = aa % 10
  /\ Digit(v, 6) = bb \div 10 /\ Digit(v, 5) = bb % 10
  /\ Digit(v, 4) = cc \div 10 /\ Digit(v, 3) = cc % 10
  /\ Digit(v, 2) = dd \div 10 /\ Digit(v, 1) = dd % 10

LEMMA DigitsAre ==
  ASSUME NEW aa \in 0 .. 99, NEW bb \in 0 .. 99, NEW cc \in 0 .. 99, NEW dd \in 0 .. 99,
         NEW v, v = OfPairs(aa, bb, cc, dd)
  PROVE  DigitsOfPairs(v, aa, bb, cc, dd)
<1>1. PICK a, b \in 0 .. 9 : aa = a * 10 + b /\ aa \div 10 = a /\ aa % 10 = b  BY SplitDigits
<1>2. PICK c, d \in 0 .. 9 : bb = c * 10 + d /\ bb \div 10 = c /\ bb % 10 = d  BY SplitDigits
<1>3. PICK e, f \in 0 .. 9 : cc = e * 10 + f /\ cc \div 10 = e /\ cc % 10 = f  BY SplitDigits
<1>4. PICK g, h \in 0 .. 9 : dd = g * 10 + h /\ dd \div 10 = g /\ dd % 10 = h  BY SplitDigits
<1>5. v \in Nat  BY SMT DEF OfPairs, OfFours, Twos
<1> DEFINE n == v
<1>. HIDE DEF n
<1>6. n \in Nat /\ n = a * 10000000 + b * 1000000 + c * 100000 + d * 10000 + e * 1000 + f * 100 + g * 10 + h
  BY <1>1, <1>2, <1>3, <1>4, <1>5, SMT DEF OfPairs, OfFours, Twos, n
<1>7. /\ n \div 10000000 = a
      /\ n \div 1000000 = a * 10 + b
      /\ n \div 100000 = a * 100 + b * 10 + c
      /\ n \div 10000 = a * 1000 + b * 100 + c * 10 + d
      /\ n \div 1000 = a * 10000 + b * 1000 + c * 100 + d * 10 + e
      /\ n \div 100 = a * 100000 + b * 10000 + c * 1000 + d * 100 + e * 10 + f
      /\ n \div 10 = a * 1000000 + b * 100000 + c * 10000 + d * 1000 + e * 100 + f * 10 + g
      /\ n \div 1 = n
  BY <1>6, SMT
<1>8. /\ (n \div 10000000) % 10 = a /\ (n \div 1000000) % 10 = b
      /\ (n \div 100000) % 10 = c /\ (n \div 10000) % 10 = d
      /\ (n \div 1000) % 10 = e /\ (n \div 100) % 10 = f
      /\ (n \div 10) % 10 = g /\ (n \div 1) % 10 = h
  BY <1>6, <1>7, SMT
<1>9. /\ Power[8] = 10000000 /\ Power[7] = 1000000 /\ Power[6] = 100000 /\ Power[5] = 10000
      /\ Power[4] = 1000 /\ Power[3] = 100 /\ Power[2] = 10 /\ Power[1] = 1
  BY SMT DEF Power
<1>. QED  BY <1>1, <1>2, <1>3, <1>4, <1>8, <1>9, SMT DEF Digit, DigitsOfPairs, n

-----------------------------------------------------------------------------
LEMMA TwosBack ==
  ASSUME NEW a \in 0 .. 99, NEW b \in 0 .. 99
  PROVE  Twos(a, b) \in Fours /\ By100(Twos(a, b)) = a /\ Twos(a, b) - a * 100 = b
<1> DEFINE x == a * 100 + b
<1>1. x \in 0 .. 9999 /\ x <= 9999 /\ x \in Nat /\ x \div 100 = a /\ x - a * 100 = b  BY SMT
<1>. HIDE DEF x
<1>2. By100(x) = a  BY SMT DEF By100, x
<1>3. Twos(a, b) = x  BY SMT DEF Twos, x
<1>. QED  BY <1>1, <1>2, <1>3, SMT DEF Fours

LEMMA FoursBack ==
  ASSUME NEW hi \in Fours, NEW lo \in Fours
  PROVE  /\ OfFours(hi, lo) \in Eights
         /\ By10000(OfFours(hi, lo)) = hi /\ OfFours(hi, lo) - hi * 10000 = lo
<1>1. hi \in Nat /\ hi <= 9999 /\ lo \in Nat /\ lo <= 9999  BY SMT DEF Fours
<1>2. PICK x : x = OfFours(hi, lo)  OBVIOUS
<1>3. x \in Nat /\ x <= 99999999 /\ 10000 * hi <= x /\ x < 10000 * hi + 10000 /\ x - hi * 10000 = lo
  BY <1>1, <1>2, SMT DEF OfFours
<1>4. x \div 10000 = hi  BY <1>1, <1>3, QuotientIs, SMT
<1>5. By10000(x) = hi  BY <1>3, <1>4, By10000Exact, SMT
<1>. QED  BY <1>2, <1>3, <1>5, SMT DEF Eights

LEMMA SixBack ==
  ASSUME NEW hi \in 0 .. 99, NEW lo \in Fours
  PROVE  By10000OfSix(OfFours(hi, lo)) = hi
<1>1. lo \in Nat /\ lo <= 9999  BY SMT DEF Fours
<1>2. PICK x : x = OfFours(hi, lo)  OBVIOUS
<1>3. x \in Nat /\ x <= 999999 /\ 10000 * hi <= x /\ x < 10000 * hi + 10000
  BY <1>1, <1>2, SMT DEF OfFours
<1>4. x \div 10000 = hi  BY <1>1, <1>3, QuotientIs, SMT
<1>5. By10000OfSix(x) = hi  BY <1>3, <1>4, By10000OfSixExact, SMT
<1>. QED  BY <1>2, <1>5, SMT

\* The pair v stands at p; memory is the same before p.
PairAt(m, p, v) == m[p] = v \div 10 /\ m[p + 1] = v % 10
KeptBelow(m, mem, p) == IsMemory(m) /\ \A i \in Offsets : i < p => m[i] = mem[i]

LEMMA PairStep ==
  ASSUME NEW mem, NEW p \in 0 .. 30, NEW v \in 0 .. 99, IsMemory(mem),
         NEW m, m = Copy2(mem, p, v * 2)
  PROVE  KeptBelow(m, mem, p) /\ PairAt(m, p, v)
<1>1. Copied(m, mem, p, v \div 10, v % 10)  BY PairIs
<1>. QED  BY <1>1, SMT DEF Copied, KeptBelow, PairAt, Offsets

LEMMA KeepsPair ==
  ASSUME NEW m, NEW mem, NEW p \in Int, NEW q \in 0 .. 30, NEW v,
         KeptBelow(m, mem, p), PairAt(mem, q, v), q + 2 <= p
  PROVE  PairAt(m, q, v)
<1>1. q \in Offsets /\ q + 1 \in Offsets /\ q < p /\ q + 1 < p  BY SMT DEF Offsets
<1>. QED  BY <1>1, SMT DEF KeptBelow, PairAt

LEMMA StillKept ==
  ASSUME NEW m, NEW a, NEW mem, NEW p \in Int, NEW q \in Int, KeptBelow(m, a, p), KeptBelow(a, mem, q), q <= p
  PROVE  KeptBelow(m, mem, q)
  BY SMT DEF KeptBelow, Offsets

\* Two and three pairs in a row.
LEMMA TwoPairs ==
  ASSUME NEW mem, NEW p \in 0 .. 28, NEW x \in 0 .. 99, NEW y \in 0 .. 99, IsMemory(mem),
         NEW m, m = Copy2(Copy2(mem, p, x * 2), p + 2, y * 2)
  PROVE  KeptBelow(m, mem, p) /\ PairAt(m, p, x) /\ PairAt(m, p + 2, y)
<1>1. PICK a : a = Copy2(mem, p, x * 2)  OBVIOUS
<1>2. p \in 0 .. 30 /\ p + 2 \in 0 .. 30 /\ p \in Int /\ p + 2 \in Int /\ p + 2 <= p + 2 /\ p <= p + 2
  BY SMT
<1>3. KeptBelow(a, mem, p) /\ PairAt(a, p, x)  BY <1>1, <1>2, PairStep
<1>4. IsMemory(a) /\ m = Copy2(a, p + 2, y * 2)  BY <1>1, <1>3 DEF KeptBelow
<1>5. KeptBelow(m, a, p + 2) /\ PairAt(m, p + 2, y)  BY <1>2, <1>4, PairStep
<1>6. PairAt(m, p, x)  BY <1>2, <1>3, <1>5, KeepsPair
<1>7. KeptBelow(m, mem, p)  BY <1>2, <1>3, <1>5, StillKept
<1>. QED  BY <1>5, <1>6, <1>7

LEMMA ThreePairs ==
  ASSUME NEW mem, NEW p \in 0 .. 26, NEW x \in 0 .. 99, NEW y \in 0 .. 99, NEW z \in 0 .. 99,
         IsMemory(mem), NEW m, m = Copy2(Copy2(Copy2(mem, p, x * 2), p + 2, y * 2), p + 4, z * 2)
  PROVE  KeptBelow(m, mem, p) /\ PairAt(m, p, x) /\ PairAt(m, p + 2, y) /\ PairAt(m, p + 4, z)
<1>1. PICK a : a = Copy2(Copy2(mem, p, x * 2), p + 2, y * 2)  OBVIOUS
<1>2. /\ p \in 0 .. 28 /\ p \in 0 .. 30 /\ p + 2 \in 0 .. 30 /\ p + 4 \in 0 .. 30 /\ p \in Int
      /\ p + 4 \in Int /\ p + 2 <= p + 4 /\ (p + 2) + 2 <= p + 4 /\ p <= p + 4
  BY SMT
<1>3. KeptBelow(a, mem, p) /\ PairAt(a, p, x) /\ PairAt(a, p + 2, y)  BY <1>1, <1>2, TwoPairs
<1>4. IsMemory(a) /\ m = Copy2(a, p + 4, z * 2)  BY <1>1, <1>3 DEF KeptBelow
<1>5. KeptBelow(m, a, p + 4) /\ PairAt(m, p + 4, z)  BY <1>2, <1>4, PairStep
<1>6. PairAt(m, p, x)  BY <1>2, <1>3, <1>5, KeepsPair
<1>7. PairAt(m, p + 2, y)  BY <1>2, <1>3, <1>5, KeepsPair
<1>8. KeptBelow(m, mem, p)  BY <1>2, <1>3, <1>5, StillKept
<1>. QED  BY <1>5, <1>6, <1>7, <1>8

-----------------------------------------------------------------------------
(* Digits shown are the last n of v when each of them stands in its place. *)

Buffer(mem, p) == [mem |-> mem, at |-> p]

\* The last n digits of the four pairs end at e.
DigitsPlaced(m, e, n, aa, bb, cc, dd) ==
  /\ m[e - 1] = dd % 10
  /\ n >= 2 => m[e - 2] = dd \div 10
  /\ n >= 3 => m[e - 3] = cc % 10
  /\ n >= 4 => m[e - 4] = cc \div 10
  /\ n >= 5 => m[e - 5] = bb % 10
  /\ n >= 6 => m[e - 6] = bb \div 10
  /\ n >= 7 => m[e - 7] = aa % 10
  /\ n >= 8 => m[e - 8] = aa \div 10

ShowsTo(m, e, v, n) == Shows(m, e - n, v, n)

LEMMA PlacedShows ==
  ASSUME NEW aa \in 0 .. 99, NEW bb \in 0 .. 99, NEW cc \in 0 .. 99, NEW dd \in 0 .. 99,
         NEW v, v = OfPairs(aa, bb, cc, dd),
         NEW m, NEW e \in Int, NEW n \in 1 .. 8, DigitsPlaced(m, e, n, aa, bb, cc, dd)
  PROVE  ShowsTo(m, e, v, n)
<1>1. DigitsOfPairs(v, aa, bb, cc, dd)  BY DigitsAre
<1>2. ASSUME NEW k \in 1 .. n PROVE m[e - k] = Digit(v, k)
  <2>1. k = 1 \/ k = 2 \/ k = 3 \/ k = 4 \/ k = 5 \/ k = 6 \/ k = 7 \/ k = 8  BY SMT
  <2>. QED  BY <1>1, <2>1, SMT DEF DigitsPlaced, DigitsOfPairs
<1>3. ASSUME NEW i \in 0 .. n - 1 PROVE m[(e - n) + i] = (v \div Power[n - i]) % 10
  <2>1. PICK k : k = n - i  OBVIOUS
  <2>2. k \in 1 .. n /\ e - k = (e - n) + i  BY <2>1, SMT
  <2>3. m[e - k] = Digit(v, k)  BY <1>2, <2>2
  <2>. QED  BY <2>1, <2>2, <2>3, SMT DEF Digit
<1>. QED  BY <1>3, SMT DEF Shows, ShowsTo

\* write_u32_len_8, at any offset.
LEMMA Len8Is ==
  ASSUME NEW mem, NEW p \in 0 .. 24, NEW v \in Eights, IsMemory(mem),
         NEW r, r = WriteLen8(v, Buffer(mem, p))
  PROVE  KeptBelow(r.mem, mem, p) /\ r.at = p + 8 /\ Shows(r.mem, p, v, 8)
<1>1. PICK aa, bb, cc, dd \in 0 .. 99 : v = OfPairs(aa, bb, cc, dd)  BY Split
<1>2. PICK hi, lo : hi = Twos(aa, bb) /\ lo = Twos(cc, dd)  OBVIOUS
<1>3. /\ hi \in Fours /\ By100(hi) = aa /\ hi - aa * 100 = bb
      /\ lo \in Fours /\ By100(lo) = cc /\ lo - cc * 100 = dd
  BY <1>2, TwosBack
<1>4. By10000(v) = hi /\ v - hi * 10000 = lo  BY <1>1, <1>2, <1>3, FoursBack DEF OfPairs
<1>5. PICK a : a = Copy2(mem, p, aa * 2)  OBVIOUS
<1>6. PICK m : m = r.mem  OBVIOUS
<1>7. m = Copy2(Copy2(Copy2(a, p + 2, bb * 2), p + 4, cc * 2), p + 6, dd * 2) /\ r.at = p + 8
  BY <1>3, <1>4, <1>5, <1>6, SMT DEF WriteLen8, Buffer
<1>8. /\ p \in 0 .. 30 /\ p + 2 \in 0 .. 26 /\ (p + 2) + 2 = p + 4 /\ (p + 2) + 4 = p + 6
      /\ p \in Int /\ p + 2 \in Int /\ p + 2 <= p + 2 /\ p <= p + 2
  BY SMT
<1>9. KeptBelow(a, mem, p) /\ PairAt(a, p, aa)  BY <1>5, <1>8, PairStep
<1>10. IsMemory(a)  BY <1>9 DEF KeptBelow
<1>11. PICK q \in 0 .. 26 : q = p + 2 /\ q + 2 = p + 4 /\ q + 4 = p + 6 /\ q \in Int /\ p <= q
  BY <1>8
<1>12. m = Copy2(Copy2(Copy2(a, q, bb * 2), q + 2, cc * 2), q + 4, dd * 2)  BY <1>7, <1>11
<1>13. KeptBelow(m, a, q) /\ PairAt(m, q, bb) /\ PairAt(m, q + 2, cc) /\ PairAt(m, q + 4, dd)
  BY <1>10, <1>12, ThreePairs
<1>14. p + 2 <= q  BY <1>11, SMT
<1>15. PairAt(m, p, aa)  BY <1>8, <1>9, <1>11, <1>13, <1>14, KeepsPair
<1>16. KeptBelow(m, mem, p)  BY <1>8, <1>9, <1>11, <1>13, StillKept
<1>17. DigitsPlaced(m, p + 8, 8, aa, bb, cc, dd)  BY <1>11, <1>13, <1>15, SMT DEF PairAt, DigitsPlaced
<1>18. p + 8 \in Int /\ 8 \in 1 .. 8 /\ (p + 8) - 8 = p  BY SMT
<1>19. ShowsTo(m, p + 8, v, 8)  BY <1>1, <1>17, <1>18, PlacedShows
<1>. QED  BY <1>6, <1>7, <1>16, <1>18, <1>19 DEF ShowsTo

\* write_u32_len_4.
LEMMA Len4Is ==
  ASSUME NEW mem, NEW p \in 0 .. 24, NEW v \in Fours, IsMemory(mem),
         NEW r, r = WriteLen4(v, Buffer(mem, p))
  PROVE  KeptBelow(r.mem, mem, p) /\ r.at = p + 4 /\ Shows(r.mem, p, v, 4)
<1>1. PICK cc, dd \in 0 .. 99 : v = Twos(cc, dd)  BY SplitPairs
<1>2. By100(v) = cc /\ v - cc * 100 = dd  BY <1>1, TwosBack
<1>3. v = OfPairs(0, 0, cc, dd) /\ 0 \in 0 .. 99  BY <1>1, SMT DEF OfPairs, OfFours, Twos
<1>4. PICK m : m = r.mem  OBVIOUS
<1>5. m = Copy2(Copy2(mem, p, cc * 2), p + 2, dd * 2) /\ r.at = p + 4
  BY <1>2, <1>4, SMT DEF WriteLen4, Buffer
<1>6. p \in 0 .. 28  BY SMT
<1>7. KeptBelow(m, mem, p) /\ PairAt(m, p, cc) /\ PairAt(m, p + 2, dd)  BY <1>5, <1>6, TwoPairs
<1>8. DigitsPlaced(m, p + 4, 4, 0, 0, cc, dd)  BY <1>7, SMT DEF PairAt, DigitsPlaced
<1>9. p + 4 \in Int /\ 4 \in 1 .. 8 /\ (p + 4) - 4 = p  BY SMT
<1>10. ShowsTo(m, p + 4, v, 4)  BY <1>3, <1>8, <1>9, PlacedShows
<1>. QED  BY <1>4, <1>5, <1>7, <1>9, <1>10 DEF ShowsTo

-----------------------------------------------------------------------------
(* Numbers of one to eight digits, at the start of the buffer.             *)

Written(r, v) == IsMemory(r.mem) /\ HasDigits(v, r.at) /\ Shows(r.mem, 0, v, r.at)

\* The first of n digits is not zero, unless it is the only one.
Leads(n, aa, bb, cc, dd) ==
  \/ n = 1 /\ aa = 0 /\ bb = 0 /\ cc = 0 /\ dd < 10
  \/ n = 2 /\ aa = 0 /\ bb = 0 /\ cc = 0 /\ dd >= 10
  \/ n = 3 /\ aa = 0 /\ bb = 0 /\ cc > 0 /\ cc < 10
  \/ n = 4 /\ aa = 0 /\ bb = 0 /\ cc >= 10
  \/ n = 5 /\ aa = 0 /\ bb > 0 /\ bb < 10
  \/ n = 6 /\ aa = 0 /\ bb >= 10
  \/ n = 7 /\ aa > 0 /\ aa < 10
  \/ n = 8 /\ aa >= 10

LEMMA PowerIs ==
  /\ Power[8] = 10000000 /\ Power[7] = 1000000 /\ Power[6] = 100000 /\ Power[5] = 10000
  /\ Power[4] = 1000 /\ Power[3] = 100 /\ Power[2] = 10 /\ Power[1] = 1 /\ Power[9] = 100000000
  BY SMT DEF Power

LEMMA LeadsIs ==
  ASSUME NEW aa \in 0 .. 99, NEW bb \in 0 .. 99, NEW cc \in 0 .. 99, NEW dd \in 0 .. 99,
         NEW v, v = OfPairs(aa, bb, cc, dd), NEW n, Leads(n, aa, bb, cc, dd)
  PROVE  n \in 1 .. 8 /\ HasDigits(v, n)
<1>1. v = aa * 1000000 + bb * 10000 + cc * 100 + dd /\ v \in Nat  BY SMT DEF OfPairs, OfFours, Twos
<1>2. CASE n = 1  BY <1>1, <1>2, PowerIs, SMT DEF Leads, HasDigits
<1>3. CASE n = 2  BY <1>1, <1>3, PowerIs, SMT DEF Leads, HasDigits
<1>4. CASE n = 3  BY <1>1, <1>4, PowerIs, SMT DEF Leads, HasDigits
<1>5. CASE n = 4  BY <1>1, <1>5, PowerIs, SMT DEF Leads, HasDigits
<1>6. CASE n = 5  BY <1>1, <1>6, PowerIs, SMT DEF Leads, HasDigits
<1>7. CASE n = 6  BY <1>1, <1>7, PowerIs, SMT DEF Leads, HasDigits
<1>8. CASE n = 7  BY <1>1, <1>8, PowerIs, SMT DEF Leads, HasDigits
<1>9. CASE n = 8  BY <1>1, <1>9, PowerIs, SMT DEF Leads, HasDigits
<1>. QED  BY <1>2, <1>3, <1>4, <1>5, <1>6, <1>7, <1>8, <1>9, SMT DEF Leads

LEMMA WrittenIs ==
  ASSUME NEW aa \in 0 .. 99, NEW bb \in 0 .. 99, NEW cc \in 0 .. 99, NEW dd \in 0 .. 99,
         NEW v, v = OfPairs(aa, bb, cc, dd), NEW n, NEW m, Leads(n, aa, bb, cc, dd),
         IsMemory(m), DigitsPlaced(m, n, n, aa, bb, cc, dd)
  PROVE  Written(Buffer(m, n), v)
<1>1. n \in 1 .. 8 /\ HasDigits(v, n)  BY LeadsIs
<1>2. n \in Int /\ n \in 1 .. 8  BY <1>1, SMT
<1>3. ShowsTo(m, n, v, n)  BY <1>2, PlacedShows
<1>4. n - n = 0  BY <1>2, SMT
<1>5. Buffer(m, n).mem = m /\ Buffer(m, n).at = n  BY DEF Buffer
<1>. QED  BY <1>1, <1>3, <1>4, <1>5 DEF Written, ShowsTo

\* The first pair x at 0: both its digits, or the second alone.
First(mem, x) == Copy2(mem, 0, x * 2 + (IF x < 10 THEN 1 ELSE 0))
BehindFirst(x) == IF x < 10 THEN 1 ELSE 2
StartsWith(a, x) ==
  /\ x < 10 => BehindFirst(x) = 1 /\ a[0] = x % 10
  /\ x >= 10 => BehindFirst(x) = 2 /\ a[0] = x \div 10 /\ a[1] = x % 10

LEMMA FirstIs ==
  ASSUME NEW mem, NEW x \in 0 .. 99, IsMemory(mem), NEW a, a = First(mem, x)
  PROVE  IsMemory(a) /\ StartsWith(a, x)
<1>1. 0 \in 0 .. 30  OBVIOUS
<1>2. CASE x < 10
  <2>1. a = Copy2(mem, 0, x * 2 + 1)  BY <1>2, SMT DEF First
  <2>2. PICK y : Copied(a, mem, 0, x % 10, y)  BY <1>1, <2>1, LastOfPairIs
  <2>. QED  BY <1>2, <2>2, SMT DEF Copied, BehindFirst, StartsWith
<1>3. CASE x >= 10
  <2>1. a = Copy2(mem, 0, x * 2)  BY <1>3, SMT DEF First
  <2>2. Copied(a, mem, 0, x \div 10, x % 10)  BY <1>1, <2>1, PairIs
  <2>. QED  BY <1>3, <2>2, SMT DEF Copied, BehindFirst, StartsWith
<1>. QED  BY <1>2, <1>3, SMT

\* Up to 99.
LEMMA Len1To2Is ==
  ASSUME NEW mem, IsMemory(mem), NEW dd \in 0 .. 99
  PROVE  Written(WriteLen1To8(dd, Buffer(mem, 0)), dd)
<1>1. PICK m : m = First(mem, dd)  OBVIOUS
<1>2. IsMemory(m) /\ StartsWith(m, dd)  BY <1>1, FirstIs
<1>3. PICK n : n = BehindFirst(dd)  OBVIOUS
<1>4. WriteLen1To8(dd, Buffer(mem, 0)) = Buffer(m, n)
  BY <1>1, <1>3, SMT DEF WriteLen1To8, Buffer, First, BehindFirst
<1>5. dd = OfPairs(0, 0, 0, dd) /\ 0 \in 0 .. 99  BY SMT DEF OfPairs, OfFours, Twos
<1>6. Leads(n, 0, 0, 0, dd)  BY <1>2, <1>3, SMT DEF Leads, StartsWith
<1>7. DigitsPlaced(m, n, n, 0, 0, 0, dd)  BY <1>2, <1>3, SMT DEF DigitsPlaced, StartsWith
<1>8. Written(Buffer(m, n), dd)  BY <1>2, <1>5, <1>6, <1>7, WrittenIs
<1>. QED  BY <1>4, <1>8

\* From 100 to 9999.
LEMMA Len3To4Is ==
  ASSUME NEW mem, IsMemory(mem), NEW cc \in 0 .. 99, NEW dd \in 0 .. 99, cc > 0,
         NEW v, v = Twos(cc, dd)
  PROVE  Written(WriteLen1To8(v, Buffer(mem, 0)), v)
<1>1. PICK a : a = First(mem, cc)  OBVIOUS
<1>2. IsMemory(a) /\ StartsWith(a, cc)  BY <1>1, FirstIs
<1>3. PICK p \in 1 .. 2 : p = BehindFirst(cc)  BY SMT DEF BehindFirst
<1>4. PICK m : m = Copy2(a, p, dd * 2)  OBVIOUS
<1>5. By100(v) = cc /\ v - cc * 100 = dd  BY TwosBack
<1>6. PICK n : n = p + 2  OBVIOUS
<1>7. v >= 100 /\ v < 10000 /\ v \in Nat  BY SMT DEF Twos
<1>8. WriteLen1To8(v, Buffer(mem, 0)) = Buffer(m, n)
  BY <1>1, <1>3, <1>4, <1>5, <1>6, <1>7, SMT DEF WriteLen1To8, Buffer, First, BehindFirst
<1>9. p \in 0 .. 30  OBVIOUS
<1>10. KeptBelow(m, a, p) /\ PairAt(m, p, dd)  BY <1>2, <1>4, <1>9, PairStep
<1>11. v = OfPairs(0, 0, cc, dd) /\ 0 \in 0 .. 99  BY SMT DEF OfPairs, OfFours, Twos
<1>12. Leads(n, 0, 0, cc, dd)  BY <1>2, <1>3, <1>6, SMT DEF Leads, StartsWith
<1>13. DigitsPlaced(m, n, n, 0, 0, cc, dd)
  BY <1>2, <1>3, <1>6, <1>10, SMT DEF DigitsPlaced, StartsWith, PairAt, KeptBelow, Offsets
<1>14. IsMemory(m)  BY <1>10 DEF KeptBelow
<1>15. Written(Buffer(m, n), v)  BY <1>11, <1>12, <1>13, <1>14, WrittenIs
<1>. QED  BY <1>8, <1>15

\* From 10000 to 999999.
LEMMA Len5To6Is ==
  ASSUME NEW mem, IsMemory(mem), NEW bb \in 0 .. 99, NEW cc \in 0 .. 99, NEW dd \in 0 .. 99, bb > 0,
         NEW v, v = OfFours(bb, Twos(cc, dd))
  PROVE  Written(Write5To6(v, Buffer(mem, 0)), v)
<1>1. PICK a : a = First(mem, bb)  OBVIOUS
<1>2. IsMemory(a) /\ StartsWith(a, bb)  BY <1>1, FirstIs
<1>3. PICK p \in 1 .. 2 : p = BehindFirst(bb)  BY SMT DEF BehindFirst
<1>4. PICK m : m = Copy2(Copy2(a, p, cc * 2), p + 2, dd * 2)  OBVIOUS
<1>5. PICK lo : lo = Twos(cc, dd)  OBVIOUS
<1>6. lo \in Fours /\ By100(lo) = cc /\ lo - cc * 100 = dd  BY <1>5, TwosBack
<1>7. bb \in Fours  BY SMT DEF Fours
<1>8. By10000OfSix(v) = bb /\ v - bb * 10000 = lo  BY <1>5, <1>6, <1>7, SixBack, FoursBack
<1>9. PICK n : n = p + 4  OBVIOUS
<1>10. Write5To6(v, Buffer(mem, 0)) = Buffer(m, n)
  BY <1>1, <1>3, <1>4, <1>6, <1>8, <1>9, SMT DEF Write5To6, Buffer, First, BehindFirst
<1>11. p \in 0 .. 28  OBVIOUS
<1>12. KeptBelow(m, a, p) /\ PairAt(m, p, cc) /\ PairAt(m, p + 2, dd)  BY <1>2, <1>4, <1>11, TwoPairs
<1>13. v = OfPairs(0, bb, cc, dd) /\ 0 \in 0 .. 99  BY SMT DEF OfPairs, OfFours, Twos
<1>14. Leads(n, 0, bb, cc, dd)  BY <1>2, <1>3, <1>9, SMT DEF Leads, StartsWith
<1>15. DigitsPlaced(m, n, n, 0, bb, cc, dd)
  BY <1>2, <1>3, <1>9, <1>12, SMT DEF DigitsPlaced, StartsWith, PairAt, KeptBelow, Offsets
<1>16. IsMemory(m)  BY <1>12 DEF KeptBelow
<1>17. Written(Buffer(m, n), v)  BY <1>13, <1>14, <1>15, <1>16, WrittenIs
<1>. QED  BY <1>10, <1>17

\* From 1000000.
LEMMA Len7To8Is ==
  ASSUME NEW mem, IsMemory(mem),
         NEW aa \in 0 .. 99, NEW bb \in 0 .. 99, NEW cc \in 0 .. 99, NEW dd \in 0 .. 99, aa > 0,
         NEW v, v = OfPairs(aa, bb, cc, dd)
  PROVE  Written(Write7To8(v, Buffer(mem, 0)), v)
<1>1. PICK a : a = First(mem, aa)  OBVIOUS
<1>2. IsMemory(a) /\ StartsWith(a, aa)  BY <1>1, FirstIs
<1>3. PICK p \in 1 .. 2 : p = BehindFirst(aa)  BY SMT DEF BehindFirst
<1>4. PICK m : m = Copy2(Copy2(Copy2(a, p, bb * 2), p + 2, cc * 2), p + 4, dd * 2)  OBVIOUS
<1>5. PICK hi, lo : hi = Twos(aa, bb) /\ lo = Twos(cc, dd)  OBVIOUS
<1>6. /\ hi \in Fours /\ By100(hi) = aa /\ hi - aa * 100 = bb
      /\ lo \in Fours /\ By100(lo) = cc /\ lo - cc * 100 = dd
  BY <1>5, TwosBack
<1>7. By10000(v) = hi /\ v - hi * 10000 = lo  BY <1>5, <1>6, FoursBack DEF OfPairs
<1>8. PICK n : n = p + 6  OBVIOUS
<1>9. Write7To8(v, Buffer(mem, 0)) = Buffer(m, n)
  BY <1>1, <1>3, <1>4, <1>6, <1>7, <1>8, SMT DEF Write7To8, Buffer, First, BehindFirst
<1>10. p \in 0 .. 26  OBVIOUS
<1>11. KeptBelow(m, a, p) /\ PairAt(m, p, bb) /\ PairAt(m, p + 2, cc) /\ PairAt(m, p + 4, dd)
  BY <1>2, <1>4, <1>10, ThreePairs
<1>12. Leads(n, aa, bb, cc, dd)  BY <1>2, <1>3, <1>8, SMT DEF Leads, StartsWith
<1>13. DigitsPlaced(m, n, n, aa, bb, cc, dd)
  BY <1>2, <1>3, <1>8, <1>11, SMT DEF DigitsPlaced, StartsWith, PairAt, KeptBelow, Offsets
<1>14. IsMemory(m)  BY <1>11 DEF KeptBelow
<1>15. Written(Buffer(m, n), v)  BY <1>12, <1>13, <1>14, WrittenIs
<1>. QED  BY <1>9, <1>15

-----------------------------------------------------------------------------
\* write_u32_len_1_8 at the start of the buffer, for every number it is given.
LEMMA Len1To8Is ==
  ASSUME NEW mem, IsMemory(mem), NEW v \in Eights
  PROVE  Written(WriteLen1To8(v, Buffer(mem, 0)), v)
<1>1. PICK aa, bb, cc, dd \in 0 .. 99 : v = OfPairs(aa, bb, cc, dd)  BY Split
<1>2. v = aa * 1000000 + bb * 10000 + cc * 100 + dd /\ v \in Nat
  BY <1>1, SMT DEF OfPairs, OfFours, Twos
<1>3. CASE aa > 0
  <2>1. v >= 1000000  BY <1>2, <1>3, SMT
  <2>2. WriteLen1To8(v, Buffer(mem, 0)) = Write7To8(v, Buffer(mem, 0))
    BY <1>2, <2>1, SMT DEF WriteLen1To8
  <2>3. Written(Write7To8(v, Buffer(mem, 0)), v)  BY <1>1, <1>3, Len7To8Is
  <2>. QED  BY <2>2, <2>3, SMT
<1>4. CASE aa = 0 /\ bb > 0
  <2>1. v >= 10000 /\ v < 1000000  BY <1>2, <1>4, SMT
  <2>2. WriteLen1To8(v, Buffer(mem, 0)) = Write5To6(v, Buffer(mem, 0))
    BY <1>2, <2>1, SMT DEF WriteLen1To8
  <2>3. v = OfFours(bb, Twos(cc, dd))  BY <1>2, <1>4, SMT DEF OfFours, Twos
  <2>4. Written(Write5To6(v, Buffer(mem, 0)), v)  BY <1>4, <2>3, Len5To6Is
  <2>. QED  BY <2>2, <2>4, SMT
<1>5. CASE aa = 0 /\ bb = 0 /\ cc > 0
  <2>1. v = Twos(cc, dd)  BY <1>2, <1>5, SMT DEF Twos
  <2>. QED  BY <1>5, <2>1, Len3To4Is
<1>6. CASE aa = 0 /\ bb = 0 /\ cc = 0
  <2>1. v = dd  BY <1>2, <1>6, SMT
  <2>. QED  BY <2>1, Len1To2Is
<1>. QED  BY <1>3, <1>4, <1>5, <1>6, SMT

\* write_u64_len_5_8 does what it does.
LEMMA Len5To8Is ==
  ASSUME NEW v \in Nat, NEW buf, v >= 10000
  PROVE  WriteLen5To8(v, buf) = WriteLen1To8(v, buf)
  BY SMT DEF WriteLen5To8, WriteLen1To8

LEMMA StillShows ==
  ASSUME NEW m, NEW mem, NEW p \in Int, NEW v, NEW q \in Nat, NEW n \in 1 .. 8,
         KeptBelow(m, mem, p), Shows(mem, q, v, n), q + n <= p, p <= 32
  PROVE  Shows(m, q, v, n)
<1>1. ASSUME NEW i \in 0 .. n - 1 PROVE m[q + i] = mem[q + i]
  <2>1. q + i \in Offsets /\ q + i < p  BY SMT DEF Offsets
  <2>. QED  BY <2>1, SMT DEF KeptBelow
<1>. QED  BY <1>1, SMT DEF Shows

\* The digits of high * 10^4 + mid are those of high and then four of mid.
LEMMA AboveIs ==
  ASSUME NEW high \in Fours, NEW mid \in Fours, high > 0, NEW n, NEW m,
         HasDigits(OfFours(high, mid), n), Shows(m, 0, OfFours(high, mid), n)
  PROVE  /\ HasDigits(high, n - 4) /\ Shows(m, 0, high, n - 4)
         /\ Shows(m, n - 4, mid, 4)
<1>1. PICK aa, bb \in 0 .. 99 : high = Twos(aa, bb)  BY SplitPairs
<1>2. PICK cc, dd \in 0 .. 99 : mid = Twos(cc, dd)  BY SplitPairs
<1>3. PICK v : v = OfFours(high, mid)  OBVIOUS
<1>4. 0 \in 0 .. 99 /\ v = OfPairs(aa, bb, cc, dd)  BY <1>1, <1>2, <1>3, SMT DEF OfPairs
<1>5. high = OfPairs(0, 0, aa, bb) /\ mid = OfPairs(0, 0, cc, dd)
  BY <1>1, <1>2, SMT DEF OfPairs, OfFours, Twos
<1>6. DigitsOfPairs(v, aa, bb, cc, dd)  BY <1>4, DigitsAre
<1>7. DigitsOfPairs(high, 0, 0, aa, bb)  BY <1>4, <1>5, DigitsAre
<1>8. DigitsOfPairs(mid, 0, 0, cc, dd)  BY <1>4, <1>5, DigitsAre
<1>9. high \in Nat /\ high <= 9999 /\ mid \in Nat /\ mid <= 9999 /\ v = high * 10000 + mid
  BY <1>3, SMT DEF Fours, OfFours
<1>10. n \in 5 .. 8 /\ HasDigits(high, n - 4)
  <2>1. HasDigits(v, n)  BY <1>3
  <2>2. n \in 1 .. 8  BY <2>1, SMT DEF HasDigits
  <2>3. n \notin 1 .. 4
    <3>1. v >= 10000  BY <1>9, SMT
    <3>. QED  BY <2>1, <3>1, <1>9, PowerIs, SMT DEF HasDigits
  <2>4. CASE n = 5  BY <1>9, <2>1, <2>4, PowerIs, SMT DEF HasDigits
  <2>5. CASE n = 6  BY <1>9, <2>1, <2>5, PowerIs, SMT DEF HasDigits
  <2>6. CASE n = 7  BY <1>9, <2>1, <2>6, PowerIs, SMT DEF HasDigits
  <2>7. CASE n = 8  BY <1>9, <2>1, <2>7, PowerIs, SMT DEF HasDigits
  <2>. QED  BY <2>2, <2>3, <2>4, <2>5, <2>6, <2>7, SMT
<1>11. ASSUME NEW k \in 1 .. n PROVE m[n - k] = Digit(v, k)
  <2>1. PICK i : i = n - k  OBVIOUS
  <2>2. i \in 0 .. n - 1 /\ n - i = k /\ 0 + i = i  BY <1>10, <2>1, SMT
  <2>3. m[0 + i] = (v \div Power[n - i]) % 10  BY <1>3, <2>2, SMT DEF Shows
  <2>. QED  BY <2>1, <2>2, <2>3, SMT DEF Digit
<1>12. Shows(m, 0, high, n - 4)
  <2>1. ASSUME NEW i \in 0 .. (n - 4) - 1 PROVE m[0 + i] = (high \div Power[(n - 4) - i]) % 10
    <3>1. PICK k : k = (n - 4) - i  OBVIOUS
    <3>2. k \in 1 .. 4 /\ k + 4 \in 1 .. n /\ n - (k + 4) = 0 + i  BY <1>10, <3>1, SMT
    <3>3. m[n - (k + 4)] = Digit(v, k + 4)  BY <1>11, <3>2
    <3>4. Digit(v, k + 4) = Digit(high, k)
      <4>1. k = 1 \/ k = 2 \/ k = 3 \/ k = 4  BY <3>2, SMT
      <4>. QED  BY <1>6, <1>7, <4>1, SMT DEF DigitsOfPairs
    <3>. QED  BY <3>1, <3>2, <3>3, <3>4, SMT DEF Digit
  <2>. QED  BY <2>1, SMT DEF Shows
<1>13. Shows(m, n - 4, mid, 4)
  <2>1. ASSUME NEW i \in 0 .. 4 - 1 PROVE m[(n - 4) + i] = (mid \div Power[4 - i]) % 10
    <3>1. PICK k : k = 4 - i  OBVIOUS
    <3>2. k \in 1 .. 4 /\ k \in 1 .. n /\ n - k = (n - 4) + i  BY <1>10, <3>1, SMT
    <3>3. m[n - k] = Digit(v, k)  BY <1>11, <3>2
    <3>4. Digit(v, k) = Digit(mid, k)
      <4>1. k = 1 \/ k = 2 \/ k = 3 \/ k = 4  BY <3>2, SMT
      <4>. QED  BY <1>6, <1>8, <4>1, SMT DEF DigitsOfPairs
    <3>. QED  BY <3>1, <3>2, <3>3, <3>4, SMT DEF Digit
  <2>. QED  BY <2>1, SMT DEF Shows
<1>. QED  BY <1>10, <1>12, <1>13

-----------------------------------------------------------------------------
\* write_u64: the digits are those of the number, whichever way it was split.
Decimal(r, high, mid, low) ==
  LET more == IF high > 0 THEN 12 ELSE IF mid > 0 THEN 8 ELSE 0
      first == IF high > 0 THEN high ELSE IF mid > 0 THEN mid ELSE low
      n == r.at - more
  IN  /\ HasDigits(first, n) /\ Shows(r.mem, 0, first, n)
      /\ high > 0 => Shows(r.mem, n, mid, 4)
      /\ more > 0 => Shows(r.mem, r.at - 8, low, 8)

LEMMA EmptyIs == EmptyBuffer = Buffer(EmptyBuffer.mem, 0) /\ IsMemory(EmptyBuffer.mem)
  BY SMT DEF EmptyBuffer, Buffer, IsMemory

LEMMA WriteU64Is ==
  ASSUME NEW high \in Highs, NEW mid \in Fours, NEW low \in Eights
  PROVE  Decimal(WriteU64(high, mid, low, EmptyBuffer), high, mid, low)
<1>1. PICK mem : EmptyBuffer = Buffer(mem, 0) /\ IsMemory(mem)  BY EmptyIs
<1>2. high \in Nat /\ mid \in Nat /\ mid <= 9999 /\ low \in Nat  BY SMT DEF Highs, Fours, Eights
<1>6. high \in Eights  BY SMT DEF Highs, Eights
<1>3. CASE high = 0 /\ mid = 0
  <2>1. PICK r : r = WriteLen1To8(low, Buffer(mem, 0))  OBVIOUS
  <2>2. WriteU64(high, mid, low, EmptyBuffer) = r  BY <1>1, <1>3, <2>1, SMT DEF WriteU64
  <2>3. Written(r, low)  BY <1>1, <2>1, Len1To8Is
  <2>4. r.at - 0 = r.at  BY <2>3, SMT DEF Written, HasDigits
  <2>5. Decimal(r, high, mid, low)  BY <1>3, <2>3, <2>4, SMT DEF Decimal, Written
  <2>. QED  BY <2>2, <2>5
<1>4. CASE (high # 0 \/ mid # 0) /\ high < 10000
  <2>1. PICK above : above = OfFours(high, mid)  OBVIOUS
  <2>2. high \in Fours  BY <1>2, <1>4, SMT DEF Fours
  <2>3. above \in Eights  BY <2>1, <2>2, FoursBack
  <2>4. PICK b : b = WriteLen1To8(above, Buffer(mem, 0))  OBVIOUS
  <2>5. Written(b, above)  BY <1>1, <2>3, <2>4, Len1To8Is
  <2>6. PICK p \in 1 .. 8 : p = b.at  BY <2>5, SMT DEF Written, HasDigits
  <2>7. PICK bm : bm = b.mem  OBVIOUS
  <2>8. IsMemory(bm) /\ HasDigits(above, p) /\ Shows(bm, 0, above, p)  BY <2>5, <2>6, <2>7 DEF Written
  <2>9. PICK r : r = WriteLen8(low, Buffer(bm, p))  OBVIOUS
  <2>10. p \in 0 .. 24 /\ p \in Int /\ 0 \in Nat /\ 0 + p <= p /\ p <= 32  BY SMT
  <2>11. KeptBelow(r.mem, bm, p) /\ r.at = p + 8 /\ Shows(r.mem, p, low, 8)
    BY <2>8, <2>9, <2>10, Len8Is
  <2>12. WriteU64(high, mid, low, EmptyBuffer) = r
    <3>1. WriteU64(high, mid, low, EmptyBuffer) = WriteLen8(low, b)
      BY <1>1, <1>2, <1>4, <2>1, <2>4, SMT DEF WriteU64, OfFours
    <3>2. WriteLen8(low, b) = WriteLen8(low, Buffer(bm, p))
      BY <2>6, <2>7, SMT DEF WriteLen8, Buffer
    <3>. QED  BY <2>9, <3>1, <3>2
  <2>13. Shows(r.mem, 0, above, p)  BY <2>8, <2>10, <2>11, StillShows
  <2>14. r.at - 8 = p /\ r.at - 12 = p - 4  BY <2>11, SMT
  <2>15. CASE high > 0
    <3>1. HasDigits(high, p - 4) /\ Shows(r.mem, 0, high, p - 4) /\ Shows(r.mem, p - 4, mid, 4)
      BY <2>1, <2>2, <2>8, <2>13, <2>15, AboveIs
    <3>2. Decimal(r, high, mid, low)  BY <2>11, <2>14, <2>15, <3>1, SMT DEF Decimal
    <3>. QED  BY <2>12, <3>2
  <2>16. CASE high = 0
    <3>1. above = mid /\ mid > 0 /\ ~(high > 0)  BY <1>2, <1>4, <2>1, <2>16, SMT DEF OfFours
    <3>2. Decimal(r, high, mid, low)  BY <2>8, <2>11, <2>13, <2>14, <3>1, SMT DEF Decimal
    <3>. QED  BY <2>12, <3>2
  <2>. QED  BY <1>2, <2>15, <2>16, SMT
<1>5. CASE high >= 10000
  <2>1. PICK b : b = WriteLen1To8(high, Buffer(mem, 0))  OBVIOUS
  <2>2. Written(b, high)  BY <1>1, <1>6, <2>1, Len1To8Is
  <2>3. PICK p \in 1 .. 8 : p = b.at  BY <2>2, SMT DEF Written, HasDigits
  <2>4. PICK bm : bm = b.mem  OBVIOUS
  <2>5. IsMemory(bm) /\ HasDigits(high, p) /\ Shows(bm, 0, high, p)  BY <2>2, <2>3, <2>4 DEF Written
  <2>6. PICK c : c = WriteLen4(mid, Buffer(bm, p))  OBVIOUS
  <2>7. p \in 0 .. 24 /\ p \in Int /\ 0 \in Nat /\ 0 + p <= p /\ p <= 32  BY SMT
  <2>8. KeptBelow(c.mem, bm, p) /\ c.at = p + 4 /\ Shows(c.mem, p, mid, 4)
    BY <2>5, <2>6, <2>7, Len4Is
  <2>9. PICK q \in 5 .. 12 : q = p + 4  BY SMT
  <2>10. PICK cm : cm = c.mem  OBVIOUS
  <2>11. IsMemory(cm)  BY <2>8, <2>10 DEF KeptBelow
  <2>12. PICK r : r = WriteLen8(low, Buffer(cm, q))  OBVIOUS
  <2>13. /\ q \in 0 .. 24 /\ q \in Int /\ 0 \in Nat /\ p \in Nat /\ 0 + p <= q /\ p + 4 <= q
         /\ q <= 32 /\ 4 \in 1 .. 8
    BY <2>9, SMT
  <2>14. KeptBelow(r.mem, cm, q) /\ r.at = q + 8 /\ Shows(r.mem, q, low, 8)
    BY <2>11, <2>12, <2>13, Len8Is
  <2>15. Shows(cm, 0, high, p)  BY <2>5, <2>7, <2>8, <2>10, StillShows
  <2>16. Shows(r.mem, 0, high, p)  BY <2>13, <2>14, <2>15, StillShows
  <2>17. Shows(cm, p, mid, 4)  BY <2>8, <2>10
  <2>18. Shows(r.mem, p, mid, 4)  BY <2>13, <2>14, <2>17, StillShows
  <2>19. WriteU64(high, mid, low, EmptyBuffer) = r
    <3>1. WriteLen5To8(high, Buffer(mem, 0)) = b  BY <1>2, <1>5, <2>1, Len5To8Is
    <3>2. WriteU64(high, mid, low, EmptyBuffer) = WriteLen8(low, WriteLen4(mid, b))
      BY <1>1, <1>2, <1>5, <3>1, SMT DEF WriteU64
    <3>3. WriteLen4(mid, b) = c  BY <2>3, <2>4, <2>6, SMT DEF WriteLen4, Buffer
    <3>4. WriteLen8(low, c) = WriteLen8(low, Buffer(cm, q))
      BY <2>8, <2>9, <2>10, SMT DEF WriteLen8, Buffer
    <3>. QED  BY <2>12, <3>2, <3>3, <3>4
  <2>20. r.at - 8 = q /\ r.at - 12 = p  BY <2>9, <2>14, SMT
  <2>21. Decimal(r, high, mid, low)
    <3>1. high > 0  BY <1>2, <1>5, SMT
    <3>. QED  BY <2>5, <2>14, <2>16, <2>18, <2>20, <3>1, SMT DEF Decimal
  <2>. QED  BY <2>19, <2>21
<1>. QED  BY <1>2, <1>3, <1>4, <1>5, SMT

\* For every number of 64 bits write_u64 leaves its digits, from the first, which
\* is a zero for zero alone, to the last, and the writer is behind them.
THEOREM WritesDecimal == NumberSpec => []NumberIsDecimal
<1> DEFINE IsCall == \E high \in Highs, mid \in Fours, low \in Eights : call = NumberCall(high, mid, low)
           Inv == IsCall /\ NumberIsDecimal
<1>1. NumberInit => Inv  BY DEF NumberInit, NumberIsDecimal
<1>2. Inv /\ [WriteNumber]_<<call, result>> => Inv'
  <2>1. SUFFICES ASSUME Inv, [WriteNumber]_<<call, result>> PROVE Inv'  OBVIOUS
  <2>2. CASE UNCHANGED <<call, result>>  BY <2>1, <2>2 DEF NumberIsDecimal, Is
  <2>3. CASE WriteNumber
    <3>1. call' = call /\ result' = WriteU64(call.high, call.mid, call.low, EmptyBuffer)
      BY <2>3 DEF WriteNumber, Returns
    <3>2. PICK high \in Highs, mid \in Fours, low \in Eights : call = NumberCall(high, mid, low)
      BY <2>1
    <3>3. call.high = high /\ call.mid = mid /\ call.low = low  BY <3>2 DEF NumberCall
    <3>4. Decimal(result', call'.high, call'.mid, call'.low)  BY <3>1, <3>3, WriteU64Is
    <3>5. NumberIsDecimal'  BY <3>4 DEF NumberIsDecimal, Decimal
    <3>6. IsCall'  BY <2>1, <3>1
    <3>. QED  BY <3>5, <3>6
  <2>. QED  BY <2>1, <2>2, <2>3
<1>3. Inv => NumberIsDecimal  OBVIOUS
<1>. QED  BY <1>1, <1>2, <1>3, PTL DEF NumberSpec
=============================================================================
