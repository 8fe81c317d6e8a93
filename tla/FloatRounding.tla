---------------------------- MODULE FloatRounding ----------------------------
(***************************************************************************)
(* From a decimal significand and exponent to the nearest double: the two  *)
(* fast paths and the slow path at the end of READ_NUMBER                  *)
(* (decode_float.inl.h), with the big integers and the "do it yourself"    *)
(* floats they are made of (decode_float_utils.h).                         *)
(*                                                                         *)
(* The width of a word and the format of a double are constants.  A double *)
(* is its bits: the exponent, then the significand without its first bit.  *)
(***************************************************************************)
EXTENDS Integers, Sequences

CONSTANTS
  WordBits,     \* bits of a u64
  SafeDig,      \* U64_SAFE_DIG: so many digits always fit a u64
  SigFullBits,  \* F64_SIG_FULL_BITS
  MaxBinExp,    \* F64_MAX_BIN_EXP
  MaxDecExp,    \* F64_MAX_DEC_EXP
  MinDecExp,    \* F64_MIN_DEC_EXP
  MaxDecDig,    \* F64_MAX_DEC_DIG
  Pow10MaxExact \* F64_POW10_EXP_MAX_EXACT

ASSUME FormatAssumption ==
  /\ 10^SafeDig < 2^WordBits /\ 2^WordBits < 10^(SafeDig + 1)
  /\ SigFullBits + 2 < WordBits /\ 5^Pow10MaxExact < 2^SigFullBits
  /\ MinDecExp < 0 /\ MaxDecExp > SafeDig + 1 /\ MaxDecDig > SafeDig

Word == 2^WordBits
SigBits == SigFullBits - 1
MinBinExp == 3 - MaxBinExp
ExpBias == MaxBinExp - 1
F64Inf == (2 * MaxBinExp - 1) * 2^SigBits

Bool(b) == IF b THEN 1 ELSE 0

\* u64_lz_bits.
LzBits(v) == CHOOSE n \in 0 .. WordBits - 1 : v * 2^n \in Word \div 2 .. Word - 1

\* u128_mul.
MulHi(a, b) == (a * b) \div Word
MulLo(a, b) == (a * b) % Word

-----------------------------------------------------------------------------
(* The table of the powers of ten: two words each, not rounded up.         *)

\* The first bits of 1 / d, from the first one that is set.
BitsOfInverse(d, bits) ==
  LET step[n \in 0 .. 2 * bits] ==
        IF n = 0 THEN [q |-> 0, r |-> 1]
        ELSE LET s == step[n - 1] IN
             IF s.q >= 2^(bits - 1) THEN s
             ELSE [q |-> 2 * s.q + Bool(2 * s.r >= d), r |-> (2 * s.r) % d]
  IN  step[2 * bits].q

\* 10^e is 5^e, shifted.
Pow10Table ==
  [e \in MinDecExp - SafeDig .. MaxDecExp |->
     IF e < 0 THEN BitsOfInverse(5^(-e), 2 * WordBits)
     ELSE 5^e * 2^(CHOOSE n \in 0 .. 2 * WordBits : 5^e * 2^n \in 2^(2 * WordBits - 1) .. 2^(2 * WordBits) - 1)]

\* pow10_table_get_sig, pow10_table_get_exp.
Pow10Hi(e) == Pow10Table[e] \div Word
Pow10Lo(e) == Pow10Table[e] % Word
Pow10Exp(e) == (e * 217706 - (WordBits - 1) * 65536) \div 65536

-----------------------------------------------------------------------------
(* What the machine computes: one operation, rounded to nearest.           *)

\* m * 2^e, for an m of SigFullBits bits.
RawOf(m, e) == (e + SigBits + ExpBias) * 2^SigBits + m - 2^SigBits

\* The double next to n / d, which is neither too small nor too large.
RoundedQuotient(n, d) ==
  LET Scaled(e) == IF e < 0 THEN [n |-> n * 2^(-e), d |-> d] ELSE [n |-> n, d |-> d * 2^e]
      e == CHOOSE e \in -WordBits .. WordBits :
             Scaled(e).n \div Scaled(e).d \in 2^SigBits .. 2^SigFullBits - 1
      q == Scaled(e).n \div Scaled(e).d
      r == Scaled(e).n % Scaled(e).d
      up == Bool(2 * r > Scaled(e).d \/ (2 * r = Scaled(e).d /\ q % 2 = 1))
  IN  IF q + up = 2^SigFullBits THEN RawOf(2^SigBits, e + 1) ELSE RawOf(q + up, e)

\* normalized_u64_to_f64.
U64ToF64(v) == RoundedQuotient(v, 1)

\* Fast path 1: both numbers are doubles, and one operation is left.
FastPath1Applies(sig, exp) == sig < 2^SigFullBits /\ exp \in -Pow10MaxExact .. Pow10MaxExact
FastPath1(sig, exp) == IF exp < 0 THEN RoundedQuotient(sig, 10^(-exp)) ELSE RoundedQuotient(sig * 10^exp, 1)

-----------------------------------------------------------------------------
(* Fast path 2: as many bits of sig * 10^exp as the rounding needs.        *)

FastPath2Applies(exp, cut) == ~cut /\ exp > -MaxDecExp + 1 /\ exp < MaxDecExp - SafeDig - 1

RoundBit == 2^(WordBits - SigFullBits - 1)

\* Mutant: the carry of the lower words is lost.
ProductWithoutCarry(sig, exp) ==
  LET sig1 == sig * 2^LzBits(sig)
      hi == MulHi(sig1, Pow10Hi(exp))
      add == (MulLo(sig1, Pow10Hi(exp)) + MulHi(sig1, Pow10Lo(exp))) % Word
      bits == hi % (RoundBit \div 2)
  IN  [hi |-> hi, exact |-> bits \notin {0, RoundBit \div 2 - 1} \/ add \notin {0, Word - 1}]

\* The word that holds the product, and whether the bits below cannot matter.
Product(sig, exp) ==
  LET sig1 == sig * 2^LzBits(sig)
      hi == MulHi(sig1, Pow10Hi(exp))
      lo == MulLo(sig1, Pow10Hi(exp))
      hi2 == MulHi(sig1, Pow10Lo(exp))
      add == (lo + hi2) % Word
      bits == hi % (RoundBit \div 2)
  IN  IF bits \notin {0, RoundBit \div 2 - 1} THEN [hi |-> hi, exact |-> TRUE]
      ELSE [hi |-> hi + Bool(add < lo \/ add < hi2), exact |-> add \notin {0, Word - 1}]

FastPath2(sig, exp) ==
  LET product == Product(sig, exp).hi
      lz == Bool(product < Word \div 2)
      hi == product * 2^lz
      rounded == (hi + (IF (hi \div RoundBit) % 2 = 1 THEN RoundBit ELSE 0)) % Word
      overflow == rounded < RoundBit
      exp2 == Pow10Exp(exp) - LzBits(sig) - lz + WordBits + Bool(overflow)
      m == (IF overflow THEN Word \div 2 ELSE rounded) \div 2^(WordBits - SigFullBits)
  IN  RawOf(m, exp2 + WordBits - SigFullBits)

-----------------------------------------------------------------------------
(* Big integers: the words, the lowest first.                              *)

\* bigint_add_u64.
BigAdd(big, val) ==
  LET n == Len(big)
      carry[i \in 1 .. n + 1] == IF i = 1 THEN val ELSE (big[i - 1] + carry[i - 1]) \div Word
      sum == [i \in 1 .. n |-> (big[i] + carry[i]) % Word]
  IN  IF carry[n + 1] = 0 THEN sum ELSE Append(sum, 1)

\* bigint_mul_u64.
BigMul(big, val) ==
  LET n == Len(big)
      carry[i \in 1 .. n + 1] == IF i = 1 THEN 0 ELSE (big[i - 1] * val + carry[i - 1]) \div Word
      product == [i \in 1 .. n |-> (big[i] * val + carry[i]) % Word]
  IN  IF carry[n + 1] = 0 THEN product ELSE Append(product, carry[n + 1])

\* bigint_mul_pow2.
BigMulPow2(big, exp) ==
  LET n == Len(big)  shft == 2^(exp % WordBits)  move == exp \div WordBits
      At(i) == IF i \in 1 .. n THEN big[i] ELSE 0
      words == [i \in 1 .. n + 1 |-> ((At(i) * shft) % Word) + ((At(i - 1) * shft) \div Word)]
      low == [i \in 1 .. move |-> 0]
  IN  low \o (IF words[n + 1] > 0 THEN words ELSE SubSeq(words, 1, n))

\* bigint_mul_pow10.
RECURSIVE BigMulPow10(_, _)
BigMulPow10(big, exp) ==
  IF exp >= SafeDig THEN BigMulPow10(BigMul(big, 10^SafeDig), exp - SafeDig)
  ELSE IF exp > 0 THEN BigMul(big, 10^exp) ELSE big

\* bigint_cmp.
BigCmp(a, b) ==
  IF Len(a) # Len(b) THEN (IF Len(a) < Len(b) THEN -1 ELSE 1)
  ELSE LET differ == {i \in 1 .. Len(a) : a[i] # b[i]}
           top == CHOOSE i \in differ : \A j \in differ : j <= i
       IN  IF differ = {} THEN 0 ELSE IF a[top] < b[top] THEN -1 ELSE 1

-----------------------------------------------------------------------------
(* The slow path: an approximation with a bounded error, and a comparison  *)
(* of big integers when the error matters.                                 *)

\* diy_fp_get_cached_pow10, diy_fp_mul.
CachedPow10(e) == Pow10Hi(e) + ((Pow10Lo(e) * 2) \div Word)
DiyMul(a, b) == MulHi(a, b) + ((MulLo(a, b) * 2) \div Word)

\* diy_fp_to_ieee_raw.
DiyToRaw(sig, exp) ==
  IF sig = 0 THEN 0
  ELSE LET lz == LzBits(sig)
           top == (sig * 2^lz) \div 2^(WordBits - SigFullBits)
           e == exp - lz + WordBits - SigFullBits + SigBits
       IN  IF e >= MaxBinExp THEN F64Inf
           ELSE IF e >= MinBinExp - 1 THEN (e + ExpBias) * 2^SigBits + (top % 2^SigBits)
           ELSE IF e >= MinBinExp - SigFullBits THEN top \div 2^(MinBinExp - e - 1)
           ELSE 0

ErrUlpLog == 3
ErrUlp == 8
ExpSubnormal == 1 - ExpBias - SigBits

\* The bits of the significand that a double of this magnitude keeps.
EffectiveSize(magnitude) ==
  IF magnitude >= ExpSubnormal + SigFullBits THEN SigFullBits
  ELSE IF magnitude <= ExpSubnormal THEN 0
  ELSE magnitude - ExpSubnormal

\* The product with its error in eighths of its last bit, normalized.
Approximation(sig, exp, cut) ==
  LET lz == LzBits(sig)
      err == (IF cut THEN ErrUlp \div 2 ELSE 0) * 2^lz
      product == DiyMul(sig * 2^lz, CachedPow10(exp))
      lz2 == LzBits(product)
  IN  [sig |-> product * 2^lz2, exp |-> Pow10Exp(exp) + WordBits - lz - lz2,
       err |-> (err + ErrUlp \div 2 + Bool(err # 0) + ErrUlp \div 2) * 2^lz2]

\* Its candidate for the result, and whether the error leaves no other.
Candidate(sig, exp, cut) ==
  LET a == Approximation(sig, exp, cut)
      all == WordBits - EffectiveSize(WordBits + a.exp)
      shr == IF all + ErrUlpLog >= WordBits THEN all + ErrUlpLog - WordBits + 1 ELSE 0
      kept == a.sig \div 2^shr
      err == IF shr > 0 THEN (a.err \div 2^shr) + 1 + ErrUlp ELSE a.err
      below == all - shr
      precision == (kept % 2^below) * ErrUlp
      half == 2^(below - 1) * ErrUlp
  IN  [raw |-> DiyToRaw(kept \div 2^below + Bool(precision >= half + err), a.exp + shr + below),
       sure |-> precision <= (half - err) % Word \/ precision >= half + err]

\* BIGINT_SET_BUF: all the digits, those that were cut too, and the exponent
\* of the last one.
IsDot(c) == c = "."
DigitOf(c) == CHOOSE d \in 0 .. 9 : <<"0", "1", "2", "3", "4", "5", "6", "7", "8", "9">>[d + 1] = c

\* Where to stop reading digits, and how many there are.
CutAt(text, sig_cut, sig_end, dot_pos) ==
  LET total == SafeDig + (sig_end - sig_cut) - Bool(sig_cut < dot_pos /\ dot_pos < sig_end)
      shorter == sig_end - (total - (MaxDecDig + 1))
  IN  IF total <= MaxDecDig THEN [end |-> sig_end, digits |-> total, big_cut |-> FALSE]
      ELSE [end |-> shorter - Bool(dot_pos + 1 = shorter), digits |-> MaxDecDig + 1, big_cut |-> TRUE]

\* The digits from cur to end, SafeDig of them at a time.
RECURSIVE ReadDigits(_, _, _, _, _, _)
ReadDigits(text, big, cur, val, len, cut) ==
  IF cur >= cut.end THEN big
  ELSE IF IsDot(text[cur]) THEN ReadDigits(text, big, cur + 1, val, len, cut)
  ELSE LET read == val * 10 + DigitOf(text[cur])
           last == cur + 1 = cut.end
           v == IF last /\ cut.big_cut THEN read - (read % 10) + 1 ELSE read
       IN  IF len + 1 = SafeDig \/ last
             THEN ReadDigits(text, BigAdd(BigMulPow10(big, len + 1), v), cur + 1, 0, 0, cut)
             ELSE ReadDigits(text, big, cur + 1, v, len + 1, cut)

BigintSetBuf(text, sig, exp, sig_cut, sig_end, dot_pos) ==
  IF sig_cut = 0 THEN [big |-> <<sig>>, exp |-> exp]
  ELSE LET cut == CutAt(text, sig_cut, sig_end, dot_pos)
           unrounded == sig - Bool(DigitOf(text[sig_cut]) >= 5)
       IN  [big |-> ReadDigits(text, <<unrounded>>, sig_cut, 0, 0, cut), exp |-> exp - (cut.digits - SafeDig)]

\* The point half way to the next double, as an odd number and its exponent.
UpperBoundary(raw) ==
  LET e == raw \div 2^SigBits
      m == (raw % 2^SigBits) + (IF e > 0 THEN 2^SigBits ELSE 0)
  IN  [sig |-> 2 * m + 1, exp |-> (IF e > 0 THEN e ELSE 1) - ExpBias - SigBits - 1]

\* The number against that point, both made integers.
CompareExactly(text, sig, exp, sig_cut, sig_end, dot_pos, upper) ==
  LET full == BigintSetBuf(text, sig, exp, sig_cut, sig_end, dot_pos)
      full10 == IF full.exp >= 0 THEN BigMulPow10(full.big, full.exp) ELSE full.big
      comp10 == IF full.exp >= 0 THEN <<upper.sig>> ELSE BigMulPow10(<<upper.sig>>, -full.exp)
  IN  IF upper.exp > 0 THEN BigCmp(full10, BigMulPow2(comp10, upper.exp))
      ELSE BigCmp(BigMulPow2(full10, -upper.exp), comp10)

SlowPath(text, sig, exp, sig_cut, sig_end, dot_pos) ==
  LET c == Candidate(sig, exp, sig_cut # 0)
      cmp == CompareExactly(text, sig, exp, sig_cut, sig_end, dot_pos, UpperBoundary(c.raw))
  IN  IF c.raw = F64Inf \/ c.sure THEN c.raw
      ELSE c.raw + (IF cmp # 0 THEN Bool(cmp > 0) ELSE c.raw % 2)
=============================================================================
