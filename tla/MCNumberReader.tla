---------------------------- MODULE MCNumberReader ----------------------------
(***************************************************************************)
(* NumberReader for TLC: the texts, and what they spell.                   *)
(*                                                                         *)
(* The reference reads a text by the grammar of JSON and compares it, as   *)
(* decimal digits, with the points half way between neighbouring doubles,  *)
(* whose digits come from a long division.                                 *)
(***************************************************************************)
EXTENDS NumberReader, FiniteSets

CONSTANTS
  ShortChars,   \* the characters of the short texts
  ShortLength,  \* and how long these are
  Significands, \* some of those of the texts with an exponent
  MaxSignificand, \* which also have all these
  MaxExponent,  \* their exponents, from -2 * MaxExponent
  HalfStep,     \* every so many doubles, the upper boundary is written out
  LongZeros     \* how many zeros are put in the middle of a long text

\* The decimal exponent of the least double.
LeastDecExp == -7

DigitChars(n) ==
  LET digits[k \in Nat] == IF k < 10 THEN <<k>> ELSE Append(digits[k \div 10], k % 10)
  IN  [i \in DOMAIN digits[n] |-> <<"0", "1", "2", "3", "4", "5", "6", "7", "8", "9">>[digits[n][i] + 1]]

ShortTexts == UNION {[1 .. n -> ShortChars] : n \in 1 .. ShortLength}

ExpChars(e) == <<"e">> \o (IF e < 0 THEN <<"-">> ELSE <<>>) \o DigitChars(IF e < 0 THEN -e ELSE e)

ScientificTexts == {DigitChars(n) \o ExpChars(e) : n \in Significands \cup (1 .. MaxSignificand), e \in -2 * MaxExponent .. MaxExponent}

\* Integers around the largest word and its half, and numbers cut short.
IntegerTexts ==
  {prefix \o DigitChars(n) \o tail : prefix \in {<<>>, <<"-">>},
     n \in {Word \div 2 - 1, Word \div 2, Word \div 2 + 1, Word - 1, Word, Word + 1, 12345, 99999, 123456},
     tail \in {<<>>, <<".">>, <<"e">>, <<"e", "-">>, <<".", "e">>, <<".", "0">>, <<"e", "0">>,
              ExpChars(10^SafeDig), ExpChars(-(10^SafeDig)), <<"e", "+", "0">> \o DigitChars(10^(SafeDig - 1) - 1)}}

-----------------------------------------------------------------------------
\* m * 2^e in decimal: the digits in front of the point and behind it.
Decimal(m, e) ==
  IF e >= 0 THEN [int |-> DigitChars(m * 2^e), frac |-> <<"0">>]
  ELSE LET d == 2^(-e)
           rest[i \in 0 .. -e] == IF i = 0 THEN m % d ELSE (rest[i - 1] * 10) % d
       IN  [int |-> DigitChars(m \div d),
            frac |-> [i \in 1 .. -e |-> DigitChars((rest[i - 1] * 10) \div d)[1]]]

\* The point half way between a double and the next.
HalfWay(raw) == LET u == UpperBoundary(raw) IN Decimal(u.sig, u.exp)

Zeros(n) == [i \in 1 .. n |-> "0"]
LastReplaced(s, tail) == SubSeq(s, 1, Len(s) - 1) \o tail

\* The doubles to try, the least and the greatest among them.
Halves == {r \in 0 .. F64Inf - 1 : r % HalfStep = 0} \cup {F64Inf - 1}

\* The half way points themselves, a little less and a little more, plain and
\* with an exponent; with the point far behind the digits that are kept.
HalfTexts ==
  UNION {LET h == HalfWay(raw)
             plain == h.int \o <<".">> \o h.frac
             scientific == h.int \o h.frac \o ExpChars(-Len(h.frac))
             filled == plain \o Zeros(MaxDecDig + 1 - Len(plain))
         IN  {plain, plain \o <<"1">>, filled, LastReplaced(plain, <<"4", "9">>),
              scientific, <<"-">> \o plain \o <<"e", "-", "0">>} : raw \in Halves}

\* The same with more digits than MaxDecDig, the last of them not a zero.
LongTexts ==
  UNION {LET h == HalfWay(raw) IN
         {h.int \o <<".">> \o h.frac \o Zeros(z) \o <<"1">> : z \in LongZeros}
           \cup {h.int \o h.frac \o Zeros(z) \o <<"1">> \o ExpChars(-Len(h.frac) - z - 1) : z \in LongZeros}
           : raw \in Halves}

\* What is no number to begin with.
NamedTexts == {prefix \o name \o suffix : prefix \in {<<>>, <<"-">>}, name \in {<<"inf">>, <<"nan">>}, suffix \in {<<>>, <<"]">>}}

\* Zeros behind the digits that decide, and a point behind those that are kept.
CutTexts ==
  UNION {LET h == HalfWay(raw) IN
         {h.int \o <<".">> \o h.frac \o Zeros(z) : z \in LongZeros}
           \cup {h.int \o h.frac \o Zeros(z) \o <<".", "0">> \o ExpChars(-Len(h.frac) - z) : z \in LongZeros}
           \cup {h.int \o h.frac \o Zeros(z) \o <<".", "1">> \o ExpChars(-Len(h.frac) - z) : z \in LongZeros}
           : raw \in Halves}

AllTexts == ShortTexts \cup NamedTexts \cup IntegerTexts \cup ScientificTexts \cup HalfTexts \cup LongTexts \cup CutTexts

-----------------------------------------------------------------------------
(* What a text spells.                                                     *)

Reject == [valid |-> FALSE]
NumberOf(int, frac, hasFrac, exp, hasExp, end) ==
  [valid |-> TRUE, int |-> int, frac |-> frac, integer |-> ~hasFrac /\ ~hasExp, exp |-> exp, end |-> end]

Slice(from, to) == SubSeq(text, from, to - 1)

\* The number at the start of the text, as far as it goes.
Spelled ==
  LET first == 1 + Bool(sign)
      intEnd == EndOf(Digits, first)
      hasFrac == Char(intEnd) = "."
      fracEnd == IF hasFrac THEN EndOf(Digits, intEnd + 1) ELSE intEnd
      hasExp == Char(fracEnd) = "e"
      expFirst == fracEnd + 1 + Bool(hasExp /\ IsSign(fracEnd + 1))
      end == IF hasExp THEN EndOf(Digits, expFirst) ELSE fracEnd
      exp == IF hasExp THEN Appended(0, expFirst, end - expFirst) * (IF Char(fracEnd + 1) = "-" THEN -1 ELSE 1) ELSE 0
  IN  IF \/ intEnd = first
         \/ Char(first) = "0" /\ intEnd > first + 1
         \/ hasFrac /\ fracEnd = intEnd + 1
         \/ hasExp /\ end = expFirst
        THEN Reject
        ELSE NumberOf(Slice(first, intEnd), IF hasFrac THEN Slice(intEnd + 1, fracEnd) ELSE <<>>, hasFrac, exp, hasExp, end)

\* 0.d1 d2 ... * 10^at, without a zero in front.
Normal(digits, at) ==
  LET firsts == {i \in DOMAIN digits : digits[i] # "0"}
      f == CHOOSE i \in firsts : \A j \in firsts : i <= j
  IN  IF firsts = {} THEN [digits |-> <<>>, at |-> 0]
      ELSE [digits |-> SubSeq(digits, f, Len(digits)), at |-> at - f + 1]

Value(n) == Normal(n.int \o n.frac, Len(n.int) + n.exp)
ValueOfHalf(raw) == LET h == HalfWay(raw) IN Normal(h.int \o h.frac, Len(h.int))

\* -1, 0 or 1, as a is less than b, equal or greater.
Compare(a, b) ==
  LET n == IF Len(a.digits) > Len(b.digits) THEN Len(a.digits) ELSE Len(b.digits)
      At(x, i) == IF i \in DOMAIN x.digits THEN DigitOf(x.digits[i]) ELSE 0
      differ == {i \in 1 .. n : At(a, i) # At(b, i)}
      i == CHOOSE i \in differ : \A j \in differ : i <= j
  IN  IF a.digits = <<>> \/ b.digits = <<>> THEN Bool(a.digits # <<>>) - Bool(b.digits # <<>>)
      ELSE IF a.at # b.at THEN (IF a.at < b.at THEN -1 ELSE 1)
      ELSE IF differ = {} THEN 0
      ELSE IF At(a, i) < At(b, i) THEN -1 ELSE 1

\* No other double is nearer, and at half the way the even one is taken; what
\* is half the way from the last double to the next power of two is infinite.
IsNearest(value, raw) ==
  /\ raw \in 0 .. F64Inf
  /\ raw > 0 => LET c == Compare(value, ValueOfHalf(raw - 1)) IN c > 0 \/ (c = 0 /\ raw % 2 = 0)
  /\ raw < F64Inf => LET c == Compare(value, ValueOfHalf(raw)) IN c < 0 \/ (c = 0 /\ raw % 2 = 0)

\* An integer that fits 64 bits, as a number.
FitsInt(n) ==
  /\ Len(n.int) <= SafeDig + 1
  /\ LET v == Appended(0, 1 + Bool(sign), Len(n.int)) IN IF sign THEN v <= Word \div 2 ELSE v < Word

\* What BIGINT_SET_BUF keeps of the digits that were cut once stands for all of
\* them: it reads as many as it counts, and those it drops, with the last one it
\* keeps, are not all zeros.
KeepsEnough ==
  LET cut == CutAt(text, sig_cut, sig_end, dot_pos)
      read == {i \in sig_cut .. cut.end - 1 : i # dot_pos}
  IN  sig_cut # 0 /\ cut.big_cut =>
        cut.digits = SafeDig + Cardinality(read) /\ ~OnlyZeros(cut.end - 1, sig_end)

\* A text is rejected unless the grammar allows it; the cursor is behind the
\* number; an integer that fits 64 bits is exact, and any other number is the
\* double next to it.
ReadsNumber ==
  LET n == Spelled  name == Char(1 + Bool(sign)) IN
  IF name \in {"inf", "nan"}
    THEN /\ number = [kind |-> "float", neg |-> sign, raw |-> IF name = "inf" THEN F64Inf ELSE "nan"]
         /\ cur = 2 + Bool(sign)
  ELSE
  IF ~n.valid THEN number.kind = "error"
  ELSE /\ cur = n.end
       /\ IF n.integer /\ FitsInt(n)
            THEN number = [kind |-> "int", value |-> (IF sign THEN -1 ELSE 1) * Appended(0, 1 + Bool(sign), Len(n.int))]
            ELSE /\ number.kind = "float" /\ number.neg = sign
                 /\ IsNearest(Value(n), number.raw)

\* READ_NUMBER returns the number, whichever of the three ways made it: neither
\* the bits that fast path 2 drops nor the error of the slow path reach the
\* result, nor do the digits that were cut, up to MaxDecDig of them and beyond
\* where KeepsEnough holds (decode_float.inl.h).  Nothing is said of the texts
\* where it does not.
NumberIsNearest == pc = "returned" /\ KeepsEnough => ReadsNumber

\* What BIGINT_SET_BUF says of the digits it drops: with the last one it keeps set
\* to 1 the number is rounded correctly, whichever they are.
DroppedDigitsRound == pc = "returned" => ReadsNumber
=============================================================================
