---------------------------- MODULE StrScanProofs ----------------------------
(***************************************************************************)
(* The scan of a string, for every document, every width of a vector and   *)
(* each of the instruction sets.                                           *)
(*                                                                         *)
(* What a string spells is defined from its end (Reading): From[p] is what *)
(* the text spells from p on.  The invariant (SofarInv) says that the      *)
(* whole reading is that of the rest, From[src], behind the characters     *)
(* made so far.  A vector without a stop moves its characters from the     *)
(* rest to those so far (ReadRun), an escape moves the one it stands for   *)
(* (ReadOne), and at the quote the rest is empty.  The induction over the  *)
(* text is by the least counterexample (Least).                            *)
(***************************************************************************)
EXTENDS StrScan, SequenceTheorems, WellFoundedInduction, TLAPS

\* A set of numbers has a least one.
LEMMA Least == ASSUME NEW S \in SUBSET Nat, S # {} PROVE \E n \in S : \A m \in S : n <= m
<1>1. IsWellFoundedOn(OpToRel(<, Nat), Nat)  BY NatLessThanWellFounded
<1>2. PICK x \in S : \A y \in S : ~ (<<y, x>> \in OpToRel(<, Nat))  BY <1>1, WFMin
<1>3. \A y \in S : ~ (y < x)  BY <1>2 DEF OpToRel
<1> QED BY <1>3

LEMMA MinIs ==
  ASSUME NEW S \in SUBSET Nat, S # {}
  PROVE  Min(S) \in S /\ \A y \in S : Min(S) <= y
  BY Least DEF Min

LEMMA MaxIs ==
  ASSUME NEW k \in Nat, NEW S \in SUBSET (0 .. k), S # {}
  PROVE  Max(S) \in S /\ \A y \in S : y <= Max(S)
<1> DEFINE D == {n \in Nat : \E x \in S : n = k - x}
<1>1. D \in SUBSET Nat /\ D # {}
  <2>1. PICK x \in S : TRUE  OBVIOUS
  <2>2. k - x \in D  BY <2>1
  <2>. QED  BY <2>2
<1>2. PICK n \in D : \A m \in D : n <= m  BY <1>1, Least
<1>3. PICK x \in S : n = k - x  BY <1>2
<1>4. \A y \in S : y <= x
  <2>1. TAKE y \in S
  <2>2. k - y \in D  OBVIOUS
  <2>. QED  BY <1>2, <1>3, <2>2
<1>5. \E z \in S : \A y \in S : z >= y  BY <1>3, <1>4
<1>. QED  BY <1>5 DEF Max

-----------------------------------------------------------------------------
(* The text.                                                               *)

InputOK == text \in Texts /\ before \in Before /\ isa \in Isas /\ isKey \in BOOLEAN

\* Intervals of code points are known by their bounds.
HighHalves == 55296 .. 56319
LowHalves == 56320 .. 57343

LEMMA HighIs == \A u \in Nat : u \in HighHalves <=> u >= 55296 /\ u <= 56319
<1>1. \A u \in HighHalves : u >= 55296 /\ u <= 56319  BY SMT DEF HighHalves
<1>2. \A u \in Nat : u >= 55296 /\ u <= 56319 => u \in HighHalves  BY SMT DEF HighHalves
<1>. QED  BY <1>1, <1>2

LEMMA LowIs == \A u \in Nat : u \in LowHalves <=> u >= 56320 /\ u <= 57343
<1>1. \A u \in LowHalves : u >= 56320 /\ u <= 57343  BY SMT DEF LowHalves
<1>2. \A u \in Nat : u >= 56320 /\ u <= 57343 => u \in LowHalves  BY SMT DEF LowHalves
<1>. QED  BY <1>1, <1>2

LEMMA SurrogateIs == \A u \in Nat : u \in Surrogates <=> u >= 55296 /\ u <= 57343
<1>1. \A u \in Surrogates : u >= 55296 /\ u <= 57343  BY SMT DEF Surrogates
<1>2. \A u \in Nat : u >= 55296 /\ u <= 57343 => u \in Surrogates  BY SMT DEF Surrogates
<1>. QED  BY <1>1, <1>2

LEMMA CodeIs == LastCode \in Nat /\ LastCode > 34 /\ \A c : c \in Codes <=> c \in Nat /\ c <= LastCode
<1>1. LastCode \in Nat /\ LastCode > 34  BY DEF LastCode
<1>2. \A c : c \in Codes <=> c \in Nat /\ c <= LastCode  BY <1>1, SMT DEF Codes
<1>. QED  BY <1>1, <1>2

LEMMA TextType ==
  ASSUME InputOK
  PROVE  /\ text \in Seq(Codes) /\ Len(text) \in Nat
         /\ \A i \in 1 .. Len(text) : text[i] \in Codes /\ text[i] \in Nat
         /\ \A i \in Int : At(i) \in Codes
         /\ \A i \in 1 .. Len(text) : At(i) = text[i]
         /\ \A i \in Int : i > Len(text) => At(i) = 0
<1>1. text \in Seq(Codes) /\ before \in Codes  BY TextsAssumption DEF InputOK
<1>2. Len(text) \in Nat /\ DOMAIN text = 1 .. Len(text)  BY <1>1
<1>3. \A i \in 1 .. Len(text) : text[i] \in Codes  BY <1>1
<1>. QED  BY <1>1, <1>2, <1>3, CodeIs DEF At

LEMMA TextOfNat == ASSUME InputOK PROVE text \in Seq(Nat)
<1>1. Codes \subseteq Nat  BY CodeIs
<1>. QED  BY <1>1, TextType, SeqMonotonic

Ones(p) == {[code |-> c, size |-> 1] : c \in {text[p]} \ ({34, 92} \cup 0 .. 31)}
Letters(p) ==
  {[code |-> ShortEscapes[l], size |-> 2] :
          l \in {l \in DOMAIN ShortEscapes : p < Len(text) /\ text[p] = 92 /\ text[p + 1] = l}}
Singles(p) == {[code |-> u, size |-> 6] : u \in UnitsAt(p) \ Surrogates}
PairOf(hi, lo) == [code |-> 65536 + 1024 * (hi - 55296) + lo - 56320, size |-> 12]
Pairs(p) == {PairOf(hi, lo) : hi \in UnitsAt(p) \cap HighHalves, lo \in UnitsAt(p + 6) \cap LowHalves}

LEMMA CharsParts == ASSUME NEW p PROVE CharsAt(p) = Ones(p) \cup Letters(p) \cup Singles(p) \cup Pairs(p)
  BY SMT DEF CharsAt, Ones, Letters, Singles, Pairs, PairOf, HighHalves, LowHalves

LEMMA NoBackslash ==
  ASSUME NEW p, text[p] # 92
  PROVE  CharsAt(p) = Ones(p)
<1>1. UnitsAt(p) = {}  BY DEF UnitsAt
<1>2. Letters(p) = {}  BY DEF Letters
<1>3. Singles(p) = {} /\ Pairs(p) = {}  BY <1>1 DEF Singles, Pairs
<1>. QED  BY <1>2, <1>3, CharsParts

LEMMA StopIs == \A c \in Nat : c \in {34, 92} \cup 0 .. 31 <=> c \in {34, 92} \/ c < 32
  BY SMT

LEMMA PlainChars ==
  ASSUME InputOK, NEW p \in 1 .. Len(text), ~IsStop(text[p])
  PROVE  CharsAt(p) = {[code |-> text[p], size |-> 1]}
<1>1. text[p] \in Nat /\ text[p] # 34 /\ text[p] # 92 /\ ~ (text[p] < 32)  BY TextType DEF IsStop
<1>2. text[p] \notin {34, 92} \cup 0 .. 31  BY <1>1, StopIs
<1>3. Ones(p) = {[code |-> text[p], size |-> 1]}  BY <1>2, Zenon DEF Ones
<1>. QED  BY <1>1, <1>3, NoBackslash

LEMMA StopChars ==
  ASSUME InputOK, NEW p \in 1 .. Len(text), IsStop(text[p]), text[p] # 92
  PROVE  CharsAt(p) = {}
<1>1. text[p] \in Nat /\ (text[p] = 34 \/ text[p] < 32)  BY TextType DEF IsStop
<1>2. text[p] \in {34, 92} \cup 0 .. 31  BY <1>1, StopIs
<1>3. Ones(p) = {}  BY <1>2, Zenon DEF Ones
<1>. QED  BY <1>3, NoBackslash

LEMMA HexType ==
  ASSUME InputOK, NEW p \in Int
  PROVE  HexAt(p) = -1 \/ (HexAt(p) \in Nat /\ HexAt(p) < 65536 /\ p + 3 <= Len(text))
<1>1. CASE p + 3 > Len(text)  BY <1>1, SMT DEF HexAt
<1>2. CASE ~ (p + 3 > Len(text))
  <2>. DEFINE c(n) == HexDigit(At(p + n))
  <2>1. \A n \in 0 .. 3 : c(n) \in Nat
    <3>1. \A b \in Nat : HexDigit(b) \in Nat  BY SMT DEF HexDigit
    <3>2. \A n \in 0 .. 3 : At(p + n) \in Nat  BY TextType, CodeIs
    <3>. QED  BY <3>1, <3>2
  <2>2. HexAt(p) = IF \E n \in 0 .. 3 : c(n) > 15 THEN -1 ELSE 16 * (16 * (16 * c(0) + c(1)) + c(2)) + c(3)
    BY <1>2, Zenon DEF HexAt, HexUnit
  <2>. HIDE DEF c
  <2>3. CASE \E n \in 0 .. 3 : c(n) > 15
    <3>1. HexAt(p) = -1  BY <2>2, <2>3, Zenon
    <3>. QED  BY <3>1, SMT
  <2>4. CASE ~ \E n \in 0 .. 3 : c(n) > 15
    <3>1. HexAt(p) = 16 * (16 * (16 * c(0) + c(1)) + c(2)) + c(3)  BY <2>2, <2>4, Zenon
    <3>2. c(0) \in 0 .. 15 /\ c(1) \in 0 .. 15 /\ c(2) \in 0 .. 15 /\ c(3) \in 0 .. 15  BY <2>1, <2>4
    <3>3. PICK h0 \in 0 .. 15, h1 \in 0 .. 15, h2 \in 0 .. 15, h3 \in 0 .. 15 :
             HexAt(p) = 16 * (16 * (16 * h0 + h1) + h2) + h3
      BY <3>1, <3>2, Zenon
    <3>. QED  BY <1>2, <3>3, TextType, SMT
  <2>. QED  BY <2>3, <2>4, SMT
<1>. QED  BY <1>1, <1>2, SMT

Letter == {34, 92, 47, 98, 102, 110, 114, 116}

LEMMA LettersAre == DOMAIN ShortEscapes = Letter /\ \A l \in Letter : ShortEscapes[l] \in Nat
<1>1. DOMAIN ShortEscapes = Letter  BY DEF ShortEscapes, Letter
<1>2. \A l \in Letter : ShortEscapes[l] \in Nat  BY DEF ShortEscapes, Letter
<1>. QED  BY <1>1, <1>2

\* The unit that an escape at p spells.
LEMMA UnitAt ==
  ASSUME InputOK, NEW p \in Nat, p >= 1
  PROVE  UnitsAt(p) = IF At(p) = 92 /\ At(p + 1) = 117 /\ HexAt(p + 2) # -1 THEN {HexAt(p + 2)} ELSE {}
<1>1. CASE p + 5 <= Len(text)
  <2>1. At(p) = text[p] /\ At(p + 1) = text[p + 1]  BY <1>1, TextType
  <2>. QED  BY <1>1, <2>1 DEF UnitsAt
<1>2. CASE ~ (p + 5 <= Len(text))
  <2>1. UnitsAt(p) = {}  BY <1>2 DEF UnitsAt
  <2>2. HexAt(p + 2) = -1  BY <1>2, HexType, TextType
  <2>. QED  BY <2>1, <2>2
<1>. QED  BY <1>1, <1>2

IsChars(p, e) ==
  \/ e.size = 0 /\ CharsAt(p) = {}
  \/ e.size \in {2, 6, 12} /\ e.code \in Nat /\ p + e.size <= Len(text) + 1 /\ CharsAt(p) = {e}

LEMMA NoOnes ==
  ASSUME InputOK, NEW p \in 1 .. Len(text), text[p] = 92
  PROVE  Ones(p) = {} /\ At(p) = 92
<1>1. {text[p]} \ ({34, 92} \cup 0 .. 31) = {}  BY Zenon
<1>. QED  BY <1>1, TextType DEF Ones

LEMMA LetterChars ==
  ASSUME InputOK, NEW p \in 1 .. Len(text), text[p] = 92, At(p + 1) \in Letter
  PROVE  IsChars(p, EscapeAt(p))
<1>. DEFINE e == [code |-> ShortEscapes[At(p + 1)], size |-> 2]
<1>1. p < Len(text) /\ text[p + 1] = At(p + 1)  BY TextType DEF Letter
<1>2. UnitsAt(p) = {}  BY UnitAt, TextType DEF Letter
<1>3. Singles(p) = {} /\ Pairs(p) = {}  BY <1>2 DEF Singles, Pairs
<1>4. Letters(p) = {e}  BY <1>1, LettersAre, Zenon DEF Letters
<1>5. CharsAt(p) = {e}  BY <1>3, <1>4, NoOnes, CharsParts
<1>6. EscapeAt(p) = e  BY LettersAre, Zenon DEF EscapeAt
<1>7. ShortEscapes[At(p + 1)] \in Nat  BY LettersAre
<1>. HIDE DEF e
<1>8. e.size = 2 /\ e.code \in Nat  BY <1>7 DEF e
<1>9. p + e.size <= Len(text) + 1  BY <1>1, <1>8, TextType
<1>. QED  BY <1>5, <1>6, <1>8, <1>9 DEF IsChars

LEMMA NoLetters ==
  ASSUME InputOK, NEW p \in 1 .. Len(text), At(p + 1) \notin Letter
  PROVE  Letters(p) = {}
<1>1. p < Len(text) => text[p + 1] = At(p + 1)  BY TextType
<1>. QED  BY <1>1, LettersAre, Zenon DEF Letters

LEMMA Halves ==
  \A u \in Nat :
    /\ u \div 2048 = 27 <=> u >= 55296 /\ u <= 57343
    /\ u \div 1024 = 54 <=> u >= 55296 /\ u <= 56319
    /\ u \div 1024 = 55 <=> u >= 56320 /\ u <= 57343
    /\ u \div 1024 = 54 => u % 1024 = u - 55296
    /\ u \div 1024 = 55 => u % 1024 = u - 56320
  BY SMT

LEMMA NoneOrSingle ==
  ASSUME InputOK, NEW p \in 1 .. Len(text), text[p] = 92, At(p + 1) \notin Letter,
         \/ At(p + 1) # 117 \/ HexAt(p + 2) = -1
         \/ HexAt(p + 2) \notin Surrogates
  PROVE  IsChars(p, EscapeAt(p))
<1>1. Letters(p) = {} /\ Ones(p) = {}  BY NoLetters, NoOnes
<1>2. CASE At(p + 1) # 117 \/ HexAt(p + 2) = -1
  <2>1. UnitsAt(p) = {}  BY <1>2, UnitAt
  <2>2. CharsAt(p) = {}  BY <1>1, <2>1, CharsParts DEF Singles, Pairs
  <2>3. EscapeAt(p) = NoEscape  BY <1>2, LettersAre, Zenon DEF EscapeAt
  <2>. QED  BY <2>2, <2>3 DEF IsChars, NoEscape
<1>3. CASE At(p + 1) = 117 /\ HexAt(p + 2) # -1
  <2>. DEFINE hi == HexAt(p + 2)
  <2>1. hi \in Nat /\ hi < 65536 /\ p + 5 <= Len(text)  BY <1>3, HexType
  <2>2. UnitsAt(p) = {hi}  BY <1>3, UnitAt, NoOnes
  <2>4. hi \notin Surrogates  BY <1>3
  <2>5. ~ (hi >= 55296 /\ hi <= 57343)  BY <2>1, <2>4, SurrogateIs
  <2>3. EscapeAt(p) = [code |-> hi, size |-> 6]
    <3>1. hi \div 2048 # 27  BY <2>1, <2>5, Halves
    <3>2. At(p + 1) \notin DOMAIN ShortEscapes  BY LettersAre
    <3>. QED  BY <1>3, <3>1, <3>2, SMT DEF EscapeAt
  <2>. HIDE DEF hi
  <2>6. hi \notin Surrogates /\ hi \notin HighHalves
    BY <2>1, <2>4, <2>5, HighIs, SMT
  <2>7. Singles(p) = {[code |-> hi, size |-> 6]} /\ Pairs(p) = {}
    BY <2>2, <2>6 DEF Singles, Pairs
  <2>8. CharsAt(p) = {[code |-> hi, size |-> 6]}  BY <1>1, <2>7, CharsParts
  <2>. QED  BY <2>1, <2>3, <2>8, TextType DEF IsChars
<1>. QED  BY <1>2, <1>3

LEMMA PairCodeIs ==
  ASSUME NEW hi \in Nat, NEW lo \in Nat, hi \div 1024 = 54, lo \div 1024 = 55
  PROVE  /\ PairOf(hi, lo) = [code |-> PairCode(hi, lo), size |-> 12]
         /\ PairCode(hi, lo) \in Nat
         /\ hi \in HighHalves /\ lo \in LowHalves /\ hi \in Surrogates
<1>1. hi >= 55296 /\ hi <= 56319 /\ lo >= 56320 /\ lo <= 57343  BY Halves
<1>2. hi % 1024 = hi - 55296 /\ lo % 1024 = lo - 56320  BY Halves
<1>3. PairCode(hi, lo) = 65536 + 1024 * (hi - 55296) + lo - 56320  BY <1>2, SMT DEF PairCode
<1>4. 65536 + 1024 * (hi - 55296) + lo - 56320 \in Nat  BY <1>1, SMT
<1>5. hi \in HighHalves /\ lo \in LowHalves /\ hi \in Surrogates  BY <1>1, HighIs, LowIs, SurrogateIs, SMT
<1>. QED  BY <1>3, <1>4, <1>5, SMT DEF PairOf

LEMMA PairChars ==
  ASSUME InputOK, NEW p \in 1 .. Len(text), text[p] = 92, At(p + 1) = 117,
         HexAt(p + 2) # -1, HexAt(p + 2) \in Surrogates
  PROVE  IsChars(p, EscapeAt(p))
<1>. DEFINE Pairing(hi, lo) == /\ hi \div 1024 = 54
                               /\ At(p + 6) = 92 /\ At(p + 7) = 117
                               /\ lo # -1 /\ lo \div 1024 = 55
<1>1. Letters(p) = {} /\ Ones(p) = {}  BY NoLetters, NoOnes DEF Letter
<1>2. PICK hi \in Nat : hi = HexAt(p + 2)  BY HexType
<1>3. PICK lo \in Nat \cup {-1} : lo = HexAt(p + 8) /\ (lo # -1 => p + 11 <= Len(text))  BY HexType
<1>4. UnitsAt(p) = {hi}  BY <1>2, UnitAt, NoOnes
<1>5. EscapeAt(p) = PairAt(p, hi)
  <2>1. hi \div 2048 = 27  BY <1>2, SurrogateIs, Halves, SMT
  <2>2. 117 \notin Letter  BY DEF Letter
  <2>3. At(p + 1) \notin DOMAIN ShortEscapes  BY <2>2, LettersAre
  <2>. QED  BY <1>2, <2>1, <2>3, SMT DEF EscapeAt
<1>6. UnitsAt(p + 6) = IF At(p + 6) = 92 /\ At(p + 7) = 117 /\ lo # -1 THEN {lo} ELSE {}
  <2>1. \A q \in Nat : q >= 1 => UnitsAt(q) = IF At(q) = 92 /\ At(q + 1) = 117 /\ HexAt(q + 2) # -1
                                               THEN {HexAt(q + 2)} ELSE {}
    BY UnitAt
  <2>2. PICK q \in Nat : q = p + 6 /\ q + 1 = p + 7 /\ q + 2 = p + 8 /\ q >= 1  OBVIOUS
  <2>3. UnitsAt(q) = IF At(q) = 92 /\ At(q + 1) = 117 /\ HexAt(q + 2) # -1 THEN {HexAt(q + 2)} ELSE {}
    BY <2>1, <2>2
  <2>. QED  BY <1>3, <2>2, <2>3
<1>7. PairAt(p, hi) = IF Pairing(hi, lo) THEN [code |-> PairCode(hi, lo), size |-> 12] ELSE NoEscape
  BY <1>3, SMT DEF PairAt
<1>9. hi \in Surrogates /\ (hi \in HighHalves <=> hi \div 1024 = 54)
  BY <1>2, Halves, HighIs, SMT
<1>10. lo # -1 => (lo \in LowHalves <=> lo \div 1024 = 55)
  BY LowIs, Halves, SMT
<1>11. Singles(p) = {}  BY <1>4, <1>9 DEF Singles
<1>12. CharsAt(p) = Pairs(p)  BY <1>1, <1>11, CharsParts, Zenon
<1>13. Pairing(hi, lo) => hi \in HighHalves /\ UnitsAt(p + 6) = {lo} /\ lo \in LowHalves
  BY <1>6, <1>9, <1>10
<1>14. Pairing(hi, lo) => lo \in Nat /\ p + 11 <= Len(text) /\ hi \div 1024 = 54 /\ lo \div 1024 = 55
  BY <1>3, SMT
<1>15. ~ Pairing(hi, lo) => hi \notin HighHalves \/ UnitsAt(p + 6) \cap LowHalves = {}
  BY <1>3, <1>6, <1>9, <1>10, SMT
<1>. HIDE DEF Pairing
<1>16. CASE Pairing(hi, lo)
  <2>1. UnitsAt(p) \cap HighHalves = {hi} /\ UnitsAt(p + 6) \cap LowHalves = {lo}
    BY <1>4, <1>13, <1>16
  <2>2. Pairs(p) = {PairOf(hi, lo)}
    <3>1. ASSUME NEW x \in Pairs(p) PROVE x = PairOf(hi, lo)
      <4>1. \E h \in UnitsAt(p) \cap HighHalves, l \in UnitsAt(p + 6) \cap LowHalves : x = PairOf(h, l)
        BY <3>1, SMT DEF Pairs
      <4>. QED  BY <2>1, <4>1
    <3>2. PairOf(hi, lo) \in Pairs(p)
      <4>1. hi \in UnitsAt(p) \cap HighHalves /\ lo \in UnitsAt(p + 6) \cap LowHalves  BY <2>1
      <4>. QED  BY <4>1, SMT DEF Pairs
    <3>. QED  BY <3>1, <3>2
  <2>3. EscapeAt(p) = [code |-> PairCode(hi, lo), size |-> 12]  BY <1>5, <1>7, <1>16, SMT
  <2>4. PairOf(hi, lo) = EscapeAt(p) /\ PairCode(hi, lo) \in Nat  BY <1>14, <1>16, <2>3, PairCodeIs, SMT
  <2>5. p + 12 <= Len(text) + 1  BY <1>14, <1>16, TextType, SMT
  <2>. QED  BY <1>12, <2>2, <2>3, <2>4, <2>5, SMT DEF IsChars
<1>17. CASE ~ Pairing(hi, lo)
  <2>1. UnitsAt(p) \cap HighHalves = {} \/ UnitsAt(p + 6) \cap LowHalves = {}
    BY <1>4, <1>15, <1>17
  <2>2. Pairs(p) = {}
    <3>1. \A x : x \notin Pairs(p)  BY <2>1, SMT DEF Pairs
    <3>. QED  BY <3>1, SMT
  <2>3. EscapeAt(p) = NoEscape  BY <1>5, <1>7, <1>17, SMT
  <2>. QED  BY <1>12, <2>2, <2>3, SMT DEF IsChars, NoEscape
<1>. QED  BY <1>16, <1>17

\* The code reads an escape where there is one, and reads the character it
\* stands for.
LEMMA EscapeChars ==
  ASSUME InputOK, NEW p \in 1 .. Len(text), text[p] = 92
  PROVE  IsChars(p, EscapeAt(p))
  BY LetterChars, NoneOrSingle, PairChars

LEMMA CharSizes ==
  ASSUME InputOK, NEW p \in 1 .. Len(text)
  PROVE  \/ CharsAt(p) = {}
         \/ \E e : /\ CharsAt(p) = {e}
                   /\ e.size \in Nat /\ e.size >= 1 /\ p + e.size <= Len(text) + 1
                   /\ e.code \in Nat
<1>1. CASE text[p] = 92
  <2>1. IsChars(p, EscapeAt(p))  BY <1>1, EscapeChars
  <2>2. CASE EscapeAt(p).size = 0 /\ CharsAt(p) = {}  BY <2>2
  <2>3. CASE ~ (EscapeAt(p).size = 0 /\ CharsAt(p) = {})
    <3>1. PICK e : e = EscapeAt(p)  OBVIOUS
    <3>2. e.size \in {2, 6, 12} /\ e.code \in Nat /\ p + e.size <= Len(text) + 1 /\ CharsAt(p) = {e}
      BY <2>1, <2>3, <3>1 DEF IsChars
    <3>. QED  BY <3>2
  <2>. QED  BY <2>2, <2>3
<1>2. CASE text[p] # 92 /\ IsStop(text[p])  BY <1>2, StopChars
<1>3. CASE ~ IsStop(text[p])
  <2>1. PICK e : e = [code |-> text[p], size |-> 1]  OBVIOUS
  <2>2. CharsAt(p) = {e}  BY <1>3, <2>1, PlainChars
  <2>3. e.size = 1 /\ e.code \in Nat  BY <2>1, TextType
  <2>. QED  BY <2>2, <2>3, TextType
<1>. QED  BY <1>1, <1>2, <1>3

-----------------------------------------------------------------------------
(* What the text spells, from any place on.                                *)

Extended(ch, R) ==
  {[chars |-> <<ch.code>> \o rest.chars, end |-> rest.end,
    raw |-> rest.raw \cup (IF ch.size = 1 THEN {ch.code} ELSE {})] : rest \in R}

Rest(f, p) ==
  IF p > Len(text) THEN {}
  ELSE IF text[p] = 34 THEN {[chars |-> <<>>, end |-> p + 1, raw |-> {}]}
  ELSE UNION {Extended(ch, f[p + ch.size]) : ch \in CharsAt(p)}

IsFrom(f) == f = [p \in 1 .. Len(text) + 1 |-> Rest(f, p)]
From == CHOOSE f : IsFrom(f)

LEMMA ReadingIs == Reading = From[1]
  BY DEF Reading, From, IsFrom, Rest, Extended

LEMMA ReadingStays == ASSUME UNCHANGED fixed PROVE Reading' = Reading
  BY DEF fixed, Reading, CharsAt, UnitsAt, HexAt, HexUnit, At
LEMMA FromStays == ASSUME UNCHANGED fixed PROVE From' = From
  BY DEF fixed, From, IsFrom, Rest, CharsAt, UnitsAt, HexAt, HexUnit, At

LEMMA RestOfOne ==
  ASSUME InputOK, NEW f, NEW p \in 1 .. Len(text), NEW e, text[p] # 34, CharsAt(p) = {e}
  PROVE  Rest(f, p) = Extended(e, f[p + e.size])
<1>1. ~ (p > Len(text))
  BY TextType
<1>2. UNION {Extended(ch, f[p + ch.size]) : ch \in {e}} = Extended(e, f[p + e.size])
  BY Zenon
<1>. QED  BY <1>1, <1>2, Zenon DEF Rest

LEMMA RestOfNone ==
  ASSUME NEW f, NEW p, text[p] # 34, CharsAt(p) = {}
  PROVE  Rest(f, p) = {}
<1>1. UNION {Extended(ch, f[p + ch.size]) : ch \in {}} = {}
  BY Zenon
<1>. QED  BY <1>1, Zenon DEF Rest

\* Only what comes later is looked at.
LEMMA RestLooksAhead ==
  ASSUME InputOK, NEW f, NEW g, NEW p \in 1 .. Len(text) + 1,
         \A q \in 1 .. Len(text) + 1 : q > p => f[q] = g[q]
  PROVE  Rest(f, p) = Rest(g, p)
<1>1. CASE p > Len(text) \/ text[p] = 34  BY <1>1, Zenon DEF Rest
<1>2. CASE p <= Len(text) /\ text[p] # 34
  <2>1. p \in 1 .. Len(text)  BY <1>2, TextType
  <2>2. CASE CharsAt(p) = {}  BY <1>2, <2>2, RestOfNone, Zenon
  <2>3. CASE CharsAt(p) # {}
    <3>1. PICK e : /\ CharsAt(p) = {e}
                   /\ e.size \in Nat /\ e.size >= 1 /\ p + e.size <= Len(text) + 1
      BY <2>1, <2>3, CharSizes
    <3>2. PICK n \in Nat : n = e.size /\ n >= 1 /\ p + n <= Len(text) + 1  BY <3>1
    <3>3. p + n \in 1 .. Len(text) + 1 /\ p + n > p  BY <2>1, <3>2, TextType
    <3>4. f[p + e.size] = g[p + e.size]  BY <3>2, <3>3, Zenon
    <3>5. Rest(f, p) = Extended(e, f[p + e.size]) /\ Rest(g, p) = Extended(e, g[p + e.size])
      BY <1>2, <2>1, <3>1, RestOfOne
    <3>. QED  BY <3>4, <3>5, Zenon
  <2>. QED  BY <2>2, <2>3
<1>. QED  BY <1>1, <1>2, TextType

\* Defined on the last k places as it should be.
Defined(f, k) ==
  /\ f = [p \in 1 .. Len(text) + 1 |-> f[p]]
  /\ \A p \in 1 .. Len(text) + 1 : p > Len(text) + 1 - k => f[p] = Rest(f, p)

LEMMA DefinedFarther ==
  ASSUME InputOK, NEW k \in Nat, NEW f, Defined(f, k)
  PROVE  \E g : Defined(g, k + 1)
<1>. DEFINE q == Len(text) + 1 - k
            g == [p \in 1 .. Len(text) + 1 |-> IF p = q THEN Rest(f, q) ELSE f[p]]
<1>1. Len(text) \in Nat  BY TextType
<1>2. \A p \in 1 .. Len(text) + 1 : g[p] = IF p = q THEN Rest(f, q) ELSE f[p]  OBVIOUS
<1>3. g = [p \in 1 .. Len(text) + 1 |-> g[p]]  OBVIOUS
<1>. HIDE DEF g
<1>4. ASSUME NEW p \in 1 .. Len(text) + 1, p > Len(text) + 1 - (k + 1) PROVE g[p] = Rest(g, p)
  <2>1. p >= q  BY <1>1, <1>4
  <2>2. \A r \in 1 .. Len(text) + 1 : r > p => f[r] = g[r]  BY <1>1, <1>2, <2>1
  <2>3. Rest(f, p) = Rest(g, p)  BY <2>2, RestLooksAhead
  <2>4. CASE p = q  BY <1>2, <2>3, <2>4
  <2>5. CASE p # q
    <3>1. p > Len(text) + 1 - k  BY <1>1, <2>1, <2>5
    <3>2. f[p] = Rest(f, p)  BY <3>1 DEF Defined
    <3>. QED  BY <1>2, <2>3, <2>5, <3>2
  <2>. QED  BY <2>4, <2>5
<1>. QED  BY <1>3, <1>4 DEF Defined

LEMMA DefinedEverywhere == ASSUME InputOK, NEW k \in Nat PROVE \E f : Defined(f, k)
<1>. DEFINE Bad == {n \in Nat : ~ \E f : Defined(f, n)}
<1>1. Len(text) \in Nat  BY TextType
<1>2. 0 \notin Bad
  <2>1. Defined([p \in 1 .. Len(text) + 1 |-> {}], 0)  BY <1>1 DEF Defined
  <2>. QED  BY <2>1
<1>3. ASSUME Bad # {} PROVE FALSE
  <2>1. PICK n \in Bad : \A m \in Bad : n <= m  BY <1>3, Least
  <2>2. n \in Nat /\ n # 0 /\ n - 1 \in Nat /\ n - 1 \notin Bad  BY <1>2, <2>1
  <2>3. PICK f : Defined(f, n - 1)  BY <2>2
  <2>4. \E g : Defined(g, (n - 1) + 1)  BY <2>2, <2>3, DefinedFarther
  <2>5. (n - 1) + 1 = n  BY <2>2
  <2>. QED  BY <2>1, <2>4, <2>5
<1>. QED  BY <1>3

LEMMA FromIs == ASSUME InputOK PROVE IsFrom(From)
<1>1. Len(text) \in Nat  BY TextType
<1>2. PICK f : Defined(f, Len(text) + 1)  BY <1>1, DefinedEverywhere
<1>3. \A p \in 1 .. Len(text) + 1 : f[p] = Rest(f, p)  BY <1>1, <1>2 DEF Defined
<1>4. IsFrom(f)  BY <1>2, <1>3 DEF Defined, IsFrom
<1>. QED  BY <1>4 DEF From

LEMMA FromStep ==
  ASSUME InputOK, NEW p \in 1 .. Len(text) + 1
  PROVE  From[p] = Rest(From, p)
<1>1. IsFrom(From)  BY FromIs
<1>. QED  BY <1>1, Zenon DEF IsFrom

\* The places where nothing goes on.
LEMMA FromEnds ==
  ASSUME InputOK
  PROVE  /\ From[Len(text) + 1] = {}
         /\ \A p \in 1 .. Len(text) : text[p] = 34 => From[p] = {[chars |-> <<>>, end |-> p + 1, raw |-> {}]}
         /\ \A p \in 1 .. Len(text) : text[p] # 34 /\ CharsAt(p) = {} => From[p] = {}
<1>1. Len(text) \in Nat  BY TextType
<1>2. From[Len(text) + 1] = {}
  <2>1. Len(text) + 1 \in 1 .. Len(text) + 1 /\ Len(text) + 1 > Len(text)  BY <1>1
  <2>2. Rest(From, Len(text) + 1) = {}  BY <2>1, Zenon DEF Rest
  <2>. QED  BY <2>1, <2>2, FromStep, Zenon
<1>3. ASSUME NEW p \in 1 .. Len(text) PROVE p \in 1 .. Len(text) + 1 /\ ~ (p > Len(text))
  BY <1>1
<1>4. ASSUME NEW p \in 1 .. Len(text), text[p] = 34
      PROVE  From[p] = {[chars |-> <<>>, end |-> p + 1, raw |-> {}]}
  <2>1. Rest(From, p) = {[chars |-> <<>>, end |-> p + 1, raw |-> {}]}  BY <1>3, <1>4, Zenon DEF Rest
  <2>. QED  BY <1>3, <2>1, FromStep, Zenon
<1>5. ASSUME NEW p \in 1 .. Len(text), text[p] # 34, CharsAt(p) = {} PROVE From[p] = {}
  <2>1. Rest(From, p) = {}  BY <1>5, RestOfNone, Zenon
  <2>2. Rest(From, p) = {}
    BY <2>1
  <2>. QED  BY <1>3, <2>1, FromStep, Zenon
<1>. QED  BY <1>2, <1>4, <1>5, Zenon

LEMMA FromOne ==
  ASSUME InputOK, NEW p \in 1 .. Len(text), NEW e, text[p] # 34, CharsAt(p) = {e}
  PROVE  From[p] = Extended(e, From[p + e.size])
<1>1. p \in 1 .. Len(text) + 1  BY TextType
<1>2. From[p] = Rest(From, p)  BY <1>1, FromStep, Zenon
<1>3. Rest(From, p) = Extended(e, From[p + e.size])  BY RestOfOne, Zenon
<1>. QED  BY <1>2, <1>3, Zenon

Readings == [chars : Seq(Nat), end : Nat, raw : SUBSET Nat]

LEMMA OneType == \A c \in Nat : <<c>> \in Seq(Nat)
  OBVIOUS

LEMMA ExtendedType ==
  ASSUME NEW e, e.code \in Nat, NEW R \in SUBSET Readings
  PROVE  Extended(e, R) \in SUBSET Readings
<1>1. PICK c \in Nat : c = e.code  OBVIOUS
<1>2. ASSUME NEW r \in R
      PROVE  [chars |-> <<c>> \o r.chars, end |-> r.end,
              raw |-> r.raw \cup (IF e.size = 1 THEN {c} ELSE {})] \in Readings
  <2>1. r.chars \in Seq(Nat) /\ r.end \in Nat /\ r.raw \in SUBSET Nat  BY DEF Readings
  <2>2. <<c>> \o r.chars \in Seq(Nat)  BY <2>1, OneType, ConcatProperties
  <2>3. r.raw \cup (IF e.size = 1 THEN {c} ELSE {}) \in SUBSET Nat  BY <2>1
  <2>. QED  BY <2>1, <2>2, <2>3, Zenon DEF Readings
<1>. QED  BY <1>1, <1>2, Zenon DEF Extended

LEMMA FromType ==
  ASSUME InputOK, NEW p \in 1 .. Len(text) + 1
  PROVE  From[p] \in SUBSET Readings
<1>. DEFINE end == Len(text) + 1
            Bad == {n \in Nat : n < end /\ From[end - n] \notin SUBSET Readings}
<1>1. Len(text) \in Nat  BY TextType
<1>2. ASSUME Bad # {} PROVE FALSE
  <2>1. PICK n \in Bad : \A m \in Bad : n <= m  BY <1>2, Least
  <2>2. n \in Nat /\ n < end /\ From[end - n] \notin SUBSET Readings  BY <2>1
  <2>3. PICK q \in 1 .. end : q = end - n  BY <1>1, <2>2
  <2>4. q # end /\ q \in 1 .. Len(text)
    <3>1. q # end
      <4>1. From[end] \in SUBSET Readings  BY FromEnds
      <4>. QED  BY <2>2, <2>3, <4>1, Zenon
    <3>. QED  BY <1>1, <2>3, <3>1
  <2>5. text[q] # 34
    <3>1. SUFFICES ASSUME text[q] = 34 PROVE FALSE  OBVIOUS
    <3>2. From[q] = {[chars |-> <<>>, end |-> q + 1, raw |-> {}]}  BY <2>4, <3>1, FromEnds
    <3>3. <<>> \in Seq(Nat) /\ q + 1 \in Nat /\ {} \in SUBSET Nat  BY <2>4
    <3>4. [chars |-> <<>>, end |-> q + 1, raw |-> {}] \in Readings  BY <3>3, Zenon DEF Readings
    <3>. QED  BY <2>2, <2>3, <3>2, <3>4, Zenon
  <2>6. CharsAt(q) # {}
    <3>1. SUFFICES ASSUME CharsAt(q) = {} PROVE FALSE  OBVIOUS
    <3>2. From[q] = {}  BY <2>4, <2>5, <3>1, FromEnds
    <3>. QED  BY <2>2, <2>3, <3>2, Zenon
  <2>7. PICK e : /\ CharsAt(q) = {e}
                 /\ e.size \in Nat /\ e.size >= 1 /\ q + e.size <= Len(text) + 1
                 /\ e.code \in Nat
    BY <2>4, <2>6, CharSizes
  <2>8. PICK z \in Nat : z = e.size /\ z >= 1 /\ q + z <= Len(text) + 1  BY <2>7
  <2>9. From[q] = Extended(e, From[q + z])  BY <2>4, <2>5, <2>7, <2>8, FromOne, Zenon
  <2>10. From[q + z] \in SUBSET Readings
    <3>1. PICK m \in Nat : m = n - z /\ m < n /\ m < end /\ end - m = q + z
      BY <1>1, <2>2, <2>3, <2>8
    <3>2. m \notin Bad  BY <2>1, <3>1
    <3>. QED  BY <3>1, <3>2
  <2>11. From[q] \in SUBSET Readings
    <3>1. PICK R \in SUBSET Readings : R = From[q + z]  BY <2>10
    <3>2. Extended(e, R) \in SUBSET Readings  BY <2>7, ExtendedType
    <3>. QED  BY <2>9, <3>1, <3>2, Zenon
  <2>. QED  BY <2>2, <2>3, <2>11, Zenon
<1>3. PICK n \in Nat : n < end /\ p = end - n
  <2>1. end - p \in Nat /\ end - p < end /\ p = end - (end - p)  BY <1>1
  <2>. QED  BY <2>1
<1>4. n \notin Bad  BY <1>2
<1>. QED  BY <1>3, <1>4

\* The readings R behind the characters a, those of A for themselves.
Prefixed(a, A, R) == {[chars |-> a \o r.chars, end |-> r.end, raw |-> A \cup r.raw] : r \in R}

Raw(A, e) == A \cup (IF e.size = 1 THEN {e.code} ELSE {})

LEMMA JoinsAlike ==
  ASSUME NEW s \in Seq(Nat), NEW t \in Seq(Nat), NEW u \in Seq(Nat)
  PROVE  (s \o t) \o u = s \o (t \o u)
<1>1. s \o t \in Seq(Nat) /\ t \o u \in Seq(Nat)  BY ConcatProperties
<1>2. (s \o t) \o u \in Seq(Nat) /\ s \o (t \o u) \in Seq(Nat)  BY <1>1, ConcatProperties
<1>3. Len(s) \in Nat /\ Len(t) \in Nat /\ Len(u) \in Nat  OBVIOUS
<1>4. Len((s \o t) \o u) = Len(s) + Len(t) + Len(u) /\ Len(s \o (t \o u)) = Len(s) + Len(t) + Len(u)
  BY <1>1, <1>3, ConcatProperties
<1>5. \A i \in 1 .. Len(s) + Len(t) + Len(u) : ((s \o t) \o u)[i] = (s \o (t \o u))[i]
  BY <1>1, <1>3, ConcatProperties
<1>. QED  BY <1>2, <1>4, <1>5, SeqEqual

LEMMA PrefixStep ==
  ASSUME NEW a \in Seq(Nat), NEW A, NEW e, e.code \in Nat, NEW R \in SUBSET Readings
  PROVE  Prefixed(a, A, Extended(e, R)) = Prefixed(a \o <<e.code>>, Raw(A, e), R)
<1>. DEFINE X == IF e.size = 1 THEN {e.code} ELSE {}
            Ext(r) == [chars |-> <<e.code>> \o r.chars, end |-> r.end, raw |-> r.raw \cup X]
            Pre(r) == [chars |-> a \o r.chars, end |-> r.end, raw |-> A \cup r.raw]
            Both(r) == [chars |-> (a \o <<e.code>>) \o r.chars, end |-> r.end, raw |-> Raw(A, e) \cup r.raw]
<1>1. ASSUME NEW r \in R PROVE Pre(Ext(r)) = Both(r)
  <2>1. r.chars \in Seq(Nat)  BY DEF Readings
  <2>2. (a \o <<e.code>>) \o r.chars = a \o (<<e.code>> \o r.chars)
    <3>1. PICK one \in Seq(Nat) : one = <<e.code>>  BY OneType
    <3>2. PICK chars \in Seq(Nat) : chars = r.chars  BY <2>1
    <3>3. (a \o one) \o chars = a \o (one \o chars)  BY JoinsAlike, Zenon
    <3>. QED  BY <3>1, <3>2, <3>3, Zenon
  <2>3. A \cup (r.raw \cup X) = Raw(A, e) \cup r.raw  BY Zenon DEF Raw
  <2>4. Ext(r).chars = <<e.code>> \o r.chars /\ Ext(r).end = r.end /\ Ext(r).raw = r.raw \cup X  OBVIOUS
  <2>. QED  BY <2>2, <2>3, <2>4, Zenon
<1>2. Extended(e, R) = {Ext(r) : r \in R}  BY DEF Extended
<1>3. Prefixed(a, A, Extended(e, R)) = {Pre(x) : x \in {Ext(r) : r \in R}}  BY <1>2, Zenon DEF Prefixed
<1>4. Prefixed(a \o <<e.code>>, Raw(A, e), R) = {Both(r) : r \in R}  BY Zenon DEF Prefixed
<1>. HIDE DEF Ext, Pre, Both
<1>5. {Pre(x) : x \in {Ext(r) : r \in R}} = {Both(r) : r \in R}  BY <1>1, SMT
<1>. QED  BY <1>3, <1>4, <1>5, Zenon

\* Reading one character from p on.
LEMMA ReadOne ==
  ASSUME InputOK, NEW p \in 1 .. Len(text), NEW e, NEW a \in Seq(Nat), NEW A,
         text[p] # 34, CharsAt(p) = {e}, e.code \in Nat, p + e.size \in 1 .. Len(text) + 1
  PROVE  Prefixed(a, A, From[p]) = Prefixed(a \o <<e.code>>, Raw(A, e), From[p + e.size])
<1>2. PICK R \in SUBSET Readings : R = From[p + e.size]  BY FromType
<1>3. From[p] = Extended(e, R)  BY <1>2, FromOne, Zenon
<1>4. Prefixed(a, A, Extended(e, R)) = Prefixed(a \o <<e.code>>, Raw(A, e), R)  BY PrefixStep
<1>. QED  BY <1>2, <1>3, <1>4, Zenon

LEMMA ReadPlain ==
  ASSUME InputOK, NEW p \in 1 .. Len(text), ~ IsStop(text[p]), NEW a \in Seq(Nat), NEW A
  PROVE  Prefixed(a, A, From[p]) = Prefixed(a \o <<text[p]>>, A \cup {text[p]}, From[p + 1])
<1>1. PICK e : e = [code |-> text[p], size |-> 1]  OBVIOUS
<1>2. e.code = text[p] /\ e.size = 1  BY <1>1
<1>3. CharsAt(p) = {e}  BY <1>1, PlainChars
<1>4. e.code \in Nat /\ text[p] # 34  BY <1>2, TextType DEF IsStop
<1>5. Raw(A, e) = A \cup {text[p]}  BY <1>2, Zenon DEF Raw
<1>6. p + 1 \in 1 .. Len(text) + 1  BY TextType
<1>7. p + e.size \in 1 .. Len(text) + 1  BY <1>2, <1>6, Zenon
<1>8. Prefixed(a, A, From[p]) = Prefixed(a \o <<e.code>>, Raw(A, e), From[p + e.size])
  BY <1>3, <1>4, <1>7, ReadOne
<1>. QED  BY <1>2, <1>5, <1>8, Zenon

Chars(p, n) == {text[i] : i \in p .. p + n - 1}

\* Reading n characters that stand for themselves.
LEMMA ReadRun ==
  ASSUME InputOK, NEW p \in 1 .. Len(text) + 1, NEW n \in Nat, p + n <= Len(text) + 1,
         \A i \in p .. p + n - 1 : ~ IsStop(text[i]),
         NEW a \in Seq(Nat), NEW A
  PROVE  Prefixed(a, A, From[p]) = Prefixed(a \o SubSeq(text, p, p + n - 1), A \cup Chars(p, n), From[p + n])
<1>. DEFINE Read(m) == Prefixed(a, A, From[p]) = Prefixed(a \o SubSeq(text, p, p + m - 1), A \cup Chars(p, m), From[p + m])
            Bad == {m \in Nat : m <= n /\ ~ Read(m)}
<1>1. Len(text) \in Nat /\ text \in Seq(Nat) /\ \A i \in 1 .. Len(text) : text[i] \in Nat
  BY TextType, TextOfNat
<1>2. ASSUME NEW m \in Nat, m <= n
      PROVE  /\ SubSeq(text, p, p + m - 1) \in Seq(Nat)
             /\ a \o SubSeq(text, p, p + m - 1) \in Seq(Nat)
  <2>1. \A i \in p .. p + m - 1 : text[i] \in Nat  BY <1>1, <1>2
  <2>2. SubSeq(text, p, p + m - 1) \in Seq(Nat)  BY <2>1, SubSeqProperties
  <2>. QED  BY <2>2, ConcatProperties
<1>3. Read(0)
  <2>1. SubSeq(text, p, p + 0 - 1) = <<>> /\ Chars(p, 0) = {} /\ p + 0 = p
    BY SubSeqEmpty DEF Chars
  <2>2. a \o <<>> = a  BY ConcatEmptySeq
  <2>3. A \cup {} = A  OBVIOUS
  <2>. QED  BY <2>1, <2>2, <2>3, Zenon
<1>4. ASSUME NEW m \in Nat, m < n, Read(m) PROVE Read(m + 1)
  <2>1. PICK q \in 1 .. Len(text) : q = p + m /\ ~ IsStop(text[q])  BY <1>1, <1>4
  <2>9. SubSeq(text, p, p + m - 1) \in Seq(Nat)
    <3>1. m <= n  BY <1>4
    <3>. QED  BY <1>2, <3>1
  <2>2. PICK s \in Seq(Nat) : s = SubSeq(text, p, p + m - 1)  BY <2>9, Zenon
  <2>3. a \o s \in Seq(Nat)  BY <2>2, ConcatProperties
  <2>4. PICK b \in Seq(Nat) : b = a \o s  BY <2>3
  <2>5. Prefixed(b, A \cup Chars(p, m), From[q])
          = Prefixed(b \o <<text[q]>>, (A \cup Chars(p, m)) \cup {text[q]}, From[q + 1])
    BY <2>1, ReadPlain
  <2>6. (A \cup Chars(p, m)) \cup {text[q]} = A \cup Chars(p, m + 1)
    <3>1. p .. p + (m + 1) - 1 = (p .. p + m - 1) \cup {q}  BY <2>1, <1>1
    <3>2. Chars(p, m + 1) = Chars(p, m) \cup {text[q]}  BY <3>1, Zenon DEF Chars
    <3>. QED  BY <3>2, Zenon
  <2>7. b \o <<text[q]>> = a \o SubSeq(text, p, p + (m + 1) - 1)
    <3>1. SubSeq(text, p, p + (m + 1) - 1) = s \o <<text[q]>>
      <4>1. p \in 1 .. Len(text) /\ q \in p .. Len(text)  BY <1>1, <2>1
      <4>2. SubSeq(text, p, q) = SubSeq(text, p, q - 1) \o <<text[q]>>
        BY <1>1, <4>1, SubSeqRecursiveSecond
      <4>3. p + (m + 1) - 1 = q /\ p + m - 1 = q - 1  BY <2>1
      <4>. QED  BY <2>2, <4>2, <4>3, Zenon
    <3>4. text[q] \in Nat  BY <1>1
    <3>5. <<text[q]>> \in Seq(Nat)  BY <3>4, OneType, Zenon
    <3>2. PICK one \in Seq(Nat) : one = <<text[q]>>  BY <3>5, Zenon
    <3>3. (a \o s) \o one = a \o (s \o one)  BY JoinsAlike
    <3>. QED  BY <2>4, <3>1, <3>2, <3>3, Zenon
  <2>8. q + 1 = p + (m + 1)  BY <2>1
  <2>. QED  BY <1>4, <2>1, <2>2, <2>4, <2>5, <2>6, <2>7, <2>8, Zenon
<1>. HIDE DEF Read
<1>5. ASSUME Bad # {} PROVE FALSE
  <2>1. PICK m \in Bad : \A k \in Bad : m <= k  BY <1>5, Least
  <2>2. m \in Nat /\ m <= n /\ ~ Read(m) /\ m # 0  BY <1>3, <2>1
  <2>3. PICK k \in Nat : m = k + 1 /\ k < n  BY <2>2
  <2>4. k \notin Bad  BY <2>1, <2>3
  <2>5. Read(k)  BY <2>3, <2>4
  <2>. QED  BY <1>4, <2>2, <2>3, <2>5
<1>6. Read(n)  BY <1>5
<1>. QED  BY <1>6 DEF Read

\* Behind nothing.
LEMMA PrefixedByNone ==
  ASSUME NEW R \in SUBSET Readings
  PROVE  Prefixed(<<>>, {}, R) = R
<1>1. ASSUME NEW r \in R
      PROVE  [chars |-> <<>> \o r.chars, end |-> r.end, raw |-> {} \cup r.raw] = r
  <2>1. r \in Readings  OBVIOUS
  <2>2. r.chars \in Seq(Nat) /\ r = [chars |-> r.chars, end |-> r.end, raw |-> r.raw]  BY <2>1 DEF Readings
  <2>3. <<>> \o r.chars = r.chars  BY <2>2, ConcatEmptySeq
  <2>4. {} \cup r.raw = r.raw  OBVIOUS
  <2>. QED  BY <2>2, <2>3, <2>4, Zenon
<1>. QED  BY <1>1, Zenon DEF Prefixed

\* And nothing behind.
LEMMA PrefixedToEnd ==
  ASSUME NEW a \in Seq(Nat), NEW A, NEW p
  PROVE  Prefixed(a, A, {[chars |-> <<>>, end |-> p, raw |-> {}]}) = {[chars |-> a, end |-> p, raw |-> A]}
<1>1. a \o <<>> = a  BY ConcatEmptySeq
<1>2. A \cup {} = A  OBVIOUS
<1>3. PICK r : r = [chars |-> <<>>, end |-> p, raw |-> {}]  OBVIOUS
<1>4. r.chars = <<>> /\ r.end = p /\ r.raw = {}  BY <1>3
<1>5. Prefixed(a, A, {r}) = {[chars |-> a \o r.chars, end |-> r.end, raw |-> A \cup r.raw]}
  BY Zenon DEF Prefixed
<1>. QED  BY <1>1, <1>2, <1>3, <1>4, <1>5, Zenon

LEMMA PrefixedNone == ASSUME NEW a, NEW A PROVE Prefixed(a, A, {}) = {}
  BY DEF Prefixed

-----------------------------------------------------------------------------
(* The invariant.                                                          *)

Sofar == IF pc = "fast" THEN SubSeq(text, 1, src - 1) ELSE [i \in 1 .. dst |-> out[i - 1]]

BufferOK(buf) == buf = [u \in 0 .. Len(text) - 1 |-> buf[u]] /\ \A u \in 0 .. Len(text) - 1 : buf[u] \in Nat

TypeInv ==
  /\ InputOK
  /\ pc \in {"fast", "copy", "returned", "failed"}
  /\ maxvec \in Codes /\ dst \in Nat /\ reach \in Nat
  /\ BufferOK(out)
  /\ Scanning => src \in 1 .. Len(text) + 1
  /\ pc = "fast" => dst = 0
  /\ pc = "copy" => dst < src

\* The characters so far stand in front of every reading of what is left.
SofarInv ==
  Scanning => \E A \in SUBSET Codes :
                 maxvec = Max({0} \cup A) /\ Reading = Prefixed(Sofar, A, From[src])

IInv == TypeInv /\ SofarInv /\ ReadsString /\ MaxIsOfRaw /\ StoresInReserve

Most(A) == Max({0} \cup A)
Joined(m, L) == Max({m} \cup L)
Codings(A) == A \subseteq Codes
WithZero(L, B) == B \subseteq L /\ L \subseteq B \cup {0}

\* The vectors of a turn, the last one too, are characters and zeros.
LEMMA MaxJoins ==
  ASSUME NEW A, NEW B, Codings(A), Codings(B), NEW L, WithZero(L, B)
  PROVE  Joined(Most(A), L) = Most(A \cup B) /\ Joined(Most(A), L) \in Codes
<1>. DEFINE X == {0} \cup A
            m == Max(X)
            Y == {m} \cup L
            Z == {0} \cup (A \cup B)
<1>. USE DEF Codings, WithZero
<1>1. Codes = 0 .. LastCode /\ LastCode \in Nat /\ 0 \in Codes  BY CodeIs DEF Codes
<1>2. X \in SUBSET Codes /\ X # {} /\ Z \in SUBSET Codes /\ Z # {}  BY <1>1
<1>3. m \in X /\ \A y \in X : y <= m  BY <1>1, <1>2, MaxIs
<1>4. Y \in SUBSET Codes /\ Y # {}  BY <1>1, <1>2, <1>3
<1>5. Max(Y) \in Y /\ \A y \in Y : y <= Max(Y)  BY <1>1, <1>4, MaxIs
<1>6. Max(Z) \in Z /\ \A y \in Z : y <= Max(Z)  BY <1>1, <1>2, MaxIs
<1>7. Max(Y) \in Nat /\ Max(Z) \in Nat /\ \A y \in Z : y \in Nat  BY <1>2, <1>4, <1>5, <1>6, CodeIs
<1>8. Max(Y) \in Z
  <2>1. m \in Z  BY <1>3
  <2>2. L \subseteq Z  OBVIOUS
  <2>. QED  BY <1>5, <2>1, <2>2
<1>9. \A y \in Z : y <= Max(Y)
  <2>1. TAKE y \in Z
  <2>2. CASE y \in X
    <3>1. y <= m /\ m \in Nat /\ y \in Nat /\ m \in Y  BY <1>2, <1>3, <1>7, <2>2, CodeIs
    <3>2. m <= Max(Y)  BY <1>5, <3>1
    <3>. QED  BY <1>7, <3>1, <3>2
  <2>3. CASE y \in B
    <3>1. y \in Y  BY <2>3
    <3>. QED  BY <1>5, <3>1
  <2>. QED  BY <2>2, <2>3
<1>10. Max(Y) <= Max(Z) /\ Max(Z) <= Max(Y)  BY <1>6, <1>8, <1>9
<1>. HIDE DEF X, Y, Z
<1>11. Max(Y) = Max(Z)  BY <1>7, <1>10
<1>12. Max(Y) = Max(Z) /\ Max(Y) \in Codes  BY <1>4, <1>5, <1>11
<1>. QED  BY <1>12, Zenon DEF X, Y, Z, Most, Joined

LEMMA SeqOf ==
  ASSUME NEW n \in Nat, NEW v, v = [i \in 1 .. n |-> v[i]], \A i \in 1 .. n : v[i] \in Nat
  PROVE  v \in Seq(Nat) /\ Len(v) = n
<1>1. v \in [1 .. n -> Nat]  OBVIOUS
<1>2. v \in Seq(Nat)  BY <1>1, SeqDef
<1>3. DOMAIN v = 1 .. n  BY <1>1
<1>. QED  BY <1>2, <1>3, LenProperties

-----------------------------------------------------------------------------
(* The characters in front of a place that n more characters reach.        *)

\* The buffer with n characters stored at the writer.
Holds(buf, n) ==
  pc = "copy" =>
    /\ BufferOK(buf)
    /\ \A u \in 0 .. dst - 1 : buf[u] = out[u]
    /\ \A j \in 1 .. n : buf[dst + j - 1] = text[src + j - 1]

Ahead(buf, n) == IF pc = "fast" THEN SubSeq(text, 1, src + n - 1) ELSE [i \in 1 .. dst + n |-> buf[i - 1]]

LEMMA Pieces ==
  ASSUME NEW s \in Seq(Nat), NEW m \in 0 .. Len(s), NEW k \in 0 .. m
  PROVE  SubSeq(s, 1, k) \o SubSeq(s, k + 1, m) = SubSeq(s, 1, m)
<1>. DEFINE a == SubSeq(s, 1, k)
            b == SubSeq(s, k + 1, m)
            c == SubSeq(s, 1, m)
<1>1. Len(s) \in Nat /\ \A i \in 1 .. Len(s) : s[i] \in Nat  OBVIOUS
<1>2. a \in Seq(Nat) /\ Len(a) = k /\ \A i \in 1 .. k : a[i] = s[i]
  BY <1>1, SubSeqProperties
<1>3. b \in Seq(Nat) /\ Len(b) = m - k /\ \A i \in 1 .. m - k : b[i] = s[k + i]
  BY <1>1, SubSeqProperties
<1>4. c \in Seq(Nat) /\ Len(c) = m /\ \A i \in 1 .. m : c[i] = s[i]
  BY <1>1, SubSeqProperties
<1>. HIDE DEF a, b, c
<1>5. /\ a \o b \in Seq(Nat) /\ Len(a \o b) = m
      /\ \A i \in 1 .. m : (a \o b)[i] = IF i <= k THEN a[i] ELSE b[i - k]
  <2>1. Len(a) + Len(b) = m  BY <1>1, <1>2, <1>3
  <2>2. /\ a \o b \in Seq(Nat) /\ Len(a \o b) = Len(a) + Len(b)
        /\ \A i \in 1 .. Len(a) + Len(b) : (a \o b)[i] = IF i <= Len(a) THEN a[i] ELSE b[i - Len(a)]
    BY <1>2, <1>3, ConcatProperties
  <2>. QED  BY <1>2, <2>1, <2>2
<1>6. ASSUME NEW i \in 1 .. m PROVE (a \o b)[i] = c[i]
  <2>1. CASE i <= k
    <3>1. i \in 1 .. k  BY <1>1, <2>1
    <3>. QED  BY <1>2, <1>4, <1>5, <2>1, <3>1
  <2>2. CASE ~ (i <= k)
    <3>1. PICK j \in 1 .. m - k : j = i - k /\ k + j = i  BY <1>1, <2>2
    <3>2. b[j] = s[i]  BY <1>3, <3>1
    <3>. QED  BY <1>4, <1>5, <2>2, <3>1, <3>2
  <2>. QED  BY <2>1, <2>2
<1>7. a \o b = c  BY <1>4, <1>5, <1>6, SeqEqual
<1>. QED  BY <1>7 DEF a, b, c

LEMMA AheadIs ==
  ASSUME TypeInv, Scanning, NEW n \in Nat, src + n <= Len(text) + 1, NEW buf, Holds(buf, n)
  PROVE  /\ Ahead(buf, n) \in Seq(Nat)
         /\ Sofar \in Seq(Nat)
         /\ Ahead(buf, n) = Sofar \o SubSeq(text, src, src + n - 1)
<1>1. InputOK /\ text \in Seq(Nat) /\ Len(text) \in Nat /\ src \in 1 .. Len(text) + 1 /\ dst \in Nat
  BY TextType, TextOfNat DEF TypeInv
<1>2. CASE pc = "fast"
  <2>1. Sofar = SubSeq(text, 1, src - 1) /\ Ahead(buf, n) = SubSeq(text, 1, src + n - 1)
    BY <1>2 DEF Sofar, Ahead
  <2>2. PICK k \in 0 .. Len(text) : k = src - 1  BY <1>1
  <2>3. PICK m \in k .. Len(text) : m = src + n - 1  BY <1>1, <2>2
  <2>4. SubSeq(text, 1, k) \o SubSeq(text, k + 1, m) = SubSeq(text, 1, m)
    <3>1. m \in 0 .. Len(text) /\ k \in 0 .. m  BY <1>1
    <3>. QED  BY <1>1, <3>1, Pieces
  <2>5. k + 1 = src  BY <1>1, <2>2
  <2>6. SubSeq(text, 1, k) \in Seq(Nat) /\ SubSeq(text, 1, m) \in Seq(Nat)
    <3>1. \A i \in 1 .. m : text[i] \in Nat  BY <1>1
    <3>. QED  BY <1>1, <3>1, SubSeqProperties
  <2>. QED  BY <2>1, <2>2, <2>3, <2>4, <2>5, <2>6, Zenon
<1>3. CASE pc = "copy"
  <2>. DEFINE a == Sofar
              b == SubSeq(text, src, src + n - 1)
              c == Ahead(buf, n)
  <2>1. a = [i \in 1 .. dst |-> out[i - 1]] /\ c = [i \in 1 .. dst + n |-> buf[i - 1]]
    BY <1>3 DEF Sofar, Ahead
  <2>2. dst < src /\ BufferOK(out) /\ BufferOK(buf)  BY <1>3 DEF TypeInv, Holds
  <2>3. a \in Seq(Nat) /\ Len(a) = dst
    <3>1. \A i \in 1 .. dst : a[i] \in Nat /\ a[i] = out[i - 1]  BY <1>1, <2>1, <2>2 DEF BufferOK
    <3>2. a = [i \in 1 .. dst |-> a[i]]  BY <2>1
    <3>. HIDE DEF a
    <3>. QED  BY <1>1, <3>1, <3>2, SeqOf
  <2>4. c \in Seq(Nat) /\ Len(c) = dst + n
    <3>1. \A i \in 1 .. dst + n : c[i] \in Nat  BY <1>1, <2>1, <2>2 DEF BufferOK
    <3>2. c = [i \in 1 .. dst + n |-> c[i]]  BY <2>1
    <3>3. dst + n \in Nat  BY <1>1
    <3>. HIDE DEF c
    <3>. QED  BY <3>1, <3>2, <3>3, SeqOf
  <2>5. b \in Seq(Nat) /\ Len(b) = n /\ \A i \in 1 .. n : b[i] = text[src + i - 1]
    <3>1. \A i \in src .. src + n - 1 : text[i] \in Nat  BY <1>1
    <3>2. PICK m \in Int : m = src + n - 1  BY <1>1
    <3>3. /\ SubSeq(text, src, m) \in Seq(Nat)
          /\ Len(SubSeq(text, src, m)) = IF src <= m THEN m - src + 1 ELSE 0
          /\ \A i \in 1 .. m - src + 1 : SubSeq(text, src, m)[i] = text[src + i - 1]
      BY <1>1, <3>1, <3>2, SubSeqProperties
    <3>. QED  BY <1>1, <3>2, <3>3
  <2>6. \A i \in 1 .. dst + n : c[i] = IF i <= dst THEN a[i] ELSE b[i - dst]
    <3>1. TAKE i \in 1 .. dst + n
    <3>2. CASE i <= dst
      <4>1. i - 1 \in 0 .. dst - 1  BY <1>1, <3>2
      <4>2. buf[i - 1] = out[i - 1]  BY <1>3, <4>1 DEF Holds
      <4>. QED  BY <2>1, <3>2, <4>2, <1>1
    <3>3. CASE i > dst
      <4>1. PICK j \in 1 .. n : j = i - dst  BY <1>1, <3>3
      <4>2. buf[dst + j - 1] = text[src + j - 1]  BY <1>3, <4>1 DEF Holds
      <4>3. dst + j - 1 = i - 1  BY <1>1, <4>1
      <4>4. c[i] = buf[i - 1]  BY <2>1
      <4>5. b[j] = text[src + j - 1]  BY <2>5, <4>1
      <4>6. c[i] = b[j]  BY <4>2, <4>3, <4>4, <4>5, Zenon
      <4>7. ~ (i <= dst)  BY <1>1, <3>3
      <4>. QED  BY <4>1, <4>6, <4>7, Zenon
    <3>. QED  BY <1>1, <3>2, <3>3
  <2>. HIDE DEF a, b, c
  <2>7. /\ a \o b \in Seq(Nat) /\ Len(a \o b) = dst + n
        /\ \A i \in 1 .. dst + n : (a \o b)[i] = IF i <= dst THEN a[i] ELSE b[i - dst]
    BY <1>1, <2>3, <2>5, ConcatProperties
  <2>8. c = a \o b
    <3>1. \A i \in 1 .. Len(c) : c[i] = (a \o b)[i]  BY <2>4, <2>6, <2>7
    <3>2. Len(c) = Len(a \o b)  BY <2>4, <2>7
    <3>. QED  BY <2>4, <2>7, <3>1, <3>2, SeqEqual
  <2>. QED  BY <2>3, <2>4, <2>8 DEF a, b, c
<1>. QED  BY <1>2, <1>3 DEF Scanning
\* What is shown of the text when n more characters are read, none a stop.
Shown(buf, n, mv) ==
  \E A \in SUBSET Codes :
    mv = Max({0} \cup A) /\ Reading = Prefixed(Ahead(buf, n), A, From[src + n])

LEMMA Shows ==
  ASSUME TypeInv, SofarInv, Scanning, NEW n \in Nat, src + n <= Len(text) + 1,
         \A i \in src .. src + n - 1 : ~ IsStop(text[i]),
         NEW buf, Holds(buf, n), NEW L, L \in {Chars(src, n), Chars(src, n) \cup {0}}
  PROVE  Shown(buf, n, Max({maxvec} \cup L)) /\ Max({maxvec} \cup L) \in Codes
<1>1. InputOK /\ src \in 1 .. Len(text) + 1 /\ Len(text) \in Nat  BY TextType DEF TypeInv
<1>2. PICK A \in SUBSET Codes : maxvec = Max({0} \cup A) /\ Reading = Prefixed(Sofar, A, From[src])
  BY DEF SofarInv
<1>3. PICK a \in Seq(Nat) : a = Sofar  BY AheadIs
<1>4. Ahead(buf, n) = a \o SubSeq(text, src, src + n - 1)  BY <1>3, AheadIs, Zenon
<1>5. Prefixed(a, A, From[src])
        = Prefixed(a \o SubSeq(text, src, src + n - 1), A \cup Chars(src, n), From[src + n])
  BY <1>1, ReadRun
<1>6. Chars(src, n) \in SUBSET Codes
  <2>1. \A i \in src .. src + n - 1 : text[i] \in Codes  BY <1>1, TextType
  <2>. QED  BY <2>1 DEF Chars
<1>7. /\ Max({maxvec} \cup L) = Max({0} \cup (A \cup Chars(src, n)))
      /\ Max({maxvec} \cup L) \in Codes
  <2>1. PICK B \in SUBSET Codes : B = Chars(src, n)  BY <1>6
  <2>2. A \in SUBSET Codes /\ B \in SUBSET Codes /\ maxvec = Most(A)  BY <1>2, <2>1 DEF Most
  <2>3. Codings(A) /\ Codings(B) /\ WithZero(L, B)  BY <2>1, <2>2 DEF Codings, WithZero
  <2>4. Joined(maxvec, L) = Most(A \cup B) /\ Joined(maxvec, L) \in Codes  BY <2>2, <2>3, MaxJoins
  <2>. QED  BY <2>1, <2>4, Zenon DEF Most, Joined
<1>8. Reading = Prefixed(Ahead(buf, n), A \cup Chars(src, n), From[src + n])
  BY <1>2, <1>3, <1>4, <1>5, Zenon
<1>9. A \cup Chars(src, n) \in SUBSET Codes  BY <1>6
<1>. QED  BY <1>7, <1>8, <1>9, Zenon DEF Shown

-----------------------------------------------------------------------------
(* The steps of a turn.                                                    *)

ReachBound == Len(text) + (IF isa = "blend" THEN 0 ELSE Batch - 1)

\* What a step has to keep of the types.
LEMMA KeepsTypes ==
  ASSUME TypeInv, UNCHANGED fixed, pc' \in {"fast", "copy", "returned", "failed"},
         maxvec' \in Codes, dst' \in Nat, reach' \in Nat, BufferOK(out'),
         Scanning' => src' \in 1 .. Len(text) + 1,
         pc' = "fast" => dst' = 0, pc' = "copy" => dst' < src'
  PROVE  TypeInv'
  BY DEF TypeInv, InputOK, fixed, BufferOK

\* And of the rest, unless the turn was the last one.
LEMMA KeepsReading ==
  ASSUME UNCHANGED fixed, reach' <= ReachBound, pc' \in {"fast", "copy"}, TypeInv',
         \E A \in SUBSET Codes : maxvec' = Max({0} \cup A) /\ Reading = Prefixed(Sofar', A, From[src'])
  PROVE  IInv'
<1>1. Reading' = Reading /\ From' = From  BY ReadingStays, FromStays
<1>2. StoresInReserve'  BY DEF StoresInReserve, ReachBound, fixed
<1>3. SofarInv'
  <2>1. PICK A \in SUBSET Codes : maxvec' = Max({0} \cup A) /\ Reading = Prefixed(Sofar', A, From[src'])
    OBVIOUS
  <2>2. Codes' = Codes  OBVIOUS
  <2>3. From'[src'] = From[src']  BY <1>1, Zenon
  <2>4. Reading' = Prefixed(Sofar', A, From'[src'])  BY <1>1, <2>1, <2>3, Zenon
  <2>5. (\E X \in SUBSET Codes : maxvec = Max({0} \cup X) /\ Reading = Prefixed(Sofar, X, From[src]))'
    BY <2>1, <2>4
  <2>. QED  BY <2>5 DEF SofarInv
<1>4. ReadsString' /\ MaxIsOfRaw'  BY DEF ReadsString, MaxIsOfRaw
<1>. QED  BY <1>2, <1>3, <1>4 DEF IInv

\* A turn that meets no stop.
LEMMA GoesOn ==
  ASSUME TypeInv, Scanning, UNCHANGED fixed, UNCHANGED pc, NEW n \in Nat, src + n <= Len(text) + 1,
         NEW buf, Holds(buf, n), Shown(buf, n, maxvec'), maxvec' \in Codes,
         src' = src + n, dst' = IF pc = "copy" THEN dst + n ELSE dst,
         out' = IF pc = "copy" THEN buf ELSE out, reach' \in Nat, reach' <= ReachBound
  PROVE  IInv'
<1>1. /\ src \in 1 .. Len(text) + 1 /\ dst \in Nat /\ Len(text) \in Nat /\ text' = text
      /\ (pc = "fast" => dst = 0) /\ (pc = "copy" => dst < src) /\ BufferOK(out)
  BY TextType DEF TypeInv, fixed
<1>2. pc' \in {"fast", "copy"} /\ pc' = pc  BY DEF Scanning
<1>3. BufferOK(out')  BY <1>1, <1>2 DEF Holds
<1>4. dst' \in Nat /\ src' \in 1 .. Len(text) + 1 /\ (pc' = "fast" => dst' = 0) /\ (pc' = "copy" => dst' < src')
  BY <1>1, <1>2
<1>5. TypeInv'  BY <1>2, <1>3, <1>4, KeepsTypes
<1>6. Sofar' = Ahead(buf, n)
  <2>1. CASE pc = "fast"
    <3>1. src' - 1 = src + n - 1  BY <1>1
    <3>2. Sofar' = SubSeq(text, 1, src' - 1)  BY <1>1, <1>2, <2>1 DEF Sofar
    <3>3. Ahead(buf, n) = SubSeq(text, 1, src + n - 1)  BY <2>1 DEF Ahead
    <3>. QED  BY <3>1, <3>2, <3>3, Zenon
  <2>2. CASE pc = "copy"
    <3>1. out' = buf /\ dst' = dst + n /\ pc' # "fast" /\ pc # "fast"  BY <1>2, <2>2
    <3>. QED  BY <3>1 DEF Sofar, Ahead
  <2>. QED  BY <2>1, <2>2 DEF Scanning
<1>7. \E A \in SUBSET Codes : maxvec' = Max({0} \cup A) /\ Reading = Prefixed(Sofar', A, From[src'])
  BY <1>6, Zenon DEF Shown
<1>. QED  BY <1>2, <1>5, <1>7, KeepsReading

\* The quote.
LEMMA StopsAtQuote ==
  ASSUME TypeInv, Scanning, UNCHANGED fixed, NEW n \in Nat, src + n <= Len(text),
         NEW buf, Holds(buf, n), Shown(buf, n, maxvec'), maxvec' \in Codes,
         NEW end, reach' \in Nat, reach' <= ReachBound, out' \in {out, buf}, BufferOK(out'),
         At(src + n) = 34, Finish(src + n, dst + n, buf, end)
  PROVE  IInv'
<1>1. /\ src \in 1 .. Len(text) + 1 /\ dst \in Nat /\ Len(text) \in Nat /\ InputOK
      /\ (pc = "fast" => dst = 0) /\ (pc = "copy" => dst < src)
  BY TextType DEF TypeInv
<1>2. pc' = "returned" /\ src' = src + n + 1 /\ dst' = dst + n
  BY DEF Finish
<1>3. TypeInv'
  <2>1. dst' \in Nat  BY <1>1, <1>2
  <2>2. ~ Scanning'  BY <1>2 DEF Scanning
  <2>. QED  BY <1>2, <2>1, <2>2, KeepsTypes
<1>4. result' = Ahead(buf, n)
  <2>1. src + n - 1 = (src + n) - 1  BY <1>1
  <2>2. result' = IF pc = "fast" THEN SubSeq(text, 1, (src + n) - 1) ELSE [i \in 1 .. dst + n |-> buf[i - 1]]
    BY Zenon DEF Finish
  <2>. QED  BY <2>1, <2>2, Zenon DEF Ahead
<1>5. PICK s \in 1 .. Len(text) : s = src + n  BY <1>1
<1>6. text[s] = 34  BY <1>1, <1>5, TextType
<1>7. From[s] = {[chars |-> <<>>, end |-> s + 1, raw |-> {}]}  BY <1>1, <1>6, FromEnds
<1>8. PICK A \in SUBSET Codes : maxvec' = Max({0} \cup A) /\ Reading = Prefixed(Ahead(buf, n), A, From[s])
  BY <1>5 DEF Shown
<1>9. PICK a \in Seq(Nat) : a = Ahead(buf, n)
  <2>1. src + n <= Len(text) + 1  BY <1>1
  <2>. QED  BY <2>1, AheadIs
<1>10. Prefixed(a, A, {[chars |-> <<>>, end |-> s + 1, raw |-> {}]}) = {[chars |-> a, end |-> s + 1, raw |-> A]}
  BY PrefixedToEnd
<1>11. Reading = {[chars |-> a, end |-> s + 1, raw |-> A]}  BY <1>7, <1>8, <1>9, <1>10, Zenon
<1>12. Reading' = Reading  BY ReadingStays
<1>13. PICK r : r = [chars |-> a, end |-> s + 1, raw |-> A]  OBVIOUS
<1>14. r \in Reading' /\ r.chars = result' /\ r.end = src' /\ maxvec' = Max({0} \cup r.raw)
  <2>1. r.chars = a /\ r.end = s + 1 /\ r.raw = A  BY <1>13
  <2>2. src' = s + 1  BY <1>2, <1>5
  <2>3. r \in Reading'  BY <1>11, <1>12, <1>13
  <2>. QED  BY <1>4, <1>8, <1>9, <2>1, <2>2, <2>3, Zenon
<1>15. ReadsString' /\ MaxIsOfRaw'
  <2>1. pc' # "failed"  BY <1>2
  <2>2. \E x \in Reading' : result' = x.chars /\ src' = x.end  BY <1>14, Zenon
  <2>3. \E x \in Reading' : maxvec' = Max({0} \cup x.raw)  BY <1>14, Zenon
  <2>. QED  BY <2>1, <2>2, <2>3 DEF ReadsString, MaxIsOfRaw
<1>16. StoresInReserve'  BY DEF StoresInReserve, ReachBound, fixed
<1>17. SofarInv'
  <2>1. ~ Scanning'  BY <1>2 DEF Scanning
  <2>. QED  BY <2>1 DEF SofarInv
<1>. QED  BY <1>3, <1>15, <1>16, <1>17 DEF IInv

\* What is no string.
LEMMA StopsForNone ==
  ASSUME TypeInv, Scanning, UNCHANGED fixed, Reading = {}, pc' = "failed",
         maxvec' \in Codes, dst' \in Nat, reach' \in Nat, reach' <= ReachBound, BufferOK(out')
  PROVE  IInv'
<1>1. TypeInv'
  <2>1. ~ Scanning'  BY DEF Scanning
  <2>. QED  BY <2>1, KeepsTypes
<1>2. Reading' = {}  BY ReadingStays
<1>3. ReadsString' /\ MaxIsOfRaw'  BY <1>2 DEF ReadsString, MaxIsOfRaw
<1>4. StoresInReserve'  BY DEF StoresInReserve, ReachBound, fixed
<1>5. SofarInv'
  <2>1. ~ Scanning'  BY DEF Scanning
  <2>. QED  BY <2>1 DEF SofarInv
<1>. QED  BY <1>1, <1>3, <1>4, <1>5 DEF IInv
-----------------------------------------------------------------------------
(* The buffer.                                                             *)

LEMMA PutIs ==
  ASSUME InputOK, NEW b, BufferOK(b), NEW d \in Int, NEW vec, NEW ls, \A l \in ls : vec[l] \in Nat
  PROVE  /\ BufferOK(Put(b, d, vec, ls))
         /\ \A u \in 0 .. Len(text) - 1 :
              Put(b, d, vec, ls)[u] = IF u - d + 1 \in ls THEN vec[u - d + 1] ELSE b[u]
<1>1. DOMAIN b = 0 .. Len(text) - 1 /\ \A u \in 0 .. Len(text) - 1 : b[u] \in Nat  BY DEF BufferOK
<1>2. Put(b, d, vec, ls) = [u \in 0 .. Len(text) - 1 |-> IF u - d + 1 \in ls THEN vec[u - d + 1] ELSE b[u]]
  BY <1>1, Zenon DEF Put
<1>3. \A u \in 0 .. Len(text) - 1 :
        Put(b, d, vec, ls)[u] = IF u - d + 1 \in ls THEN vec[u - d + 1] ELSE b[u]
  BY <1>2
<1>4. \A u \in 0 .. Len(text) - 1 : Put(b, d, vec, ls)[u] \in Nat  BY <1>1, <1>3
<1>5. Put(b, d, vec, ls) = [u \in 0 .. Len(text) - 1 |-> Put(b, d, vec, ls)[u]]  BY <1>2
<1>. QED  BY <1>3, <1>4, <1>5 DEF BufferOK

LanesOK(vec, ls) == \A l \in ls : vec[l] \in Nat

IsPut(p, b, d, vec, ls) ==
  /\ BufferOK(p)
  /\ \A u \in 0 .. Len(text) - 1 : p[u] = IF u - d + 1 \in ls THEN vec[u - d + 1] ELSE b[u]

LEMMA PutIsOne ==
  ASSUME InputOK, NEW b, BufferOK(b), NEW d \in Int, NEW vec, NEW ls, LanesOK(vec, ls)
  PROVE  IsPut(Put(b, d, vec, ls), b, d, vec, ls)
<1>1. \A l \in ls : vec[l] \in Nat  BY DEF LanesOK
<1>2. PICK p : p = Put(b, d, vec, ls)  OBVIOUS
<1>3. /\ BufferOK(p)
      /\ \A u \in 0 .. Len(text) - 1 : p[u] = IF u - d + 1 \in ls THEN vec[u - d + 1] ELSE b[u]
  BY <1>1, <1>2, PutIs
<1>. QED  BY <1>2, <1>3, Zenon DEF IsPut

\* The first n units of a buffer.
Units(b, n) == [i \in 1 .. n |-> b[i - 1]]

LEMMA UnitsType ==
  ASSUME InputOK, NEW b, BufferOK(b), NEW n \in 0 .. Len(text)
  PROVE  Units(b, n) \in Seq(Nat) /\ Len(Units(b, n)) = n /\ \A i \in 1 .. n : Units(b, n)[i] = b[i - 1]
<1>1. \A i \in 1 .. n : i - 1 \in 0 .. Len(text) - 1  BY TextType
<1>2. \A i \in 1 .. n : Units(b, n)[i] = b[i - 1] /\ b[i - 1] \in Nat  BY <1>1 DEF BufferOK, Units
<1>3. Units(b, n) = [i \in 1 .. n |-> Units(b, n)[i]]  BY DEF Units
<1>4. n \in Nat  BY TextType
<1>5. Units(b, n) \in Seq(Nat) /\ Len(Units(b, n)) = n  BY <1>2, <1>3, <1>4, SeqOf
<1>. QED  BY <1>2, <1>5

\* A character behind the first d.
After(b, d, c) == Put(b, d, <<c>>, {1})

LEMMA PutOne ==
  ASSUME InputOK, NEW b, BufferOK(b), NEW d \in 0 .. Len(text) - 1, NEW c \in Nat
  PROVE  BufferOK(After(b, d, c)) /\ Units(After(b, d, c), d + 1) = Units(b, d) \o <<c>>
<1>. DEFINE p == Put(b, d, <<c>>, {1})
<1>1. <<c>>[1] = c /\ <<c>> \in Seq(Nat) /\ Len(<<c>>) = 1  OBVIOUS
<1>2. BufferOK(p) /\ \A u \in 0 .. Len(text) - 1 : p[u] = IF u - d + 1 \in {1} THEN <<c>>[u - d + 1] ELSE b[u]
  <2>1. d \in Int /\ \A l \in {1} : <<c>>[l] \in Nat  BY <1>1, TextType
  <2>. QED  BY <2>1, PutIs
<1>. HIDE DEF p
<1>3. Len(text) \in Nat /\ d \in Nat /\ d + 1 \in 0 .. Len(text) /\ d \in 0 .. Len(text)  BY TextType
<1>4. p[d] = c /\ \A u \in 0 .. d - 1 : p[u] = b[u]  BY <1>1, <1>2, <1>3
<1>5. /\ Units(p, d + 1) \in Seq(Nat) /\ Len(Units(p, d + 1)) = d + 1
      /\ \A i \in 1 .. d + 1 : Units(p, d + 1)[i] = p[i - 1]
  BY <1>2, <1>3, UnitsType
<1>6. Units(b, d) \in Seq(Nat) /\ Len(Units(b, d)) = d /\ \A i \in 1 .. d : Units(b, d)[i] = b[i - 1]
  BY <1>3, UnitsType
<1>. DEFINE s == Units(b, d)
            t == Units(p, d + 1)
            one == <<c>>
<1>. HIDE DEF s, t, one
<1>7. /\ s \o one \in Seq(Nat) /\ Len(s \o one) = d + 1
      /\ \A i \in 1 .. d + 1 : (s \o one)[i] = IF i <= d THEN s[i] ELSE one[i - d]
  <2>1. s \in Seq(Nat) /\ Len(s) = d /\ one \in Seq(Nat) /\ Len(one) = 1  BY <1>1, <1>6 DEF s, one
  <2>2. /\ s \o one \in Seq(Nat) /\ Len(s \o one) = Len(s) + Len(one)
        /\ \A i \in 1 .. Len(s) + Len(one) : (s \o one)[i] = IF i <= Len(s) THEN s[i] ELSE one[i - Len(s)]
    BY <2>1, ConcatProperties
  <2>3. Len(s) + Len(one) = d + 1  BY <1>3, <2>1
  <2>. QED  BY <2>1, <2>2, <2>3
<1>8. ASSUME NEW i \in 1 .. d + 1 PROVE t[i] = (s \o one)[i]
  <2>1. CASE i <= d
    <3>1. i \in 1 .. d /\ i - 1 \in 0 .. d - 1  BY <1>3, <2>1
    <3>2. t[i] = p[i - 1] /\ s[i] = b[i - 1] /\ p[i - 1] = b[i - 1]  BY <1>4, <1>5, <1>6, <3>1 DEF s, t
    <3>. QED  BY <1>7, <2>1, <3>2
  <2>2. CASE i = d + 1
    <3>1. i - 1 = d /\ i - d = 1 /\ ~ (i <= d)  BY <1>3, <2>2
    <3>2. t[i] = c  BY <1>4, <1>5, <3>1 DEF t
    <3>3. one[1] = c  BY <1>1 DEF one
    <3>. QED  BY <1>7, <3>1, <3>2, <3>3
  <2>3. i <= d \/ i = d + 1  BY <1>3
  <2>. QED  BY <2>1, <2>2, <2>3
<1>9. t = s \o one
  <2>1. t \in Seq(Nat) /\ Len(t) = d + 1  BY <1>5 DEF t
  <2>. QED  BY <1>7, <1>8, <2>1, SeqEqual
<1>. QED  BY <1>2, <1>9 DEF s, t, one, p, After

\* The characters in front of the first escape.
Front(d) == Put(out, 0, text, 1 .. d)

LEMMA PutFront ==
  ASSUME InputOK, BufferOK(out), NEW d \in 0 .. Len(text)
  PROVE  BufferOK(Front(d)) /\ Units(Front(d), d) = SubSeq(text, 1, d)
<1>. DEFINE p == Put(out, 0, text, 1 .. d)
<1>1. Len(text) \in Nat /\ text \in Seq(Nat) /\ \A l \in 1 .. d : text[l] \in Nat  BY TextType, TextOfNat
<1>2. BufferOK(p) /\ \A u \in 0 .. Len(text) - 1 : p[u] = IF u - 0 + 1 \in 1 .. d THEN text[u - 0 + 1] ELSE out[u]
  <2>1. 0 \in Int  OBVIOUS
  <2>. QED  BY <1>1, <2>1, PutIs
<1>. HIDE DEF p
<1>3. Units(p, d) \in Seq(Nat) /\ Len(Units(p, d)) = d /\ \A i \in 1 .. d : Units(p, d)[i] = p[i - 1]
  BY <1>2, UnitsType
<1>4. SubSeq(text, 1, d) \in Seq(Nat) /\ Len(SubSeq(text, 1, d)) = d /\ \A i \in 1 .. d : SubSeq(text, 1, d)[i] = text[i]
  BY <1>1, SubSeqProperties
<1>5. \A i \in 1 .. d : p[i - 1] = text[i]
  <2>1. TAKE i \in 1 .. d
  <2>2. i - 1 \in 0 .. Len(text) - 1 /\ (i - 1) - 0 + 1 = i  BY <1>1
  <2>. QED  BY <1>2, <2>2
<1>6. Units(p, d) = SubSeq(text, 1, d)  BY <1>1, <1>3, <1>4, <1>5, SeqEqual
<1>. QED  BY <1>2, <1>6 DEF p, Front
\* An escape.
StoresEscape(buf, n) ==
  \/ /\ pc = "fast" /\ dst' = src + n
     /\ out' = After(Front(src + n - 1), src + n - 1, EscapeAt(src + n).code)
  \/ /\ pc = "copy" /\ dst' = dst + n + 1
     /\ out' = After(buf, dst + n, EscapeAt(src + n).code)

GoesBehind(n) == pc' = "copy" /\ src' = src + n + EscapeAt(src + n).size

LEMMA StopsAtEscape ==
  ASSUME TypeInv, Scanning, UNCHANGED fixed, NEW n \in Nat, src + n <= Len(text),
         NEW buf, Holds(buf, n), Shown(buf, n, maxvec'), maxvec' \in Codes,
         reach' \in Nat, reach' <= ReachBound,
         At(src + n) = 92, EscapeAt(src + n).size > 0,
         GoesBehind(n), StoresEscape(buf, n)
  PROVE  IInv'
<1>1. /\ src \in 1 .. Len(text) + 1 /\ dst \in Nat /\ Len(text) \in Nat /\ InputOK /\ BufferOK(out)
      /\ (pc = "fast" => dst = 0) /\ (pc = "copy" => dst < src) /\ pc \in {"fast", "copy"}
  BY TextType DEF TypeInv, Scanning
<1>2. PICK s \in 1 .. Len(text) : s = src + n  BY <1>1
<1>3. PICK e : e = EscapeAt(s)  OBVIOUS
<1>4. text[s] = 92  BY <1>1, <1>2, TextType
<1>5. /\ e.size \in {2, 6, 12} /\ e.code \in Nat /\ s + e.size <= Len(text) + 1 /\ CharsAt(s) = {e}
  <2>1. IsChars(s, e)  BY <1>1, <1>3, <1>4, EscapeChars
  <2>2. e.size > 0  BY <1>2, <1>3
  <2>. QED  BY <2>1, <2>2 DEF IsChars
<1>6. PICK c \in Nat : c = e.code  BY <1>5
<1>7. PICK d \in 0 .. Len(text) - 1 : d = IF pc = "fast" THEN s - 1 ELSE dst + n
  BY <1>1, <1>2
<1>8. PICK b : /\ BufferOK(b) /\ Units(b, d) = Ahead(buf, n)
              /\ dst' = d + 1 /\ out' = After(b, d, c)
  <2>1. CASE pc = "fast"
    <3>1. d = s - 1 /\ d \in 0 .. Len(text) /\ src + n - 1 = d  BY <1>1, <1>2, <1>7, <2>1
    <3>2. dst' = src + n /\ out' = After(Front(src + n - 1), src + n - 1, EscapeAt(src + n).code)
      BY <2>1 DEF StoresEscape
    <3>3. BufferOK(Front(d)) /\ Units(Front(d), d) = SubSeq(text, 1, d)  BY <1>1, <3>1, PutFront
    <3>4. Ahead(buf, n) = SubSeq(text, 1, src + n - 1)  BY <2>1 DEF Ahead
    <3>5. dst' = d + 1  BY <1>1, <3>1, <3>2
    <3>6. out' = After(Front(d), d, c)  BY <1>2, <1>3, <1>6, <3>1, <3>2, Zenon
    <3>. QED  BY <3>1, <3>3, <3>4, <3>5, <3>6, Zenon
  <2>2. CASE pc = "copy"
    <3>1. d = dst + n /\ pc # "fast"  BY <1>7, <2>2
    <3>2. BufferOK(buf)  BY <2>2 DEF Holds
    <3>3. dst' = dst + n + 1 /\ out' = After(buf, dst + n, EscapeAt(src + n).code)
      BY <2>2 DEF StoresEscape
    <3>4. out' = After(buf, d, c)  BY <1>2, <1>3, <1>6, <3>1, <3>3, Zenon
    <3>5. Units(buf, d) = Ahead(buf, n)  BY <3>1, Zenon DEF Units, Ahead
    <3>6. dst' = d + 1  BY <3>1, <3>3
    <3>. QED  BY <3>2, <3>4, <3>5, <3>6
  <2>. QED  BY <1>1, <2>1, <2>2
<1>9. /\ dst' \in Nat /\ d + 1 <= s /\ d \in Nat
      /\ src' = s + e.size /\ src' \in 1 .. Len(text) + 1 /\ dst' < src' /\ pc' = "copy"
  <2>1. d \in Nat /\ d + 1 <= s /\ dst' \in Nat  BY <1>1, <1>2, <1>7, <1>8
  <2>2. src' = s + e.size /\ pc' = "copy"  BY <1>2, <1>3, Zenon DEF GoesBehind
  <2>3. PICK k \in {2, 6, 12} : k = e.size  BY <1>5
  <2>4. s + k \in 1 .. Len(text) + 1 /\ d + 1 < s + k
    <3>1. s + k <= Len(text) + 1  BY <1>5, <2>3, Zenon
    <3>2. k \in Nat /\ k >= 2  BY <2>3
    <3>3. Len(text) \in Nat /\ s \in 1 .. Len(text)  BY <1>1, <1>2
    <3>. QED  BY <2>1, <3>1, <3>2, <3>3
  <2>. QED  BY <1>8, <2>1, <2>2, <2>3, <2>4
<1>13. BufferOK(out') /\ Units(out', d + 1) = Units(b, d) \o <<c>>
  <2>1. BufferOK(After(b, d, c)) /\ Units(After(b, d, c), d + 1) = Units(b, d) \o <<c>>
    <3>1. InputOK /\ BufferOK(b) /\ d \in 0 .. Len(text) - 1 /\ c \in Nat  BY <1>1, <1>6, <1>7, <1>8
    <3>. QED  BY <3>1, PutOne, Zenon
  <2>. QED  BY <1>8, <2>1, Zenon
<1>14. TypeInv'
  <2>1. pc' # "fast"  BY <1>9
  <2>. QED  BY <1>9, <1>13, <2>1, KeepsTypes
<1>15. Sofar' = Ahead(buf, n) \o <<c>>
  <2>1. Sofar' = Units(out', dst')
    <3>1. pc' # "fast"  BY <1>9
    <3>. QED  BY <3>1, Zenon DEF Sofar, Units
  <2>. QED  BY <1>8, <1>13, <2>1, Zenon
<1>16. PICK A \in SUBSET Codes : maxvec' = Max({0} \cup A) /\ Reading = Prefixed(Ahead(buf, n), A, From[s])
  BY <1>2 DEF Shown
<1>17. PICK a \in Seq(Nat) : a = Ahead(buf, n)
  <2>1. src + n <= Len(text) + 1  BY <1>1
  <2>. QED  BY <2>1, AheadIs
<1>18. Prefixed(a, A, From[s]) = Prefixed(a \o <<e.code>>, Raw(A, e), From[s + e.size])
  <2>1. text[s] # 34 /\ s + e.size \in 1 .. Len(text) + 1  BY <1>4, <1>9
  <2>. QED  BY <1>1, <1>5, <2>1, ReadOne
<1>19. Raw(A, e) = A  BY <1>5 DEF Raw
<1>20. Reading = Prefixed(Sofar', A, From[src'])
  BY <1>6, <1>9, <1>15, <1>16, <1>17, <1>18, <1>19, Zenon
<1>21. pc' \in {"fast", "copy"}  BY <1>9
<1>. QED  BY <1>14, <1>16, <1>20, <1>21, KeepsReading

\* The stop at src + n, the vectors stored in buf: reach is the end of the store.
LEMMA StopsRight ==
  ASSUME TypeInv, StoresInReserve, Scanning, UNCHANGED fixed, NEW n \in Nat, src + n <= Len(text),
         NEW buf, Holds(buf, n), Shown(buf, n, maxvec'), maxvec' \in Codes,
         NEW end \in Nat, pc = "copy" => end <= ReachBound,
         IsStop(text[src + n]), Stopped(src + n, dst + n, buf, end)
  PROVE  IInv'
<1>1. /\ src \in 1 .. Len(text) + 1 /\ dst \in Nat /\ Len(text) \in Nat /\ InputOK /\ BufferOK(out)
      /\ reach \in Nat /\ reach <= ReachBound /\ pc \in {"fast", "copy"}
      /\ (pc = "fast" => dst = 0)
  BY TextType DEF TypeInv, Scanning, StoresInReserve, ReachBound
<1>2. PICK s \in 1 .. Len(text) : s = src + n  BY <1>1
<1>3. At(s) = text[s] /\ dst + n \in Nat  BY <1>1, TextType
<1>4. Max({reach, end}) \in Nat /\ (pc = "copy" => Max({reach, end}) <= ReachBound)
  <2>1. PICK k \in Nat : reach <= k /\ end <= k
    <3>1. reach <= reach + end /\ end <= reach + end /\ reach + end \in Nat  BY <1>1
    <3>. QED  BY <3>1
  <2>2. {reach, end} \in SUBSET (0 .. k) /\ {reach, end} # {}  BY <1>1, <2>1
  <2>3. Max({reach, end}) \in {reach, end}  BY <2>1, <2>2, MaxIs
  <2>. QED  BY <1>1, <2>3
<1>5. ASSUME Store(buf, end) PROVE reach' \in Nat /\ reach' <= ReachBound /\ out' \in {out, buf} /\ BufferOK(out')
  <2>1. CASE pc = "fast"
    <3>1. out' = out /\ reach' = reach  BY <1>5, <2>1 DEF Store
    <3>. QED  BY <1>1, <3>1
  <2>2. CASE pc = "copy"
    <3>1. out' = buf /\ reach' = Max({reach, end})  BY <1>5, <2>2 DEF Store
    <3>2. BufferOK(buf)  BY <2>2 DEF Holds
    <3>. QED  BY <1>4, <2>2, <3>1, <3>2
  <2>. QED  BY <1>1, <2>1, <2>2
<1>6. CASE At(src + n) = 34
  <2>1. Finish(src + n, dst + n, buf, end)  BY <1>6, Zenon DEF Stopped
  <2>2. Store(buf, end)  BY <2>1 DEF Finish
  <2>. QED  BY <1>5, <1>6, <2>1, <2>2, StopsAtQuote
<1>7. CASE At(src + n) # 34 /\ At(src + n) = 92 /\ EscapeAt(src + n).size > 0
  <2>1. /\ \/ FirstEscape(src + n, EscapeAt(src + n))
           \/ NextEscape(dst + n, buf, end, EscapeAt(src + n))
        /\ pc' = "copy" /\ src' = src + n + EscapeAt(src + n).size
    BY <1>7, Zenon DEF Stopped
  <2>2. StoresEscape(buf, n)
    <3>1. CASE FirstEscape(src + n, EscapeAt(src + n))
      <4>1. (src + n) - 1 = src + n - 1  BY <1>1
      <4>. QED  BY <3>1, <4>1, Zenon DEF FirstEscape, StoresEscape, After, Front
    <3>2. CASE NextEscape(dst + n, buf, end, EscapeAt(src + n))
      BY <3>2, Zenon DEF NextEscape, StoresEscape, After
    <3>. QED  BY <2>1, <3>1, <3>2
  <2>3. reach' \in Nat /\ reach' <= ReachBound
    <3>1. CASE FirstEscape(src + n, EscapeAt(src + n))
      <4>1. reach' = s  BY <1>2, <3>1 DEF FirstEscape
      <4>2. Len(text) <= ReachBound /\ ReachBound \in Int  BY <1>1, BatchAssumption DEF ReachBound
      <4>. QED  BY <1>1, <4>1, <4>2
    <3>2. CASE NextEscape(dst + n, buf, end, EscapeAt(src + n))
      <4>1. pc = "copy" /\ reach' = Max({reach, end})  BY <3>2 DEF NextEscape
      <4>. QED  BY <1>4, <4>1
    <3>. QED  BY <2>1, <3>1, <3>2
  <2>4. GoesBehind(n)  BY <2>1 DEF GoesBehind
  <2>. QED  BY <1>7, <2>2, <2>3, <2>4, StopsAtEscape
<1>8. CASE At(src + n) # 34 /\ ~ (At(src + n) = 92 /\ EscapeAt(src + n).size > 0)
  <2>1. pc' = "failed" /\ dst' = dst + n /\ Store(buf, end)
    BY <1>8, Zenon DEF Stopped
  <2>2. CharsAt(s) = {}
    <3>1. CASE text[s] = 92
      <4>1. ~ (EscapeAt(s).size > 0)  BY <1>2, <1>3, <1>8, <3>1
      <4>2. IsChars(s, EscapeAt(s))  BY <1>1, <3>1, EscapeChars
      <4>. QED  BY <4>1, <4>2 DEF IsChars
    <3>2. CASE text[s] # 92
      BY <1>1, <1>2, <3>2, StopChars
    <3>. QED  BY <3>1, <3>2
  <2>3. From[s] = {}
    <3>1. text[s] # 34  BY <1>2, <1>3, <1>8
    <3>. QED  BY <1>1, <2>2, <3>1, FromEnds
  <2>4. Reading = {}
    <3>1. PICK A : Reading = Prefixed(Ahead(buf, n), A, From[s])  BY <1>2 DEF Shown
    <3>. QED  BY <2>3, <3>1, PrefixedNone, Zenon
  <2>5. dst' \in Nat  BY <1>3, <2>1
  <2>. QED  BY <1>5, <2>1, <2>4, <2>5, StopsForNone
<1>. QED  BY <1>6, <1>7, <1>8
-----------------------------------------------------------------------------
(* The vectors at src.                                                     *)

LEMMA LoadIs ==
  ASSUME InputOK, NEW p \in 1 .. Len(text) + 1, NEW N \in Nat, p + N <= Len(text) + 1
  PROVE  /\ DOMAIN Load(p, N) = 1 .. N /\ Len(Load(p, N)) = N
         /\ \A l \in 1 .. N : Load(p, N)[l] = text[p + l - 1] /\ Load(p, N)[l] \in Nat
<1>. DEFINE v == Load(p, N)
<1>1. v = [l \in 1 .. N |-> At(p + l - 1)]  BY DEF Load
<1>2. DOMAIN v = 1 .. N /\ \A l \in 1 .. N : v[l] = At(p + l - 1)  BY <1>1
<1>. HIDE DEF v
<1>3. \A l \in 1 .. N : p + l - 1 \in 1 .. Len(text)  BY TextType
<1>4. \A l \in 1 .. N : v[l] = text[p + l - 1] /\ v[l] \in Nat  BY <1>2, <1>3, TextType
<1>5. v = [l \in 1 .. N |-> v[l]]  BY <1>1 DEF v
<1>6. Len(v) = N  BY <1>4, <1>5, SeqOf
<1>. QED  BY <1>2, <1>4, <1>6 DEF v

\* The vectors stored at the writer hold the characters behind those so far.
LEMMA WholeHolds ==
  ASSUME TypeInv, Scanning, NEW N \in Nat, src + N <= Len(text) + 1, NEW n \in 0 .. N
  PROVE  Holds(StoredWhole(Load(src, N)), n)
<1>1. /\ src \in 1 .. Len(text) + 1 /\ dst \in Nat /\ Len(text) \in Nat /\ InputOK /\ BufferOK(out)
      /\ (pc = "copy" => dst < src)
  BY TextType DEF TypeInv, Scanning
<1>2. PICK v : v = Load(src, N)  OBVIOUS
<1>3. DOMAIN v = 1 .. N /\ \A l \in 1 .. N : v[l] = text[src + l - 1] /\ v[l] \in Nat  BY <1>1, <1>2, LoadIs
<1>4. PICK b : b = Put(out, dst, v, 1 .. N)  OBVIOUS
<1>5. StoredWhole(Load(src, N)) = b  BY <1>2, <1>3, <1>4, Zenon DEF StoredWhole
<1>6. BufferOK(b) /\ \A u \in 0 .. Len(text) - 1 : b[u] = IF u - dst + 1 \in 1 .. N THEN v[u - dst + 1] ELSE out[u]
  <2>1. dst \in Int /\ \A l \in 1 .. N : v[l] \in Nat  BY <1>1, <1>3
  <2>2. BufferOK(Put(out, dst, v, 1 .. N)) /\ \A u \in 0 .. Len(text) - 1 :
          Put(out, dst, v, 1 .. N)[u] = IF u - dst + 1 \in 1 .. N THEN v[u - dst + 1] ELSE out[u]
    <3>1. PICK ls : ls = 1 .. N  OBVIOUS
    <3>2. \A l \in ls : v[l] \in Nat  BY <2>1, <3>1
    <3>3. BufferOK(Put(out, dst, v, ls)) /\ \A u \in 0 .. Len(text) - 1 :
          Put(out, dst, v, ls)[u] = IF u - dst + 1 \in ls THEN v[u - dst + 1] ELSE out[u]
      BY <1>1, <2>1, <3>2, PutIs
    <3>. QED  BY <3>1, <3>3, Zenon
  <2>. QED  BY <1>4, <2>2, Zenon
<1>7. ASSUME pc = "copy" PROVE \A u \in 0 .. dst - 1 : b[u] = out[u]
  <2>1. TAKE u \in 0 .. dst - 1
  <2>2. u \in 0 .. Len(text) - 1 /\ u - dst + 1 \notin 1 .. N  BY <1>1, <1>7
  <2>. QED  BY <1>6, <2>2
<1>8. ASSUME pc = "copy" PROVE \A j \in 1 .. n : b[dst + j - 1] = text[src + j - 1]
  <2>1. TAKE j \in 1 .. n
  <2>2. PICK u \in 0 .. Len(text) - 1 : u = dst + j - 1  BY <1>1, <1>8
  <2>3. u - dst + 1 = j /\ j \in 1 .. N  BY <1>1, <2>2
  <2>4. b[u] = v[j]  BY <1>6, <2>3
  <2>. QED  BY <1>3, <2>2, <2>3, <2>4
<1>. QED  BY <1>5, <1>6, <1>7, <1>8, Zenon DEF Holds

LEMMA TurnKeeps ==
  ASSUME TypeInv, SofarInv, StoresInReserve, Scanning, UNCHANGED fixed,
         NEW N \in Nat, src + N - 1 <= Len(text), Turn(Load(src, N))
  PROVE  IInv'
<1>1. /\ src \in 1 .. Len(text) + 1 /\ dst \in Nat /\ Len(text) \in Nat /\ InputOK /\ BufferOK(out)
      /\ (pc = "copy" => dst < src) /\ (pc = "fast" => dst = 0) /\ pc \in {"fast", "copy"}
      /\ reach \in Nat /\ reach <= ReachBound /\ ReachBound \in Nat /\ Len(text) <= ReachBound
  BY TextType, BatchAssumption DEF TypeInv, Scanning, StoresInReserve, ReachBound
<1>2. PICK v : v = Load(src, N)  OBVIOUS
<1>3. /\ DOMAIN v = 1 .. N /\ Len(v) = N
      /\ \A l \in 1 .. N : v[l] = text[src + l - 1] /\ v[l] \in Nat
  BY <1>1, <1>2, LoadIs
<1>4. PICK b : b = StoredWhole(v)  OBVIOUS
<1>5. \A n \in 0 .. N : Holds(b, n)
  <2>1. src + N <= Len(text) + 1  BY <1>1
  <2>. QED  BY <1>2, <1>4, <2>1, WholeHolds, Zenon
<1>6. Turn(v)  BY <1>2
<1>7. CASE Stops(v) = {}
  <2>1. Continue(v)  BY <1>6, <1>7 DEF Turn
  <2>2. /\ src' = src + N /\ dst' = (IF pc = "copy" THEN dst + N ELSE dst)
        /\ maxvec' = WithMax(v) /\ Store(b, dst + N) /\ UNCHANGED pc
    BY <1>3, <1>4, <2>1, Zenon DEF Continue
  <2>3. \A i \in src .. src + N - 1 : ~ IsStop(text[i])
    <3>1. TAKE i \in src .. src + N - 1
    <3>2. PICK l \in 1 .. N : l = i - src + 1  BY <1>1
    <3>3. src + l - 1 = i  BY <1>1, <3>2
    <3>4. ~ IsStop(v[l])  BY <1>3, <1>7 DEF Stops
    <3>. QED  BY <1>3, <3>3, <3>4
  <2>4. WithMax(v) = Max({maxvec} \cup Chars(src, N))
    <3>1. {v[l] : l \in DOMAIN v} = Chars(src, N)
      <4>1. \A l \in 1 .. N : \E i \in src .. src + N - 1 : v[l] = text[i]
        <5>1. TAKE l \in 1 .. N
        <5>2. src + l - 1 \in src .. src + N - 1  BY <1>1
        <5>. QED  BY <1>3, <5>2
      <4>2. \A i \in src .. src + N - 1 : \E l \in 1 .. N : v[l] = text[i]
        <5>1. TAKE i \in src .. src + N - 1
        <5>2. PICK l \in 1 .. N : l = i - src + 1  BY <1>1
        <5>3. src + l - 1 = i  BY <1>1, <5>2
        <5>. QED  BY <1>3, <5>3
      <4>3. {v[l] : l \in DOMAIN v} = {v[l] : l \in 1 .. N}  BY <1>3
      <4>4. {v[l] : l \in 1 .. N} = {text[i] : i \in src .. src + N - 1}  
        <5>1. ASSUME NEW x \in {v[l] : l \in 1 .. N} PROVE x \in {text[i] : i \in src .. src + N - 1}
          <6>1. PICK l \in 1 .. N : x = v[l]  OBVIOUS
          <6>2. PICK i \in src .. src + N - 1 : v[l] = text[i]  BY <4>1, <6>1
          <6>. QED  BY <6>1, <6>2
        <5>2. ASSUME NEW x \in {text[i] : i \in src .. src + N - 1} PROVE x \in {v[l] : l \in 1 .. N}
          <6>1. PICK i \in src .. src + N - 1 : x = text[i]  OBVIOUS
          <6>2. PICK l \in 1 .. N : v[l] = text[i]  BY <4>2, <6>1
          <6>. QED  BY <6>1, <6>2
        <5>. QED  BY <5>1, <5>2, Zenon
      <4>. QED  BY <4>3, <4>4 DEF Chars
    <3>. QED  BY <3>1, Zenon DEF WithMax
  <2>5. Shown(b, N, maxvec') /\ maxvec' \in Codes
    <3>1. src + N <= Len(text) + 1 /\ N \in 0 .. N  BY <1>1
    <3>2. PICK L : L = Chars(src, N)  OBVIOUS
    <3>3. Shown(b, N, Max({maxvec} \cup L)) /\ Max({maxvec} \cup L) \in Codes
      BY <1>5, <2>3, <3>1, <3>2, Shows
    <3>. QED  BY <2>2, <2>4, <3>2, <3>3, Zenon
  <2>6. out' = (IF pc = "copy" THEN b ELSE out) /\ reach' \in Nat /\ reach' <= ReachBound
    <3>1. CASE pc = "fast"
      <4>1. out' = out /\ reach' = reach /\ pc # "copy"  BY <2>2, <3>1 DEF Store
      <4>. QED  BY <1>1, <4>1
    <3>2. CASE pc = "copy"
      <4>1. out' = b /\ reach' = Max({reach, dst + N})  BY <2>2, <3>2 DEF Store
      <4>2. dst + N \in Nat /\ dst + N <= ReachBound  BY <1>1, <3>2
      <4>3. {reach, dst + N} \in SUBSET (0 .. ReachBound) /\ {reach, dst + N} # {}  BY <1>1, <4>2
      <4>4. Max({reach, dst + N}) \in {reach, dst + N}  BY <1>1, <4>3, MaxIs
      <4>. QED  BY <1>1, <3>2, <4>1, <4>2, <4>4
    <3>. QED  BY <1>1, <3>1, <3>2
  <2>7. src + N <= Len(text) + 1 /\ Holds(b, N)
    <3>1. N \in 0 .. N  OBVIOUS
    <3>. QED  BY <1>1, <1>5, <3>1
  <2>. QED  BY <2>2, <2>5, <2>6, <2>7, GoesOn
<1>8. CASE Stops(v) # {}
  <2>1. Stops(v) \in SUBSET (1 .. N) /\ Stops(v) \in SUBSET Nat  BY <1>3 DEF Stops
  <2>2. PICK m \in 1 .. N : m = Min(Stops(v)) /\ m \in Stops(v) /\ \A y \in Stops(v) : m <= y
    BY <1>8, <2>1, MinIs
  <2>3. PICK n \in 0 .. N - 1 : n = m - 1 /\ m = n + 1  BY <2>2
  <2>4. maxvec' = Tracked(v, n) /\ Stopped(src + n, dst + n, b, dst + N)
    BY <1>3, <1>4, <1>6, <1>8, <2>2, <2>3, Zenon DEF Turn
  <2>5. IsStop(text[src + n])
    <3>1. src + m - 1 = src + n  BY <1>1, <2>3
    <3>2. IsStop(v[m])  BY <2>2 DEF Stops
    <3>. QED  BY <1>3, <2>2, <3>1, <3>2
  <2>6. \A i \in src .. src + n - 1 : ~ IsStop(text[i])
    <3>. TAKE i \in src .. src + n - 1
    <3>1. m \in 1 .. N /\ m = n + 1 /\ n \in 0 .. N - 1  BY <2>2, <2>3
    <3>2. PICK l \in 1 .. N : l = i - src + 1 /\ l < m
      <4>1. i - src + 1 \in 1 .. N /\ i - src + 1 < m  BY <1>1, <3>1
      <4>. QED  BY <4>1
    <3>3. src + l - 1 = i  BY <1>1, <3>2
    <3>4. l \notin Stops(v)  BY <2>2, <3>2
    <3>5. ~ IsStop(v[l])  BY <1>3, <3>4 DEF Stops
    <3>. QED  BY <1>3, <3>3, <3>5
  <2>7. Tracked(v, n) = Max({maxvec} \cup (Chars(src, n) \cup {0}))
    <3>. DEFINE w == LowMask(v, n)
    <3>1. DOMAIN w = 1 .. N /\ \A l \in 1 .. N : w[l] = IF l <= n THEN v[l] ELSE 0  BY <1>3 DEF LowMask
    <3>. HIDE DEF w
    <3>2. {w[l] : l \in DOMAIN w} = Chars(src, n) \cup {0}
      <4>1. \A l \in 1 .. N : w[l] \in Chars(src, n) \cup {0}
        <5>1. TAKE l \in 1 .. N
        <5>2. CASE l <= n
          <6>1. src + l - 1 \in src .. src + n - 1  BY <1>1, <5>2
          <6>2. w[l] = text[src + l - 1]  BY <1>3, <3>1, <5>2
          <6>. QED  BY <6>1, <6>2 DEF Chars
        <5>3. CASE ~ (l <= n)  BY <3>1, <5>3
        <5>. QED  BY <5>2, <5>3
      <4>2. \A i \in src .. src + n - 1 : \E l \in 1 .. N : w[l] = text[i]
        <5>1. TAKE i \in src .. src + n - 1
        <5>2. PICK l \in 1 .. N : l = i - src + 1 /\ l <= n  BY <1>1, <2>3
        <5>3. src + l - 1 = i  BY <1>1, <5>2
        <5>. QED  BY <1>3, <3>1, <5>2, <5>3
      <4>3. \E l \in 1 .. N : w[l] = 0
        <5>1. m \in 1 .. N /\ ~ (m <= n)  BY <2>2, <2>3
        <5>. QED  BY <3>1, <5>1
      <4>4. {w[l] : l \in DOMAIN w} = {w[l] : l \in 1 .. N}  BY <3>1
      <4>5. ASSUME NEW x \in Chars(src, n) PROVE x \in {w[l] : l \in 1 .. N}
        <5>1. PICK i \in src .. src + n - 1 : x = text[i]  BY DEF Chars
        <5>2. PICK l \in 1 .. N : w[l] = text[i]  BY <4>2, <5>1
        <5>. QED  BY <5>1, <5>2
      <4>6. ASSUME NEW x \in {w[l] : l \in 1 .. N} PROVE x \in Chars(src, n) \cup {0}  BY <4>1
      <4>7. 0 \in {w[l] : l \in 1 .. N}  BY <4>3
      <4>. QED  BY <4>4, <4>5, <4>6, <4>7, Zenon
    <3>. QED  BY <3>2, Zenon DEF w, Tracked, WithMax
  <2>8. src + n <= Len(text) /\ src + n <= Len(text) + 1 /\ Holds(b, n) /\ n \in Nat
    <3>1. n \in 0 .. N /\ n \in Nat  BY <2>3
    <3>. QED  BY <1>1, <1>5, <2>3, <3>1
  <2>9. Shown(b, n, maxvec') /\ maxvec' \in Codes
    <3>1. PICK L : L = Chars(src, n) \cup {0}  OBVIOUS
    <3>2. L \in {Chars(src, n), Chars(src, n) \cup {0}}  BY <3>1
    <3>3. Shown(b, n, Max({maxvec} \cup L)) /\ Max({maxvec} \cup L) \in Codes
      BY <2>6, <2>8, <3>2, Shows
    <3>. QED  BY <2>4, <2>7, <3>1, <3>3, Zenon
  <2>10. dst + N \in Nat /\ (pc = "copy" => dst + N <= ReachBound)  BY <1>1
  <2>. QED  BY <2>4, <2>5, <2>8, <2>9, <2>10, StopsRight
<1>. QED  BY <1>7, <1>8
-----------------------------------------------------------------------------
(* The last vector.                                                        *)

\* k is the lane in front of the character at src, t the characters left.
IsTrailing(v, k, t) ==
  /\ DOMAIN v = 1 .. Batch
  /\ \A j \in 1 .. t : v[k + j] = text[src + j - 1]
  /\ \A l \in 1 .. Batch : ~ (l - k \in 1 .. t) => v[l] = 0

LEMMA TrailingIs ==
  ASSUME InputOK, src \in 1 .. Len(text), ~ CanLoop(1)
  PROVE  /\ TrailingLen \in 1 .. Batch - 1 /\ TrailingLen = Len(text) - src + 1
         /\ Skew = (IF isa = "blend" THEN Batch - TrailingLen ELSE 0)
         /\ IsTrailing(TrailingVec, Skew, TrailingLen)
<1>1. Len(text) \in Nat /\ Batch \in Nat /\ Batch >= 1  BY TextType, BatchAssumption
<1>2. TrailingLen = Len(text) - src + 1  BY DEF TrailingLen
<1>3. PICK t \in 1 .. Batch - 1 : t = TrailingLen
  <2>1. src + 1 * Batch - 1 > Len(text)  BY <1>1 DEF CanLoop
  <2>. QED  BY <1>1, <1>2, <2>1
<1>4. Skew = (IF isa = "blend" THEN Batch - TrailingLen ELSE 0)  BY DEF Skew
<1>5. isa \in {"mask", "blend", "shift"}  BY IsasAssumption DEF InputOK
<1>6. src + t - 1 = Len(text)  BY <1>1, <1>2, <1>3
<1>7. \A j \in 1 .. t : At(src + j - 1) = text[src + j - 1]
  <2>1. \A j \in 1 .. t : src + j - 1 \in 1 .. Len(text)  BY <1>1, <1>6
  <2>. QED  BY <2>1, TextType
<1>8. CASE isa = "mask"
  <2>1. TrailingVec = LowMask(Load(src, Batch), t)  BY <1>3, <1>8, Zenon DEF TrailingVec
  <2>2. Skew = 0  BY <1>4, <1>8
  <2>3. TrailingVec = [l \in 1 .. Batch |-> IF l <= t THEN At(src + l - 1) ELSE 0]
    BY <2>1 DEF LowMask, Load
  <2>4. \A l \in 1 .. Batch : TrailingVec[l] = IF l <= t THEN At(src + l - 1) ELSE 0  BY <2>3
  <2>5. DOMAIN TrailingVec = 1 .. Batch  BY <2>3
  <2>6. \A j \in 1 .. t : TrailingVec[0 + j] = text[src + j - 1]
    <3>1. TAKE j \in 1 .. t
    <3>2. j \in 1 .. Batch /\ j <= t /\ 0 + j = j  BY <1>1, <1>3
    <3>. QED  BY <1>7, <2>4, <3>2
  <2>7. \A l \in 1 .. Batch : ~ (l - 0 \in 1 .. t) => TrailingVec[l] = 0  BY <1>1, <2>4
  <2>. QED  BY <1>2, <1>3, <1>4, <2>2, <2>5, <2>6, <2>7, Zenon DEF IsTrailing
<1>9. CASE isa = "shift"
  <2>1. TrailingVec = ShiftRight(Load(Len(text) - Batch + 1, Batch), Batch - t)
    <3>1. isa # "mask" /\ isa # "blend"  BY <1>9
    <3>. QED  BY <1>3, <1>9, <3>1, Zenon DEF TrailingVec
  <2>2. Skew = 0  BY <1>4, <1>9
  <2>3. PICK last : last = Load(Len(text) - Batch + 1, Batch)  OBVIOUS
  <2>4. DOMAIN last = 1 .. Batch /\ \A l \in 1 .. Batch : last[l] = At(Len(text) - Batch + 1 + l - 1)
    BY <2>3 DEF Load
  <2>5. TrailingVec = [l \in 1 .. Batch |-> IF l + (Batch - t) \in 1 .. Batch THEN last[l + (Batch - t)] ELSE 0]
    BY <2>1, <2>3, <2>4, Zenon DEF ShiftRight
  <2>6. /\ DOMAIN TrailingVec = 1 .. Batch
        /\ \A l \in 1 .. Batch : TrailingVec[l] = IF l + (Batch - t) \in 1 .. Batch THEN last[l + (Batch - t)] ELSE 0
    BY <2>5
  <2>7. \A j \in 1 .. t : TrailingVec[0 + j] = text[src + j - 1]
    <3>1. TAKE j \in 1 .. t
    <3>2. j \in 1 .. Batch /\ 0 + j = j  BY <1>1, <1>3
    <3>3. PICK l \in 1 .. Batch : l = j + (Batch - t)  BY <1>1, <1>3
    <3>4. TrailingVec[j] = last[l]  BY <2>6, <3>2, <3>3
    <3>5. Len(text) - Batch + 1 + l - 1 = src + j - 1  BY <1>1, <1>3, <1>6, <3>3
    <3>6. last[l] = At(src + j - 1)  BY <2>4, <3>5
    <3>. QED  BY <1>7, <3>2, <3>4, <3>6
  <2>8. \A l \in 1 .. Batch : ~ (l - 0 \in 1 .. t) => TrailingVec[l] = 0  BY <1>1, <1>3, <2>6
  <2>. QED  BY <1>2, <1>3, <1>4, <2>2, <2>6, <2>7, <2>8, Zenon DEF IsTrailing
<1>10. CASE isa = "blend"
  <2>1. TrailingVec = HighMask(Load(Len(text) - Batch + 1, Batch), t)
    <3>1. isa # "mask"  BY <1>10
    <3>. QED  BY <1>3, <1>10, <3>1, Zenon DEF TrailingVec
  <2>2. PICK k \in 1 .. Batch : k = Skew /\ k = Batch - t  BY <1>1, <1>3, <1>4, <1>10
  <2>3. PICK last : last = Load(Len(text) - Batch + 1, Batch)  OBVIOUS
  <2>4. DOMAIN last = 1 .. Batch /\ \A l \in 1 .. Batch : last[l] = At(Len(text) - Batch + 1 + l - 1)
    BY <2>3 DEF Load
  <2>5. Len(last) = Batch
    <3>1. last \in Seq({last[l] : l \in 1 .. Batch})
      <4>1. last = [l \in 1 .. Batch |-> last[l]]  BY <2>3, <2>4 DEF Load
      <4>2. last \in [1 .. Batch -> {last[l] : l \in 1 .. Batch}]  BY <4>1
      <4>. QED  BY <1>1, <4>2, SeqDef
    <3>. QED  BY <1>1, <2>4, <3>1, LenProperties
  <2>6. TrailingVec = [l \in 1 .. Batch |-> IF l > Batch - t THEN last[l] ELSE 0]
    BY <2>1, <2>3, <2>4, <2>5, Zenon DEF HighMask
  <2>7. /\ DOMAIN TrailingVec = 1 .. Batch
        /\ \A l \in 1 .. Batch : TrailingVec[l] = IF l > Batch - t THEN last[l] ELSE 0
    BY <2>6
  <2>8. \A j \in 1 .. t : TrailingVec[k + j] = text[src + j - 1]
    <3>1. TAKE j \in 1 .. t
    <3>2. PICK l \in 1 .. Batch : l = k + j /\ l > Batch - t  BY <1>1, <1>3, <2>2
    <3>3. TrailingVec[l] = last[l]  BY <2>7, <3>2
    <3>4. Len(text) - Batch + 1 + l - 1 = src + j - 1  BY <1>1, <1>3, <1>6, <2>2, <3>2
    <3>5. last[l] = At(src + j - 1)  BY <2>4, <3>4
    <3>. QED  BY <1>7, <3>2, <3>3, <3>5
  <2>9. \A l \in 1 .. Batch : ~ (l - k \in 1 .. t) => TrailingVec[l] = 0  BY <1>1, <1>3, <2>2, <2>7
  <2>. QED  BY <1>2, <1>3, <1>4, <2>2, <2>7, <2>8, <2>9, Zenon DEF IsTrailing
<1>. QED  BY <1>5, <1>8, <1>9, <1>10
\* The stops of the last vector are those of the characters left.
LEMMA TrailingStopsAre ==
  ASSUME InputOK, src \in 1 .. Len(text), ~ CanLoop(1)
  PROVE  /\ TrailingStops \in SUBSET (1 .. Batch)
         /\ \A l \in 1 .. Batch : l \in TrailingStops =>
              \E j \in 1 .. TrailingLen : l = Skew + j /\ IsStop(text[src + j - 1])
         /\ \A j \in 1 .. TrailingLen : IsStop(text[src + j - 1]) => Skew + j \in TrailingStops
<1>1. Len(text) \in Nat /\ Batch \in Nat /\ Batch >= 1  BY TextType, BatchAssumption
<1>2. PICK t \in 1 .. Batch - 1 : t = TrailingLen  BY TrailingIs
<1>3. PICK k \in 0 .. Batch - 1 : k = Skew /\ k = (IF isa = "blend" THEN Batch - t ELSE 0)
  <2>1. Skew = (IF isa = "blend" THEN Batch - t ELSE 0)  BY <1>2, TrailingIs
  <2>2. Skew \in 0 .. Batch - 1  BY <1>1, <1>2, <2>1
  <2>. QED  BY <2>1, <2>2
<1>4. PICK v : v = TrailingVec  OBVIOUS
<1>5. IsTrailing(v, k, t)  BY <1>2, <1>3, <1>4, TrailingIs
<1>6. TrailingStops = {l \in 1 .. Batch : IsStop(v[l]) /\ (IF isa = "blend" THEN l > Batch - t ELSE l <= t)}
  <2>1. DOMAIN v = 1 .. Batch  BY <1>5 DEF IsTrailing
  <2>2. TrailingStops = {l \in Stops(v) : IF isa = "blend" THEN l > Batch - t ELSE l <= t}
    BY <1>2, <1>4, Zenon DEF TrailingStops
  <2>. QED  BY <2>1, <2>2 DEF Stops
<1>7. \A l \in 1 .. Batch : (IF isa = "blend" THEN l > Batch - t ELSE l <= t) <=> \E j \in 1 .. t : l = k + j
  <2>1. TAKE l \in 1 .. Batch
  <2>2. CASE isa = "blend"
    <3>1. k = Batch - t  BY <1>3, <2>2
    <3>2. l > Batch - t => l - k \in 1 .. t /\ l = k + (l - k)  BY <1>1, <3>1
    <3>. QED  BY <1>1, <2>2, <3>1, <3>2
  <2>3. CASE isa # "blend"
    <3>1. k = 0  BY <1>3, <2>3
    <3>. QED  BY <1>1, <2>3, <3>1
  <2>. QED  BY <2>2, <2>3
<1>8. \A l \in 1 .. Batch : l \in TrailingStops => \E j \in 1 .. t : l = k + j /\ IsStop(text[src + j - 1])
  <2>1. TAKE l \in 1 .. Batch
  <2>2. HAVE l \in TrailingStops
  <2>3. PICK j \in 1 .. t : l = k + j  BY <1>6, <1>7, <2>2
  <2>4. IsStop(v[l])  BY <1>6, <2>2
  <2>5. v[l] = text[src + j - 1]  BY <1>5, <2>3 DEF IsTrailing
  <2>. QED  BY <2>3, <2>4, <2>5
<1>9. \A j \in 1 .. t : IsStop(text[src + j - 1]) => k + j \in TrailingStops
  <2>1. TAKE j \in 1 .. t
  <2>2. HAVE IsStop(text[src + j - 1])
  <2>3. PICK l \in 1 .. Batch : l = k + j
    <3>1. k + j \in 1 .. Batch  BY <1>1, <1>3
    <3>. QED  BY <3>1
  <2>4. IF isa = "blend" THEN l > Batch - t ELSE l <= t  BY <1>7, <2>3
  <2>5. v[l] = text[src + j - 1]  BY <1>5, <2>3 DEF IsTrailing
  <2>. QED  BY <1>6, <2>2, <2>3, <2>4, <2>5
<1>10. TrailingStops \in SUBSET (1 .. Batch)  BY <1>6
<1>. QED  BY <1>2, <1>3, <1>8, <1>9, <1>10, Zenon

\* The last vector stored at the writer holds the characters left.
LEMMA TrailingHolds ==
  ASSUME TypeInv, Scanning, src \in 1 .. Len(text), ~ CanLoop(1), NEW n \in 0 .. TrailingLen
  PROVE  Holds(StoredTrailing(TrailingVec), n)
<1>1. /\ dst \in Nat /\ Len(text) \in Nat /\ InputOK /\ BufferOK(out)
      /\ (pc = "copy" => dst < src) /\ Batch \in Nat
  BY TextType, BatchAssumption DEF TypeInv, Scanning
<1>2. PICK t \in 1 .. Batch - 1 : t = TrailingLen /\ t = Len(text) - src + 1  BY <1>1, TrailingIs
<1>3. PICK k \in 0 .. Batch - 1 : k = Skew /\ k = (IF isa = "blend" THEN Batch - t ELSE 0)
  <2>1. Skew = (IF isa = "blend" THEN Batch - t ELSE 0)  BY <1>1, <1>2, TrailingIs
  <2>2. Skew \in 0 .. Batch - 1  BY <1>1, <1>2, <2>1
  <2>. QED  BY <2>1, <2>2
<1>4. PICK v : v = TrailingVec  OBVIOUS
<1>5. IsTrailing(v, k, t)  BY <1>1, <1>2, <1>3, <1>4, TrailingIs
<1>6. PICK ls \in SUBSET (1 .. Batch) : ls = IF isa = "blend" THEN k + 1 .. Batch ELSE 1 .. Batch
  <2>1. k + 1 .. Batch \in SUBSET (1 .. Batch)  BY <1>1, <1>3
  <2>. QED  BY <2>1
<1>7. PICK b : b = Put(out, dst - k, v, ls)  OBVIOUS
<1>8. StoredTrailing(TrailingVec) = b  BY <1>3, <1>4, <1>6, <1>7, Zenon DEF StoredTrailing, Lanes
<1>9. \A l \in 1 .. Batch : v[l] \in Nat
  <2>1. TAKE l \in 1 .. Batch
  <2>2. CASE l - k \in 1 .. t
    <3>1. PICK j \in 1 .. t : l = k + j /\ src + j - 1 \in 1 .. Len(text)
      <4>1. PICK j \in 1 .. t : j = l - k  BY <2>2
      <4>2. l = k + j  BY <1>3, <4>1
      <4>3. src + j - 1 \in 1 .. Len(text)  BY <1>1, <1>2
      <4>. QED  BY <4>2, <4>3
    <3>2. v[l] = text[src + j - 1]  BY <1>5, <3>1 DEF IsTrailing
    <3>. QED  BY <1>1, <3>1, <3>2, TextType
  <2>3. CASE ~ (l - k \in 1 .. t)  BY <1>5, <2>3 DEF IsTrailing
  <2>. QED  BY <2>2, <2>3
<1>10. BufferOK(b) /\ \A u \in 0 .. Len(text) - 1 : b[u] = IF u - (dst - k) + 1 \in ls THEN v[u - (dst - k) + 1] ELSE out[u]
  <2>1. PICK d \in Int : d = dst - k
    <3>1. dst - k \in Int  BY <1>1, <1>3
    <3>. QED  BY <3>1
  <2>2. \A l \in ls : v[l] \in Nat  BY <1>6, <1>9
  <2>3. BufferOK(Put(out, d, v, ls)) /\ \A u \in 0 .. Len(text) - 1 :
          Put(out, d, v, ls)[u] = IF u - d + 1 \in ls THEN v[u - d + 1] ELSE out[u]
    <3>1. InputOK /\ BufferOK(out) /\ d \in Int  BY <1>1, <2>1
    <3>2. LanesOK(v, ls)  BY <2>2 DEF LanesOK
    <3>3. IsPut(Put(out, d, v, ls), out, d, v, ls)  BY <3>1, <3>2, PutIsOne
    <3>. QED  BY <3>3 DEF IsPut
  <2>. QED  BY <1>7, <2>1, <2>3, Zenon
<1>11. ASSUME pc = "copy" PROVE \A u \in 0 .. dst - 1 : b[u] = out[u]
  <2>1. TAKE u \in 0 .. dst - 1
  <2>2. u \in 0 .. Len(text) - 1  BY <1>1, <1>11
  <2>3. u - (dst - k) + 1 <= k /\ u - (dst - k) + 1 \in Int  BY <1>1, <1>3
  <2>4. u - (dst - k) + 1 \notin ls  BY <1>1, <1>3, <1>6, <2>3
  <2>. QED  BY <1>10, <2>2, <2>4
<1>12. ASSUME pc = "copy" PROVE \A j \in 1 .. n : b[dst + j - 1] = text[src + j - 1]
  <2>1. TAKE j \in 1 .. n
  <2>2. j \in 1 .. t  BY <1>2
  <2>3. PICK u \in 0 .. Len(text) - 1 : u = dst + j - 1  BY <1>1, <1>2, <1>12, <2>2
  <2>4. u - (dst - k) + 1 = k + j  BY <1>1, <1>3, <2>2, <2>3
  <2>5. k + j \in ls
    <3>1. k + j \in k + 1 .. Batch /\ k + j \in 1 .. Batch  BY <1>1, <1>2, <1>3, <2>2
    <3>. QED  BY <1>6, <3>1
  <2>6. b[u] = v[k + j]  BY <1>10, <2>4, <2>5
  <2>. QED  BY <1>5, <2>2, <2>3, <2>6 DEF IsTrailing
<1>. QED  BY <1>8, <1>10, <1>11, <1>12, Zenon DEF Holds

\* The lanes in front of the stop are the characters in front of it.
LEMMA TrailingTracks ==
  ASSUME InputOK, src \in 1 .. Len(text), ~ CanLoop(1), NEW n \in 0 .. TrailingLen - 1
  PROVE  Tracked(TrailingVec, Skew + n) = Max({maxvec} \cup (Chars(src, n) \cup {0}))
<1>1. Len(text) \in Nat /\ Batch \in Nat /\ Batch >= 1  BY TextType, BatchAssumption
<1>2. PICK t \in 1 .. Batch - 1 : t = TrailingLen  BY TrailingIs
<1>3. PICK k \in 0 .. Batch - 1 : k = Skew /\ k = (IF isa = "blend" THEN Batch - t ELSE 0)
  <2>1. Skew = (IF isa = "blend" THEN Batch - t ELSE 0)  BY <1>2, TrailingIs
  <2>2. Skew \in 0 .. Batch - 1  BY <1>1, <1>2, <2>1
  <2>. QED  BY <2>1, <2>2
<1>4. PICK v : v = TrailingVec  OBVIOUS
<1>5. IsTrailing(v, k, t)  BY <1>2, <1>3, <1>4, TrailingIs
<1>6. PICK m \in 0 .. Batch - 1 : m = k + n
  <2>1. k + t <= Batch  BY <1>1, <1>2, <1>3
  <2>2. k + n \in 0 .. Batch - 1  BY <1>1, <1>2, <1>3, <2>1
  <2>. QED  BY <2>2
<1>7. PICK w : w = LowMask(v, m)  OBVIOUS
<1>8. DOMAIN w = 1 .. Batch /\ \A l \in 1 .. Batch : w[l] = IF l <= m THEN v[l] ELSE 0
  <2>1. DOMAIN v = 1 .. Batch  BY <1>5 DEF IsTrailing
  <2>2. w = [l \in 1 .. Batch |-> IF l <= m THEN v[l] ELSE 0]  BY <1>7, <2>1, Zenon DEF LowMask
  <2>. QED  BY <2>2
<1>9. \A l \in 1 .. Batch : w[l] \in Chars(src, n) \cup {0}
  <2>1. TAKE l \in 1 .. Batch
  <2>2. CASE l <= m /\ l - k \in 1 .. t
    <3>1. PICK j \in 1 .. t : l = k + j /\ j <= n /\ src + j - 1 \in src .. src + n - 1
      <4>1. l - k \in 1 .. t /\ l = k + (l - k) /\ l - k <= n  BY <1>3, <1>6, <2>2
      <4>2. src + (l - k) - 1 \in src .. src + n - 1  BY <1>1, <1>2, <4>1
      <4>. QED  BY <4>1, <4>2
    <3>2. w[l] = text[src + j - 1]  BY <1>5, <1>8, <2>2, <3>1 DEF IsTrailing
    <3>. QED  BY <3>1, <3>2 DEF Chars
  <2>3. CASE l <= m /\ ~ (l - k \in 1 .. t)
    <3>1. w[l] = 0  BY <1>5, <1>8, <2>3 DEF IsTrailing
    <3>. QED  BY <3>1
  <2>4. CASE ~ (l <= m)  BY <1>8, <2>4
  <2>. QED  BY <2>2, <2>3, <2>4
<1>10. \A i \in src .. src + n - 1 : \E l \in 1 .. Batch : w[l] = text[i]
  <2>1. TAKE i \in src .. src + n - 1
  <2>2. PICK j \in 1 .. t : j = i - src + 1 /\ j <= n /\ src + j - 1 = i
    <3>1. i - src + 1 \in 1 .. t /\ i - src + 1 <= n /\ src + (i - src + 1) - 1 = i  BY <1>1, <1>2
    <3>. QED  BY <3>1
  <2>3. PICK l \in 1 .. Batch : l = k + j /\ l <= m
    <3>1. k + j \in 1 .. Batch /\ k + j <= m  BY <1>1, <1>3, <1>6, <2>2
    <3>. QED  BY <3>1
  <2>4. w[l] = text[src + j - 1]  BY <1>5, <1>8, <2>3 DEF IsTrailing
  <2>. QED  BY <2>2, <2>4
<1>11. \E l \in 1 .. Batch : w[l] = 0
  <2>1. Batch \in 1 .. Batch /\ ~ (Batch <= m)  BY <1>1, <1>6
  <2>. QED  BY <1>8, <2>1
<1>12. {w[l] : l \in DOMAIN w} = Chars(src, n) \cup {0}
  <2>1. ASSUME NEW x \in {w[l] : l \in 1 .. Batch} PROVE x \in Chars(src, n) \cup {0}
    BY <1>9
  <2>2. ASSUME NEW x \in Chars(src, n) PROVE x \in {w[l] : l \in 1 .. Batch}
    <3>1. PICK i \in src .. src + n - 1 : x = text[i]  BY DEF Chars
    <3>2. PICK l \in 1 .. Batch : w[l] = text[i]  BY <1>10, <3>1
    <3>. QED  BY <3>1, <3>2
  <2>3. 0 \in {w[l] : l \in 1 .. Batch}  BY <1>11
  <2>4. {w[l] : l \in 1 .. Batch} = Chars(src, n) \cup {0}  BY <2>1, <2>2, <2>3, Zenon
  <2>. QED  BY <1>8, <2>4
<1>13. Tracked(TrailingVec, Skew + n) = Max({maxvec} \cup {w[l] : l \in DOMAIN w})
  BY <1>3, <1>4, <1>6, <1>7, Zenon DEF Tracked, WithMax
<1>. QED  BY <1>12, <1>13, Zenon
LEMMA TrailingKeeps ==
  ASSUME TypeInv, SofarInv, StoresInReserve, Trailing
  PROVE  IInv'
<1>1. /\ dst \in Nat /\ Len(text) \in Nat /\ InputOK /\ Scanning /\ UNCHANGED fixed
      /\ src \in 1 .. Len(text) /\ ~ CanLoop(1)
      /\ (pc = "copy" => dst < src) /\ Batch \in Nat
  <2>1. Scanning /\ UNCHANGED fixed /\ src <= Len(text) /\ ~ CanLoop(1)  BY DEF Trailing
  <2>2. TypeInv /\ InputOK /\ Len(text) \in Nat  BY TextType DEF TypeInv
  <2>. QED  BY <2>1, <2>2, BatchAssumption DEF TypeInv, Scanning
<1>2. PICK t \in 1 .. Batch - 1 : t = TrailingLen /\ t = Len(text) - src + 1  BY <1>1, TrailingIs
<1>3. PICK k \in 0 .. Batch - 1 : k = Skew /\ k = (IF isa = "blend" THEN Batch - t ELSE 0)
  <2>1. Skew = (IF isa = "blend" THEN Batch - t ELSE 0)  BY <1>1, <1>2, TrailingIs
  <2>2. Skew \in 0 .. Batch - 1  BY <1>1, <1>2, <2>1
  <2>. QED  BY <2>1, <2>2
<1>4. PICK m \in TrailingStops : m = Min(TrailingStops) /\ \A y \in TrailingStops : m <= y
  <2>1. TrailingStops \in SUBSET (1 .. Batch)  BY <1>1, TrailingStopsAre
  <2>2. TrailingStops \in SUBSET Nat  BY <2>1
  <2>3. TrailingStops # {}  BY DEF Trailing
  <2>. QED  BY <2>2, <2>3, MinIs
<1>5. PICK n \in 0 .. t - 1 : m = k + n + 1 /\ IsStop(text[src + n])
  <2>1. m \in 1 .. Batch  BY <1>1, TrailingStopsAre
  <2>2. PICK j \in 1 .. t : m = k + j /\ IsStop(text[src + j - 1])
    BY <1>1, <1>2, <1>3, <2>1, TrailingStopsAre
  <2>3. PICK i \in 0 .. t - 1 : i = j - 1 /\ src + j - 1 = src + i /\ m = k + i + 1
    <3>1. j - 1 \in 0 .. t - 1 /\ src + j - 1 = src + (j - 1) /\ m = k + (j - 1) + 1  BY <1>1, <1>2, <1>3, <2>2
    <3>. QED  BY <3>1
  <2>. QED  BY <2>2, <2>3
<1>6. TrailingDone = n /\ Min(TrailingStops) - 1 = k + n
  <2>1. TrailingDone = m - 1 - k  BY <1>3, <1>4, Zenon DEF TrailingDone
  <2>2. m - 1 - k = n /\ m - 1 = k + n  BY <1>3, <1>5
  <2>3. Min(TrailingStops) - 1 = m - 1  BY <1>4, Zenon
  <2>. QED  BY <2>1, <2>2, <2>3
<1>7. PICK b : b = StoredTrailing(TrailingVec)  OBVIOUS
<1>8. PICK end \in Nat : end = dst + Batch - k /\ (pc = "copy" => end <= ReachBound)
  <2>1. dst + Batch - k \in Nat  BY <1>1, <1>3
  <2>2. ASSUME pc = "copy" PROVE dst + Batch - k <= ReachBound
    <3>1. CASE isa = "blend"
      <4>1. ReachBound = Len(text) + 0  BY <3>1 DEF ReachBound
      <4>. QED  BY <1>1, <1>2, <1>3, <2>2, <3>1, <4>1
    <3>2. CASE isa # "blend"
      <4>1. ReachBound = Len(text) + (Batch - 1)  BY <3>2 DEF ReachBound
      <4>. QED  BY <1>1, <1>3, <2>2, <3>2, <4>1
    <3>. QED  BY <3>1, <3>2
  <2>. QED  BY <2>1, <2>2
<1>9. maxvec' = Tracked(TrailingVec, k + n) /\ Stopped(src + n, dst + n, b, end)
  <2>1. /\ maxvec' = Tracked(TrailingVec, Min(TrailingStops) - 1)
        /\ Stopped(src + TrailingDone, dst + TrailingDone, StoredTrailing(TrailingVec), dst + Batch - Skew)
    BY DEF Trailing
  <2>. QED  BY <1>3, <1>6, <1>7, <1>8, <2>1, Zenon
<1>10. \A i \in src .. src + n - 1 : ~ IsStop(text[i])
  <2>1. TAKE i \in src .. src + n - 1
  <2>2. PICK j \in 1 .. t : j = i - src + 1 /\ src + j - 1 = i /\ k + j < m
    <3>1. i - src + 1 \in 1 .. t /\ src + (i - src + 1) - 1 = i /\ i - src + 1 <= n
      BY <1>1, <1>2
    <3>2. PICK j \in 1 .. t : j = i - src + 1 /\ src + j - 1 = i /\ j <= n  BY <3>1
    <3>3. m = k + n + 1  BY <1>5
    <3>4. k + j < m  BY <1>3, <3>2, <3>3
    <3>. QED  BY <3>2, <3>4
  <2>3. k + j \notin TrailingStops  BY <1>3, <1>4, <1>5, <2>2
  <2>4. ~ IsStop(text[src + j - 1])  BY <1>1, <1>2, <1>3, <2>2, <2>3, TrailingStopsAre
  <2>. QED  BY <2>2, <2>4
<1>11. /\ src + n <= Len(text) /\ src + n <= Len(text) + 1 /\ n \in Nat
       /\ n \in 0 .. TrailingLen /\ n \in 0 .. TrailingLen - 1
  BY <1>1, <1>2
<1>12. Holds(b, n)
  <2>1. Holds(StoredTrailing(TrailingVec), n)  BY <1>1, <1>11, TrailingHolds
  <2>. QED  BY <1>7, <2>1, Zenon
<1>13. Shown(b, n, maxvec') /\ maxvec' \in Codes
  <2>1. PICK L : L = Chars(src, n) \cup {0}  OBVIOUS
  <2>2. L \in {Chars(src, n), Chars(src, n) \cup {0}}  BY <2>1
  <2>3. Shown(b, n, Max({maxvec} \cup L)) /\ Max({maxvec} \cup L) \in Codes
    BY <1>1, <1>10, <1>11, <1>12, <2>2, Shows
  <2>4. Tracked(TrailingVec, Skew + n) = Max({maxvec} \cup (Chars(src, n) \cup {0}))
    BY <1>1, <1>11, TrailingTracks
  <2>. QED  BY <1>3, <1>9, <2>1, <2>3, <2>4, Zenon
<1>. QED  BY <1>1, <1>5, <1>8, <1>9, <1>11, <1>12, <1>13, StopsRight

LEMMA EndKeeps ==
  ASSUME TypeInv, SofarInv, StoresInReserve, EndOfText
  PROVE  IInv'
<1>1. /\ dst \in Nat /\ Len(text) \in Nat /\ InputOK /\ Scanning /\ UNCHANGED fixed
      /\ src \in 1 .. Len(text) + 1 /\ ~ CanLoop(1)
      /\ pc' = "failed" /\ UNCHANGED <<src, out, dst, reach, maxvec, result>>
      /\ (src > Len(text) \/ TrailingStops = {})
  <2>1. /\ Scanning /\ UNCHANGED <<text, before, isa, isKey, src, out, dst, reach, maxvec, result>>
        /\ pc' = "failed" /\ ~ CanLoop(1) /\ (src > Len(text) \/ TrailingStops = {})
    BY DEF EndOfText
  <2>2. InputOK /\ Len(text) \in Nat  BY TextType DEF TypeInv
  <2>. QED  BY <2>1, <2>2 DEF TypeInv, fixed
<1>2. PICK A \in SUBSET Codes : Reading = Prefixed(Sofar, A, From[src])  BY <1>1 DEF SofarInv
<1>3. PICK a \in Seq(Nat) : a = Sofar
  <2>1. Holds(out, 0)  BY <1>1 DEF Holds, TypeInv
  <2>2. src + 0 <= Len(text) + 1 /\ 0 \in Nat  BY <1>1
  <2>. QED  BY <1>1, <2>1, <2>2, AheadIs
<1>4. From[Len(text) + 1] = {}  BY <1>1, FromEnds
<1>5. Reading = {}
  <2>1. CASE src > Len(text)
    <3>1. src = Len(text) + 1  BY <1>1, <2>1
    <3>2. Reading = Prefixed(a, A, {})  BY <1>2, <1>3, <1>4, <3>1, Zenon
    <3>. QED  BY <3>2, PrefixedNone, Zenon
  <2>2. CASE ~ (src > Len(text)) /\ TrailingStops = {}
    <3>1. src \in 1 .. Len(text)  BY <1>1, <2>2
    <3>2. PICK t \in Nat : t = TrailingLen /\ t = Len(text) - src + 1 /\ src + t = Len(text) + 1
      <4>1. TrailingLen = Len(text) - src + 1  BY <1>1, <3>1, TrailingIs
      <4>2. Len(text) - src + 1 \in Nat /\ src + (Len(text) - src + 1) = Len(text) + 1  BY <1>1, <3>1
      <4>. QED  BY <4>1, <4>2
    <3>3. \A i \in src .. src + t - 1 : ~ IsStop(text[i])
      <4>1. TAKE i \in src .. src + t - 1
      <4>2. PICK j \in 1 .. TrailingLen : src + j - 1 = i
        <5>1. i - src + 1 \in 1 .. t /\ src + (i - src + 1) - 1 = i  BY <1>1, <3>2
        <5>. QED  BY <3>2, <5>1
      <4>3. ~ IsStop(text[src + j - 1])  BY <1>1, <2>2, <3>1, TrailingStopsAre
      <4>. QED  BY <4>2, <4>3
    <3>4. Prefixed(a, A, From[src])
            = Prefixed(a \o SubSeq(text, src, src + t - 1), A \cup Chars(src, t), From[src + t])
      <4>1. src + t <= Len(text) + 1  BY <1>1, <3>2
      <4>. QED  BY <1>1, <3>3, <4>1, ReadRun
    <3>5. Reading = Prefixed(a \o SubSeq(text, src, src + t - 1), A \cup Chars(src, t), {})
      BY <1>2, <1>3, <1>4, <3>2, <3>4, Zenon
    <3>. QED  BY <3>5, PrefixedNone, Zenon
  <2>. QED  BY <1>1, <2>1, <2>2
<1>6. maxvec' \in Codes /\ dst' \in Nat /\ reach' \in Nat /\ reach' <= ReachBound /\ BufferOK(out')
  BY <1>1 DEF TypeInv, StoresInReserve, ReachBound
<1>. QED  BY <1>1, <1>5, <1>6, StopsForNone

LEMMA InitKeeps == ASSUME Init PROVE IInv
<1>1. /\ InputOK /\ pc = "fast" /\ src = 1 /\ dst = 0 /\ reach = 0 /\ maxvec = 0
      /\ out = [u \in 0 .. Len(text) - 1 |-> before]
  BY DEF Init, InputOK
<1>2. Len(text) \in Nat /\ before \in Nat /\ text \in Seq(Nat)
  <2>1. before \in Codes  BY <1>1, TextsAssumption DEF InputOK
  <2>. QED  BY <1>1, <2>1, TextType, TextOfNat, CodeIs
<1>3. BufferOK(out)
  <2>1. out = [u \in 0 .. Len(text) - 1 |-> out[u]]  BY <1>1
  <2>2. \A u \in 0 .. Len(text) - 1 : out[u] \in Nat  BY <1>1, <1>2
  <2>. QED  BY <2>1, <2>2 DEF BufferOK
<1>4. TypeInv
  <2>1. 0 \in Codes  BY CodeIs
  <2>. QED  BY <1>1, <1>2, <1>3, <2>1 DEF TypeInv
<1>5. SofarInv
  <2>1. Sofar = <<>>  BY <1>1, <1>2 DEF Sofar
  <2>2. {} \in SUBSET Codes /\ Max({0} \cup {}) = 0
    <3>1. {0} \cup {} \in SUBSET (0 .. 0) /\ {0} \cup {} # {}  OBVIOUS
    <3>2. Max({0} \cup {}) \in {0} \cup {}  BY <3>1, MaxIs
    <3>. QED  BY <3>2
  <2>3. PICK R \in SUBSET Readings : R = From[1]
    <3>1. 1 \in 1 .. Len(text) + 1  BY <1>2
    <3>. QED  BY <1>1, <3>1, FromType
  <2>4. Prefixed(<<>>, {}, R) = R  BY PrefixedByNone
  <2>5. Reading = Prefixed(Sofar, {}, From[src])  BY <1>1, <2>1, <2>3, <2>4, ReadingIs, Zenon
  <2>. QED  BY <1>1, <2>2, <2>5, Zenon DEF SofarInv
<1>6. ReadsString /\ MaxIsOfRaw  BY <1>1 DEF ReadsString, MaxIsOfRaw
<1>7. StoresInReserve  BY <1>1, <1>2, BatchAssumption DEF StoresInReserve
<1>. QED  BY <1>4, <1>5, <1>6, <1>7 DEF IInv

LEMMA StutterKeeps == ASSUME IInv, UNCHANGED vars PROVE IInv'
<1>1. UNCHANGED fixed /\ UNCHANGED <<pc, src, out, dst, reach, maxvec, result>> /\ text' = text /\ isa' = isa
  BY DEF vars, fixed
<1>2. Reading' = Reading /\ From' = From  BY <1>1, ReadingStays, FromStays
<1>3. TypeInv'
  <2>1. BufferOK(out') /\ TypeInv  BY <1>1 DEF IInv, TypeInv
  <2>. QED  BY <1>1, <2>1, KeepsTypes DEF TypeInv, Scanning
<1>4. ReadsString' /\ MaxIsOfRaw' /\ StoresInReserve'
  <2>1. ReadsString /\ MaxIsOfRaw /\ StoresInReserve  BY DEF IInv
  <2>. QED  BY <1>1, <1>2, <2>1 DEF ReadsString, MaxIsOfRaw, StoresInReserve
<1>5. SofarInv'
  <2>1. SofarInv  BY DEF IInv
  <2>2. Sofar' = Sofar  BY <1>1 DEF Sofar
  <2>3. From'[src'] = From[src] /\ Codes' = Codes /\ (Scanning' <=> Scanning)  BY <1>1, <1>2 DEF Scanning
  <2>4. ASSUME Scanning' PROVE (\E A \in SUBSET Codes : maxvec = Max({0} \cup A) /\ Reading = Prefixed(Sofar, A, From[src]))'
    <3>1. PICK A \in SUBSET Codes : maxvec = Max({0} \cup A) /\ Reading = Prefixed(Sofar, A, From[src])
      BY <2>1, <2>3, <2>4 DEF SofarInv
    <3>2. maxvec' = Max({0} \cup A) /\ Reading' = Prefixed(Sofar', A, From'[src'])
      BY <1>1, <1>2, <2>2, <2>3, <3>1, Zenon
    <3>. QED  BY <3>2
  <2>. QED  BY <2>4 DEF SofarInv
<1>. QED  BY <1>3, <1>4, <1>5 DEF IInv

LEMMA Invariant == Spec => []IInv
<1>1. Init => IInv  BY InitKeeps
<1>2. IInv /\ [Next]_vars => IInv'
  <2>. SUFFICES ASSUME IInv, [Next]_vars PROVE IInv'  OBVIOUS
  <2>1. TypeInv /\ SofarInv /\ StoresInReserve  BY DEF IInv
  <2>2. CASE Loop4
    <3>1. /\ Scanning /\ UNCHANGED fixed /\ src + 4 * Batch - 1 <= Len(text) /\ Turn(Load(src, 4 * Batch))
      BY <2>2 DEF Loop4, Loop4Applies, CanLoop
    <3>2. 4 * Batch \in Nat  BY BatchAssumption
    <3>. QED  BY <2>1, <3>1, <3>2, TurnKeeps
  <2>3. CASE Loop
    <3>1. /\ Scanning /\ UNCHANGED fixed /\ src + 1 * Batch - 1 <= Len(text) /\ Turn(Load(src, Batch))
      BY <2>3 DEF Loop, CanLoop
    <3>2. Batch \in Nat /\ 1 * Batch = Batch  BY BatchAssumption
    <3>. QED  BY <2>1, <3>1, <3>2, TurnKeeps
  <2>4. CASE Trailing  BY <2>1, <2>4, TrailingKeeps
  <2>5. CASE EndOfText  BY <2>1, <2>5, EndKeeps
  <2>6. CASE Done
    <3>1. UNCHANGED vars  BY <2>6 DEF Done
    <3>. QED  BY <3>1, StutterKeeps
  <2>7. CASE UNCHANGED vars  BY <2>7, StutterKeeps
  <2>. QED  BY <2>2, <2>3, <2>4, <2>5, <2>6, <2>7 DEF Next
<1>. QED  BY <1>1, <1>2, PTL DEF Spec

\* decode_str, with every instruction set, every width of a vector and every
\* document: the str holds what the text up to the first bare quote spells,
\* the cursor is left behind that quote, and only what is no string fails.
THEOREM StringIsRead == Spec => []ReadsString
<1>1. IInv => ReadsString  BY DEF IInv
<1>. QED  BY <1>1, Invariant, PTL

\* maxvec is the largest of the characters that stand for themselves.
THEOREM MaxIsRight == Spec => []MaxIsOfRaw
<1>1. IInv => MaxIsOfRaw  BY DEF IInv
<1>. QED  BY <1>1, Invariant, PTL

\* No vector is stored farther than one vector past the units for the document.
THEOREM StoresAreInReserve == Spec => []StoresInReserve
<1>1. IInv => StoresInReserve  BY DEF IInv
<1>. QED  BY <1>1, Invariant, PTL
=============================================================================
