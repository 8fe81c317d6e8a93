-------------------------- MODULE Utf8ReaderProofs --------------------------
(***************************************************************************)
(* Why the UTF-8 reader reads what the input spells.                       *)
(*                                                                         *)
(* What the input spells is a recursive function of the place in it; From  *)
(* names that function and Rest its equation, which FromIs shows to have a *)
(* solution by induction on the bytes that are left.  IInv says that the   *)
(* whole spells what the rest spells behind the characters that the buffer *)
(* holds.  At each place one character can begin at most (IsChar), and the *)
(* masks find it: SequenceIs for UTF-8, EscapeIs for escapes.  A character *)
(* is stored without touching those in front of it, though these may be    *)
(* narrower (PutKeeps, TextAppend), and widening the parts from the back   *)
(* never stores over a unit that is still to be read (TextWidened).        *)
(***************************************************************************)
EXTENDS Utf8Reader, SequenceTheorems, WellFoundedInduction, TLAPS

\* A set of numbers has a least one.
LEMMA Least == ASSUME NEW S \in SUBSET Nat, S # {} PROVE \E n \in S : \A m \in S : n <= m
<1>1. IsWellFoundedOn(OpToRel(<, Nat), Nat)  BY NatLessThanWellFounded
<1>2. PICK x \in S : \A y \in S : ~ (<<y, x>> \in OpToRel(<, Nat))  BY <1>1, WFMin
<1>3. \A y \in S : ~ (y < x)  BY <1>2 DEF OpToRel
<1> QED BY <1>3

-----------------------------------------------------------------------------
(* The document.                                                           *)

InputOK == input \in Inputs /\ junk \in Junk

LEMMA InputType ==
  ASSUME InputOK
  PROVE  /\ input \in Seq(Nat) /\ Len(input) \in Nat
         /\ \A i \in 1 .. Len(input) : input[i] \in Octets /\ input[i] \in Nat
         /\ \A i \in Nat : i >= 1 => Byte(i) \in Octets /\ Byte(i) \in Nat
         /\ \A i \in 1 .. Len(input) : Byte(i) = input[i]
         /\ Byte(Len(input) + 1) = 0
<1>1. input \in Seq(Octets) /\ junk \in Octets  BY InputsAssumption, JunkAssumption DEF InputOK
<1>2. Len(input) \in Nat /\ \A i \in 1 .. Len(input) : input[i] \in Octets  BY <1>1
<1>3. Octets \subseteq Nat  BY DEF Octets
<1>4. input \in Seq(Nat)  BY <1>1, <1>3, SeqMonotonic
<1>5. \A i \in Nat : i >= 1 => Byte(i) \in Octets  BY <1>1, <1>2 DEF Byte, Octets
<1>6. \A i \in 1 .. Len(input) : Byte(i) = input[i]  BY <1>2 DEF Byte
<1>7. Byte(Len(input) + 1) = 0  BY <1>2 DEF Byte
<1>. QED  BY <1>2, <1>3, <1>4, <1>5, <1>6, <1>7

\* A part of the document is known by its bytes.
LEMMA PartIs ==
  ASSUME InputOK, NEW p \in 1 .. Len(input), NEW q \in p .. Len(input), NEW t \in Seq(Nat)
  PROVE  t = SubSeq(input, p, q) <=> Len(t) = q - p + 1 /\ \A i \in 1 .. q - p + 1 : t[i] = input[p + i - 1]
<1>1. \A i \in p .. q : input[i] \in Nat  BY InputType
<1>2. PICK s \in Seq(Nat) :
        /\ s = SubSeq(input, p, q) /\ Len(s) = q - p + 1
        /\ \A i \in 1 .. q - p + 1 : s[i] = input[p + i - 1]
  <2>1. /\ SubSeq(input, p, q) \in Seq(Nat)
        /\ Len(SubSeq(input, p, q)) = IF p <= q THEN q - p + 1 ELSE 0
        /\ \A i \in 1 .. q - p + 1 : SubSeq(input, p, q)[i] = input[p + i - 1]
    BY <1>1, InputType, SubSeqProperties
  <2>2. p <= q  BY InputType
  <2>. QED  BY <2>1, <2>2
<1>3. Len(t) = Len(s) /\ (\A i \in 1 .. Len(t) : t[i] = s[i]) => t = s  BY SeqEqual
<1>. QED  BY <1>2, <1>3

-----------------------------------------------------------------------------
(* UTF-8, from the masks and from the encoding.                            *)

LEMMA EncodeIs ==
  ASSUME NEW c \in Nat
  PROVE  /\ Encode(c) \in Seq(Nat)
         /\ c < 128 => Len(Encode(c)) = 1 /\ Encode(c)[1] = c
         /\ c >= 128 /\ c < 2048 =>
              Len(Encode(c)) = 2 /\ Encode(c)[1] = 192 + (c \div 64) /\ Encode(c)[2] = 128 + (c % 64)
         /\ c >= 2048 /\ c < 65536 =>
              /\ Len(Encode(c)) = 3
              /\ Encode(c)[1] = 224 + (c \div 4096) /\ Encode(c)[2] = 128 + ((c \div 64) % 64)
              /\ Encode(c)[3] = 128 + (c % 64)
         /\ c >= 65536 =>
              /\ Len(Encode(c)) = 4
              /\ Encode(c)[1] = 240 + (c \div 262144) /\ Encode(c)[2] = 128 + ((c \div 4096) % 64)
              /\ Encode(c)[3] = 128 + ((c \div 64) % 64) /\ Encode(c)[4] = 128 + (c % 64)
<1>1. /\ c \div 64 \in Nat /\ c \div 4096 \in Nat /\ c \div 262144 \in Nat
      /\ c % 64 \in Nat /\ (c \div 64) % 64 \in Nat /\ (c \div 4096) % 64 \in Nat
  BY SMT
<1>2. CASE c < 128
  <2>1. Encode(c) = <<c>>  BY <1>2 DEF Encode
  <2>. QED  BY <1>2, <2>1
<1>3. CASE c >= 128 /\ c < 2048
  <2>1. Encode(c) = <<192 + (c \div 64), 128 + (c % 64)>>  BY <1>3 DEF Encode
  <2>. QED  BY <1>1, <1>3, <2>1
<1>4. CASE c >= 2048 /\ c < 65536
  <2>1. Encode(c) = <<224 + (c \div 4096), 128 + ((c \div 64) % 64), 128 + (c % 64)>>  BY <1>4 DEF Encode
  <2>. QED  BY <1>1, <1>4, <2>1
<1>5. CASE c >= 65536
  <2>1. Encode(c) = <<240 + (c \div 262144), 128 + ((c \div 4096) % 64), 128 + ((c \div 64) % 64), 128 + (c % 64)>>
    BY <1>5 DEF Encode
  <2>. QED  BY <1>1, <1>5, <2>1
<1>. QED  BY <1>2, <1>3, <1>4, <1>5

\* A byte of a sequence is its mark and its low bits.
LEMMA ByteParts ==
  ASSUME NEW b \in Octets
  PROVE  /\ b % 64 \in 0 .. 63 /\ (b \div 64 = 2 <=> 128 + (b % 64) = b)
         /\ b % 32 \in 0 .. 31 /\ (b \div 32 = 6 <=> 192 + (b % 32) = b)
         /\ b % 16 \in 0 .. 15 /\ (b \div 16 = 14 <=> 224 + (b % 16) = b)
         /\ b % 8 \in 0 .. 7 /\ (b \div 8 = 30 <=> 240 + (b % 8) = b)
         /\ b % 4 = (b % 8) % 4
<1>1. b % 64 \in 0 .. 63 /\ (b \div 64 = 2 <=> 128 + (b % 64) = b)  BY SMT DEF Octets
<1>2. b % 32 \in 0 .. 31 /\ (b \div 32 = 6 <=> 192 + (b % 32) = b)  BY SMT DEF Octets
<1>3. b % 16 \in 0 .. 15 /\ (b \div 16 = 14 <=> 224 + (b % 16) = b)  BY SMT DEF Octets
<1>4. b % 8 \in 0 .. 7 /\ (b \div 8 = 30 <=> 240 + (b % 8) = b)  BY SMT DEF Octets
<1>5. b % 4 = (b % 8) % 4  BY SMT DEF Octets
<1>. QED  BY <1>1, <1>2, <1>3, <1>4, <1>5

\* The number that the low bits make up, and what the encoding makes of it.
Two(r1, r2) == 64 * r1 + r2
Three(r1, r2, r3) == 4096 * r1 + 64 * r2 + r3
Four(r1, r2, r3, r4) == 262144 * r1 + 4096 * r2 + 64 * r3 + r4

IsTwo(c, r1, r2) ==
  /\ c \in Nat /\ c < 2048
  /\ c \div 64 = r1 /\ c % 64 = r2
  /\ c >= 128 <=> r1 \div 2 # 0
IsThree(c, r1, r2, r3) ==
  /\ c \in Nat /\ c < 65536
  /\ c \div 4096 = r1 /\ (c \div 64) % 64 = r2 /\ c % 64 = r3
  /\ c >= 2048 <=> ~ (r1 = 0 /\ r2 \div 32 = 0)
  /\ c >= 55296 /\ c <= 57343 <=> r1 = 13 /\ r2 \div 32 = 1
IsFour(c, r1, r2, r3, r4) ==
  /\ c \in Nat
  /\ c \div 262144 = r1 /\ (c \div 4096) % 64 = r2 /\ (c \div 64) % 64 = r3 /\ c % 64 = r4
  /\ c >= 65536 <=> ~ (r1 = 0 /\ r2 \div 16 = 0)
  /\ c < 1114112 <=> r1 \div 4 = 0 \/ (r1 % 4 = 0 /\ r2 \div 16 = 0)

LEMMA TwoParts ==
  ASSUME NEW r1 \in 0 .. 31, NEW r2 \in 0 .. 63, NEW c, c = Two(r1, r2)
  PROVE  IsTwo(c, r1, r2)
<1>1. c \in Nat /\ c < 2048 /\ c \div 64 = r1 /\ c % 64 = r2  BY SMT DEF Two
<1>2. c >= 128 <=> r1 \div 2 # 0  BY SMT DEF Two
<1>. QED  BY <1>1, <1>2, Zenon DEF IsTwo

LEMMA ThreeParts ==
  ASSUME NEW r1 \in 0 .. 15, NEW r2 \in 0 .. 63, NEW r3 \in 0 .. 63, NEW c, c = Three(r1, r2, r3)
  PROVE  IsThree(c, r1, r2, r3)
<1>1. c \in Nat /\ c < 65536  BY SMT DEF Three
<1>2. c \div 4096 = r1 /\ c % 64 = r3  BY SMT DEF Three
<1>3. (c \div 64) % 64 = r2
  <2>1. c \div 64 = 64 * r1 + r2  BY SMT DEF Three
  <2>2. (64 * r1 + r2) % 64 = r2  BY SMT
  <2>. QED  BY <2>1, <2>2, SMT
<1>4. c >= 2048 <=> ~ (r1 = 0 /\ r2 \div 32 = 0)  BY SMT DEF Three
<1>5. c >= 55296 /\ c <= 57343 <=> r1 = 13 /\ r2 \div 32 = 1  BY SMT DEF Three
<1>. QED  BY <1>1, <1>2, <1>3, <1>4, <1>5, SMT DEF IsThree

LEMMA FourParts ==
  ASSUME NEW r1 \in 0 .. 7, NEW r2 \in 0 .. 63, NEW r3 \in 0 .. 63, NEW r4 \in 0 .. 63,
         NEW c, c = Four(r1, r2, r3, r4)
  PROVE  IsFour(c, r1, r2, r3, r4)
<1>1. c \in Nat  BY SMT DEF Four
<1>2. c \div 262144 = r1 /\ c % 64 = r4  BY SMT DEF Four
<1>3. (c \div 4096) % 64 = r2
  <2>1. c \div 4096 = 64 * r1 + r2  BY SMT DEF Four
  <2>2. (64 * r1 + r2) % 64 = r2  BY SMT
  <2>. QED  BY <2>1, <2>2, SMT
<1>4. (c \div 64) % 64 = r3
  <2>1. c \div 64 = 4096 * r1 + 64 * r2 + r3  BY SMT DEF Four
  <2>2. (4096 * r1 + 64 * r2 + r3) % 64 = r3  BY SMT
  <2>. QED  BY <2>1, <2>2, SMT
<1>5. c >= 65536 <=> ~ (r1 = 0 /\ r2 \div 16 = 0)  BY SMT DEF Four
<1>6. c < 1114112 <=> r1 \div 4 = 0 \/ (r1 % 4 = 0 /\ r2 \div 16 = 0)  BY SMT DEF Four
<1>. QED  BY <1>1, <1>2, <1>3, <1>4, <1>5, <1>6, SMT DEF IsFour

LEMMA SurrogateIs == \A u \in Nat : u \in Surrogates <=> u >= 55296 /\ u <= 57343
<1>1. \A u \in Surrogates : u >= 55296 /\ u <= 57343  BY SMT DEF Surrogates
<1>2. \A u \in Nat : u >= 55296 /\ u <= 57343 => u \in Surrogates  BY SMT DEF Surrogates
<1>. QED  BY <1>1, <1>2

IsCode(c) == c >= 32 /\ c \notin {34, 92} \cup Surrogates /\ c < 1114112

LEMMA CodeIs ==
  ASSUME NEW c \in Nat
  PROVE  IsCode(c) <=> c >= 32 /\ c # 34 /\ c # 92 /\ ~ (c >= 55296 /\ c <= 57343) /\ c < 1114112
  BY SurrogateIs, SMT DEF IsCode

Plain(p, n) ==
  /\ p + n - 1 <= Len(input)
  /\ IsCode(Payload(p, n))
  /\ Encode(Payload(p, n)) = SubSeq(input, p, p + n - 1)

PlainChar(p, n) == [code |-> Payload(p, n), size |-> n]

LEMMA PlainSet ==
  ASSUME NEW p
  PROVE  \A x : x \in PlainAt(p) <=> \E n \in 1 .. 4 : Plain(p, n) /\ x = PlainChar(p, n)
<1>1. ASSUME NEW x, x \in PlainAt(p) PROVE \E n \in 1 .. 4 : Plain(p, n) /\ x = PlainChar(p, n)
  <2>1. /\ x \in {[code |-> Payload(p, n), size |-> n] : n \in {k \in 1 .. 4 : p + k - 1 <= Len(input)}}
        /\ IsCode(x.code)
        /\ Encode(x.code) = SubSeq(input, p, p + x.size - 1)
    BY <1>1, SMT DEF PlainAt, IsCode
  <2>2. PICK n \in 1 .. 4 : p + n - 1 <= Len(input) /\ x = [code |-> Payload(p, n), size |-> n]
    BY <2>1, SMT
  <2>3. x.code = Payload(p, n) /\ x.size = n  BY <2>2
  <2>. QED  BY <2>1, <2>2, <2>3 DEF Plain, PlainChar
<1>2. ASSUME NEW n \in 1 .. 4, Plain(p, n) PROVE PlainChar(p, n) \in PlainAt(p)
  <2>1. p + n - 1 <= Len(input) /\ IsCode(Payload(p, n)) /\ Encode(Payload(p, n)) = SubSeq(input, p, p + n - 1)
    BY <1>2 DEF Plain
  <2>2. PlainChar(p, n) = [code |-> Payload(p, n), size |-> n]  BY DEF PlainChar
  <2>3. PlainChar(p, n).code = Payload(p, n) /\ PlainChar(p, n).size = n  BY DEF PlainChar
  <2>4. PICK x : x = PlainChar(p, n)  OBVIOUS
  <2>5. x \in {[code |-> Payload(p, m), size |-> m] : m \in {k \in 1 .. 4 : p + k - 1 <= Len(input)}}
    BY <2>1, <2>2, <2>4, SMT
  <2>6. IsCode(x.code) /\ Encode(x.code) = SubSeq(input, p, p + x.size - 1)  BY <2>1, <2>3, <2>4
  <2>7. x \in PlainAt(p)  BY <2>5, <2>6, SMT DEF PlainAt, IsCode
  <2>. QED  BY <2>4, <2>7
<1>. QED  BY <1>1, <1>2

\* The bytes of a sequence are in the document: the terminator ends it.
LEMMA Continues ==
  ASSUME InputOK, NEW p \in Nat, p >= 1, p <= Len(input) + 1, Byte(p) \div 64 = 2
  PROVE  p <= Len(input)
<1>1. Byte(p) # 0  BY SMT
<1>. QED  BY <1>1, InputType

LEMMA Seq2Is ==
  ASSUME InputOK, NEW p \in 1 .. Len(input)
  PROVE  /\ ReadB2(p) = Two(Byte(p) % 32, Byte(p + 1) % 64)
         /\ IsValidSeq2(p) <=>
              /\ p + 1 <= Len(input)
              /\ Byte(p) \div 32 = 6 /\ Byte(p + 1) \div 64 = 2 /\ (Byte(p) % 32) \div 2 # 0
<1>1. p + 1 - 1 = p /\ p + 2 - 1 = p + 1 /\ Len(input) \in Nat  BY InputType
<1>2. ReadB2(p) = Two(Byte(p) % 32, Byte(p + 1) % 64)  BY <1>1, SMT DEF ReadB2, Low, Two
<1>3. IsValidSeq2(p) <=> Byte(p) \div 32 = 6 /\ Byte(p + 1) \div 64 = 2 /\ (Byte(p) % 32) \div 2 # 0
  BY <1>1, SMT DEF IsValidSeq2, IsContinuation, Above, Low
<1>4. Byte(p + 1) \div 64 = 2 => p + 1 <= Len(input)  BY <1>1, Continues
<1>. QED  BY <1>2, <1>3, <1>4

LEMMA Seq3Is ==
  ASSUME InputOK, NEW p \in 1 .. Len(input)
  PROVE  /\ ReadB3(p) = Three(Byte(p) % 16, Byte(p + 1) % 64, Byte(p + 2) % 64)
         /\ IsValidSeq3(p) <=>
              /\ p + 2 <= Len(input)
              /\ Byte(p) \div 16 = 14 /\ Byte(p + 1) \div 64 = 2 /\ Byte(p + 2) \div 64 = 2
              /\ ~ (Byte(p) % 16 = 0 /\ (Byte(p + 1) % 64) \div 32 = 0)
              /\ ~ (Byte(p) % 16 = 13 /\ (Byte(p + 1) % 64) \div 32 = 1)
<1>1. p + 1 - 1 = p /\ p + 2 - 1 = p + 1 /\ p + 3 - 1 = p + 2 /\ Len(input) \in Nat  BY InputType
<1>2. ReadB3(p) = Three(Byte(p) % 16, Byte(p + 1) % 64, Byte(p + 2) % 64)
  BY <1>1, SMT DEF ReadB3, Low, Three
<1>3. IsValidSeq3(p) <=>
         /\ Byte(p) \div 16 = 14 /\ Byte(p + 1) \div 64 = 2 /\ Byte(p + 2) \div 64 = 2
         /\ ~ (Byte(p) % 16 = 0 /\ (Byte(p + 1) % 64) \div 32 = 0)
         /\ ~ (Byte(p) % 16 = 13 /\ (Byte(p + 1) % 64) \div 32 = 1)
  BY <1>1, SMT DEF IsValidSeq3, IsContinuation, Above, Low
<1>4. Byte(p + 1) \div 64 = 2 => p + 1 <= Len(input)  BY <1>1, Continues
<1>5. p + 1 <= Len(input) /\ Byte(p + 2) \div 64 = 2 => p + 2 <= Len(input)  BY <1>1, Continues
<1>. QED  BY <1>2, <1>3, <1>4, <1>5

LEMMA Seq4Is ==
  ASSUME InputOK, NEW p \in 1 .. Len(input)
  PROVE  /\ ReadB4(p) = Four(Byte(p) % 8, Byte(p + 1) % 64, Byte(p + 2) % 64, Byte(p + 3) % 64)
         /\ IsValidSeq4(p) <=>
              /\ p + 3 <= Len(input)
              /\ Byte(p) \div 8 = 30
              /\ Byte(p + 1) \div 64 = 2 /\ Byte(p + 2) \div 64 = 2 /\ Byte(p + 3) \div 64 = 2
              /\ ~ (Byte(p) % 8 = 0 /\ (Byte(p + 1) % 64) \div 16 = 0)
              /\ (Byte(p) % 8) \div 4 = 0 \/ (Byte(p) % 4 = 0 /\ (Byte(p + 1) % 64) \div 16 = 0)
<1>1. /\ p + 1 - 1 = p /\ p + 2 - 1 = p + 1 /\ p + 3 - 1 = p + 2 /\ p + 4 - 1 = p + 3
      /\ Len(input) \in Nat
  BY InputType
<1>2. ReadB4(p) = Four(Byte(p) % 8, Byte(p + 1) % 64, Byte(p + 2) % 64, Byte(p + 3) % 64)
  BY <1>1, SMT DEF ReadB4, Low, Four
<1>3. IsValidSeq4(p) <=>
         /\ Byte(p) \div 8 = 30
         /\ Byte(p + 1) \div 64 = 2 /\ Byte(p + 2) \div 64 = 2 /\ Byte(p + 3) \div 64 = 2
         /\ ~ (Byte(p) % 8 = 0 /\ (Byte(p + 1) % 64) \div 16 = 0)
         /\ (Byte(p) % 8) \div 4 = 0 \/ (Byte(p) % 4 = 0 /\ (Byte(p + 1) % 64) \div 16 = 0)
  BY <1>1, SMT DEF IsValidSeq4, IsContinuation, Above, Low
<1>4. Byte(p + 1) \div 64 = 2 => p + 1 <= Len(input)  BY <1>1, Continues
<1>5. p + 1 <= Len(input) /\ Byte(p + 2) \div 64 = 2 => p + 2 <= Len(input)  BY <1>1, Continues
<1>6. p + 2 <= Len(input) /\ Byte(p + 3) \div 64 = 2 => p + 3 <= Len(input)  BY <1>1, Continues
<1>. QED  BY <1>2, <1>3, <1>4, <1>5, <1>6

\* The bytes of a sequence of n are a part of the document.
LEMMA Parts ==
  ASSUME InputOK, NEW p \in 1 .. Len(input)
  PROVE  /\ SubSeq(input, p, p) = <<Byte(p)>>
         /\ p + 1 <= Len(input) => SubSeq(input, p, p + 1) = <<Byte(p), Byte(p + 1)>>
         /\ p + 2 <= Len(input) => SubSeq(input, p, p + 2) = <<Byte(p), Byte(p + 1), Byte(p + 2)>>
         /\ p + 3 <= Len(input) =>
              SubSeq(input, p, p + 3) = <<Byte(p), Byte(p + 1), Byte(p + 2), Byte(p + 3)>>
<1>1. Len(input) \in Nat  BY InputType
<1>2. PICK x \in Nat, y \in Nat, z \in Nat, v \in Nat :
         x = Byte(p) /\ y = Byte(p + 1) /\ z = Byte(p + 2) /\ v = Byte(p + 3)
  <2>1. \A k \in 0 .. 3 : p + k \in Nat /\ p + k >= 1  OBVIOUS
  <2>2. p + 0 = p /\ 0 \in 0 .. 3 /\ 1 \in 0 .. 3 /\ 2 \in 0 .. 3 /\ 3 \in 0 .. 3  OBVIOUS
  <2>3. \A k \in 0 .. 3 : Byte(p + k) \in Nat  BY <2>1, InputType
  <2>4. Byte(p) \in Nat /\ Byte(p + 1) \in Nat /\ Byte(p + 2) \in Nat /\ Byte(p + 3) \in Nat
    BY <2>2, <2>3
  <2>. QED  BY <2>4
<1>3. /\ x = input[p]
      /\ p + 1 <= Len(input) => y = input[p + 1]
      /\ p + 2 <= Len(input) => z = input[p + 2]
      /\ p + 3 <= Len(input) => v = input[p + 3]
  <2>1. \A k \in 1 .. Len(input) : Byte(k) = input[k]  BY InputType
  <2>2. /\ p + 1 <= Len(input) => p + 1 \in 1 .. Len(input)
        /\ p + 2 <= Len(input) => p + 2 \in 1 .. Len(input)
        /\ p + 3 <= Len(input) => p + 3 \in 1 .. Len(input)
    BY <1>1
  <2>. QED  BY <1>2, <2>1, <2>2, Zenon
<1>4. ASSUME NEW q \in p .. Len(input), NEW t \in Seq(Nat), Len(t) = q - p + 1,
             \A i \in 1 .. q - p + 1 : t[i] = input[p + i - 1]
      PROVE  SubSeq(input, p, q) = t
  BY <1>4, PartIs
<1>5. SubSeq(input, p, p) = <<x>>
  <2>. DEFINE t == <<x>>
  <2>1. t \in Seq(Nat) /\ Len(t) = 1 /\ t[1] = x  OBVIOUS
  <2>. HIDE DEF t
  <2>2. p \in p .. Len(input) /\ p - p + 1 = 1 /\ p + 1 - 1 = p  BY <1>1
  <2>3. \A i \in 1 .. p - p + 1 : t[i] = input[p + i - 1]  BY <1>3, <2>1, <2>2
  <2>4. SubSeq(input, p, p) = t  BY <1>4, <2>1, <2>2, <2>3
  <2>. QED  BY <2>4 DEF t
<1>6. ASSUME p + 1 <= Len(input) PROVE SubSeq(input, p, p + 1) = <<x, y>>
  <2>. DEFINE t == <<x, y>>
  <2>1. t \in Seq(Nat) /\ Len(t) = 2 /\ t[1] = x /\ t[2] = y  OBVIOUS
  <2>. HIDE DEF t
  <2>2. PICK q \in p .. Len(input) : q = p + 1 /\ q - p + 1 = 2  BY <1>1, <1>6
  <2>3. ASSUME NEW i \in 1 .. q - p + 1 PROVE t[i] = input[p + i - 1]
    <3>1. i \in {1, 2}  BY <2>2
    <3>2. p + 1 - 1 = p /\ p + 2 - 1 = p + 1  OBVIOUS
    <3>. QED  BY <1>3, <1>6, <2>1, <3>1, <3>2
  <2>4. SubSeq(input, p, q) = t  BY <1>4, <2>1, <2>2, <2>3
  <2>. QED  BY <2>2, <2>4 DEF t
<1>7. ASSUME p + 2 <= Len(input) PROVE SubSeq(input, p, p + 2) = <<x, y, z>>
  <2>. DEFINE t == <<x, y, z>>
  <2>1. t \in Seq(Nat) /\ Len(t) = 3 /\ t[1] = x /\ t[2] = y /\ t[3] = z  OBVIOUS
  <2>. HIDE DEF t
  <2>2. PICK q \in p .. Len(input) : q = p + 2 /\ q - p + 1 = 3  BY <1>1, <1>7
  <2>3. ASSUME NEW i \in 1 .. q - p + 1 PROVE t[i] = input[p + i - 1]
    <3>1. i \in {1, 2, 3}  BY <2>2
    <3>2. p + 1 - 1 = p /\ p + 2 - 1 = p + 1 /\ p + 3 - 1 = p + 2  OBVIOUS
    <3>3. p + 1 <= Len(input)  BY <1>1, <1>7
    <3>. QED  BY <1>3, <1>7, <2>1, <3>1, <3>2, <3>3
  <2>4. SubSeq(input, p, q) = t  BY <1>4, <2>1, <2>2, <2>3
  <2>. QED  BY <2>2, <2>4 DEF t
<1>8. ASSUME p + 3 <= Len(input) PROVE SubSeq(input, p, p + 3) = <<x, y, z, v>>
  <2>. DEFINE t == <<x, y, z, v>>
  <2>1. t \in Seq(Nat) /\ Len(t) = 4 /\ t[1] = x /\ t[2] = y /\ t[3] = z /\ t[4] = v  OBVIOUS
  <2>. HIDE DEF t
  <2>2. PICK q \in p .. Len(input) : q = p + 3 /\ q - p + 1 = 4  BY <1>1, <1>8
  <2>3. ASSUME NEW i \in 1 .. q - p + 1 PROVE t[i] = input[p + i - 1]
    <3>1. i \in {1, 2, 3, 4}  BY <2>2
    <3>2. p + 1 - 1 = p /\ p + 2 - 1 = p + 1 /\ p + 3 - 1 = p + 2 /\ p + 4 - 1 = p + 3  OBVIOUS
    <3>3. p + 1 <= Len(input) /\ p + 2 <= Len(input)  BY <1>1, <1>8
    <3>. QED  BY <1>3, <1>8, <2>1, <3>1, <3>2, <3>3
  <2>4. SubSeq(input, p, q) = t  BY <1>4, <2>1, <2>2, <2>3
  <2>. QED  BY <2>2, <2>4 DEF t
<1>. QED  BY <1>2, <1>5, <1>6, <1>7, <1>8, Zenon

\* Which bytes are the UTF-8 of what.
Lead2(b1, b2) == b1 \div 32 = 6 /\ b2 \div 64 = 2 /\ (b1 % 32) \div 2 # 0
Lead3(b1, b2, b3) ==
  /\ b1 \div 16 = 14 /\ b2 \div 64 = 2 /\ b3 \div 64 = 2
  /\ ~ (b1 % 16 = 0 /\ (b2 % 64) \div 32 = 0)
  /\ ~ (b1 % 16 = 13 /\ (b2 % 64) \div 32 = 1)
Lead4(b1, b2, b3, b4) ==
  /\ b1 \div 8 = 30 /\ b2 \div 64 = 2 /\ b3 \div 64 = 2 /\ b4 \div 64 = 2
  /\ ~ (b1 % 8 = 0 /\ (b2 % 64) \div 16 = 0)
  /\ (b1 % 8) \div 4 = 0 \/ (b1 % 4 = 0 /\ (b2 % 64) \div 16 = 0)

IsUtf8(c, bytes) == IsCode(c) /\ Encode(c) = bytes

LEMMA OneIs == ASSUME NEW b \in Octets PROVE IsUtf8(b, <<b>>) <=> ~ IsStop(b)
<1>1. b \in Nat /\ b < 256  BY SMT DEF Octets
<1>2. Encode(b) = <<b>> <=> b < 128
  <2>1. CASE b < 128
    <3>1. Encode(b) = <<b>>  BY <2>1, SMT DEF Encode
    <3>. QED  BY <2>1, <3>1
  <2>2. CASE ~ (b < 128)
    <3>1. b >= 128 /\ b < 2048  BY <1>1, <2>2, SMT
    <3>2. Len(Encode(b)) = 2 /\ Len(<<b>>) = 1  BY <1>1, <3>1, EncodeIs, SMT
    <3>. QED  BY <2>2, <3>2, SMT
  <2>. QED  BY <2>1, <2>2
<1>3. b < 128 => (IsCode(b) <=> b >= 32 /\ b # 34 /\ b # 92)  BY <1>1, CodeIs, SMT
<1>4. ~ IsStop(b) <=> b < 128 /\ b >= 32 /\ b # 34 /\ b # 92  BY <1>1, SMT DEF IsStop
<1>. QED  BY <1>2, <1>3, <1>4 DEF IsUtf8

LEMMA TwoIs ==
  ASSUME NEW b1 \in Octets, NEW b2 \in Octets, NEW c, c = Two(b1 % 32, b2 % 64)
  PROVE  /\ IsUtf8(c, <<b1, b2>>) <=> Lead2(b1, b2)
         /\ Lead2(b1, b2) => c >= 128
         /\ c \in Nat /\ c < 2048
<1>1. PICK r1 \in 0 .. 31, r2 \in 0 .. 63 : r1 = b1 % 32 /\ r2 = b2 % 64  BY ByteParts, Zenon
<1>2. c = Two(r1, r2)  BY <1>1, Zenon
<1>0. IsTwo(c, r1, r2)  BY <1>2, TwoParts, Zenon
<1>3. c \in Nat /\ c < 2048 /\ c \div 64 = r1 /\ c % 64 = r2 /\ (c >= 128 <=> r1 \div 2 # 0)
  BY <1>0, SMT DEF IsTwo
<1>4. Encode(c) = <<b1, b2>> <=> c >= 128 /\ 192 + r1 = b1 /\ 128 + r2 = b2
  <2>1. CASE c >= 128
    <3>1. Encode(c) = <<192 + (c \div 64), 128 + (c % 64)>>  BY <1>3, <2>1, SMT DEF Encode
    <3>2. Encode(c) = <<192 + r1, 128 + r2>>  BY <1>3, <3>1, SMT
    <3>. QED  BY <2>1, <3>2, SMT
  <2>2. CASE ~ (c >= 128)
    <3>1. c < 128  BY <1>3, <2>2, SMT
    <3>2. Len(Encode(c)) = 1 /\ Len(<<b1, b2>>) = 2  BY <1>3, <3>1, EncodeIs, SMT
    <3>. QED  BY <2>2, <3>2, SMT
  <2>. QED  BY <2>1, <2>2
<1>5. c >= 128 => IsCode(c)  BY <1>3, CodeIs, SMT
<1>6. b1 \div 32 = 6 /\ b2 \div 64 = 2 <=> 192 + r1 = b1 /\ 128 + r2 = b2
  <2>1. (b1 \div 32 = 6 <=> 192 + (b1 % 32) = b1) /\ (b2 \div 64 = 2 <=> 128 + (b2 % 64) = b2)
    BY ByteParts, Zenon
  <2>. QED  BY <1>1, <2>1, Zenon
<1>7. Lead2(b1, b2) <=> (b1 \div 32 = 6 /\ b2 \div 64 = 2) /\ r1 \div 2 # 0  BY <1>1, Zenon DEF Lead2
<1>. QED  BY <1>3, <1>4, <1>5, <1>6, <1>7, SMT DEF IsUtf8

LEMMA ShortIs ==
  ASSUME NEW c \in Nat
  PROVE  (c < 2048 => Len(Encode(c)) # 3) /\ (c < 65536 => Len(Encode(c)) # 4)
<1>1. /\ c < 128 => Len(Encode(c)) = 1
      /\ c >= 128 /\ c < 2048 => Len(Encode(c)) = 2
      /\ c >= 2048 /\ c < 65536 => Len(Encode(c)) = 3
  BY EncodeIs, SMT
<1>. QED  BY <1>1, SMT

LEMMA ThreeIs ==
  ASSUME NEW b1 \in Octets, NEW b2 \in Octets, NEW b3 \in Octets,
         NEW c, c = Three(b1 % 16, b2 % 64, b3 % 64)
  PROVE  /\ IsUtf8(c, <<b1, b2, b3>>) <=> Lead3(b1, b2, b3)
         /\ Lead3(b1, b2, b3) => c >= 2048
         /\ c \in Nat /\ c < 65536
<1>1. PICK r1 \in 0 .. 15, r2 \in 0 .. 63, r3 \in 0 .. 63 : r1 = b1 % 16 /\ r2 = b2 % 64 /\ r3 = b3 % 64
  BY ByteParts, Zenon
<1>2. c = Three(r1, r2, r3)  BY <1>1, Zenon
<1>0. IsThree(c, r1, r2, r3)  BY <1>2, ThreeParts, Zenon
<1>3. /\ c \in Nat /\ c < 65536 /\ c \div 4096 = r1 /\ (c \div 64) % 64 = r2 /\ c % 64 = r3
      /\ (c >= 2048 <=> ~ (r1 = 0 /\ r2 \div 32 = 0))
      /\ (c >= 55296 /\ c <= 57343 <=> r1 = 13 /\ r2 \div 32 = 1)
  BY <1>0, SMT DEF IsThree
<1>4. Encode(c) = <<b1, b2, b3>> <=> c >= 2048 /\ 224 + r1 = b1 /\ 128 + r2 = b2 /\ 128 + r3 = b3
  <2>1. CASE c >= 2048
    <3>1. Encode(c) = <<224 + (c \div 4096), 128 + ((c \div 64) % 64), 128 + (c % 64)>>
      BY <1>3, <2>1, SMT DEF Encode
    <3>2. Encode(c) = <<224 + r1, 128 + r2, 128 + r3>>  BY <1>3, <3>1, SMT
    <3>. QED  BY <2>1, <3>2, SMT
  <2>2. CASE ~ (c >= 2048)
    <3>1. c \in Nat /\ c < 2048  BY <1>3, <2>2, SMT
    <3>2. Len(Encode(c)) # 3  BY <1>3, <3>1, ShortIs, SMT
    <3>3. Len(<<b1, b2, b3>>) = 3  BY SMT
    <3>. QED  BY <2>2, <3>2, <3>3, SMT
  <2>. QED  BY <2>1, <2>2
<1>5. c >= 2048 => (IsCode(c) <=> ~ (c >= 55296 /\ c <= 57343))  BY <1>3, CodeIs, SMT
<1>6. b1 \div 16 = 14 /\ b2 \div 64 = 2 /\ b3 \div 64 = 2 <=> 224 + r1 = b1 /\ 128 + r2 = b2 /\ 128 + r3 = b3
  <2>1. /\ b1 \div 16 = 14 <=> 224 + (b1 % 16) = b1
        /\ b2 \div 64 = 2 <=> 128 + (b2 % 64) = b2
        /\ b3 \div 64 = 2 <=> 128 + (b3 % 64) = b3
    BY ByteParts, Zenon
  <2>. QED  BY <1>1, <2>1, Zenon
<1>7. Lead3(b1, b2, b3) <=> /\ b1 \div 16 = 14 /\ b2 \div 64 = 2 /\ b3 \div 64 = 2
                            /\ ~ (r1 = 0 /\ r2 \div 32 = 0) /\ ~ (r1 = 13 /\ r2 \div 32 = 1)
  BY <1>1, Zenon DEF Lead3
<1>. QED  BY <1>3, <1>4, <1>5, <1>6, <1>7, SMT DEF IsUtf8

LEMMA FourIs ==
  ASSUME NEW b1 \in Octets, NEW b2 \in Octets, NEW b3 \in Octets, NEW b4 \in Octets,
         NEW c, c = Four(b1 % 8, b2 % 64, b3 % 64, b4 % 64)
  PROVE  /\ IsUtf8(c, <<b1, b2, b3, b4>>) <=> Lead4(b1, b2, b3, b4)
         /\ Lead4(b1, b2, b3, b4) => c >= 65536 /\ c < 1114112
         /\ c \in Nat
<1>1. PICK r1 \in 0 .. 7, r2 \in 0 .. 63, r3 \in 0 .. 63, r4 \in 0 .. 63 :
         r1 = b1 % 8 /\ r2 = b2 % 64 /\ r3 = b3 % 64 /\ r4 = b4 % 64
  BY ByteParts, Zenon
<1>2. c = Four(r1, r2, r3, r4)  BY <1>1, Zenon
<1>0. IsFour(c, r1, r2, r3, r4)  BY <1>2, FourParts, Zenon
<1>3. /\ c \in Nat
      /\ c \div 262144 = r1 /\ (c \div 4096) % 64 = r2 /\ (c \div 64) % 64 = r3 /\ c % 64 = r4
      /\ (c >= 65536 <=> ~ (r1 = 0 /\ r2 \div 16 = 0))
      /\ (c < 1114112 <=> r1 \div 4 = 0 \/ (r1 % 4 = 0 /\ r2 \div 16 = 0))
  BY <1>0, SMT DEF IsFour
<1>4. Encode(c) = <<b1, b2, b3, b4>>
        <=> c >= 65536 /\ 240 + r1 = b1 /\ 128 + r2 = b2 /\ 128 + r3 = b3 /\ 128 + r4 = b4
  <2>1. CASE c >= 65536
    <3>1. Encode(c) = <<240 + (c \div 262144), 128 + ((c \div 4096) % 64), 128 + ((c \div 64) % 64), 128 + (c % 64)>>
      BY <1>3, <2>1, SMT DEF Encode
    <3>2. Encode(c) = <<240 + r1, 128 + r2, 128 + r3, 128 + r4>>  BY <1>3, <3>1, SMT
    <3>. QED  BY <2>1, <3>2, SMT
  <2>2. CASE ~ (c >= 65536)
    <3>1. c \in Nat /\ c < 65536  BY <1>3, <2>2, SMT
    <3>2. Len(Encode(c)) # 4  BY <1>3, <3>1, ShortIs, SMT
    <3>3. Len(<<b1, b2, b3, b4>>) = 4  BY SMT
    <3>. QED  BY <2>2, <3>2, <3>3, SMT
  <2>. QED  BY <2>1, <2>2, SMT
<1>5. c >= 65536 => (IsCode(c) <=> c < 1114112)  BY <1>3, CodeIs, SMT
<1>6. b1 \div 8 = 30 /\ b2 \div 64 = 2 /\ b3 \div 64 = 2 /\ b4 \div 64 = 2
        <=> 240 + r1 = b1 /\ 128 + r2 = b2 /\ 128 + r3 = b3 /\ 128 + r4 = b4
  <2>1. /\ b1 \div 8 = 30 <=> 240 + (b1 % 8) = b1
        /\ b2 \div 64 = 2 <=> 128 + (b2 % 64) = b2
        /\ b3 \div 64 = 2 <=> 128 + (b3 % 64) = b3
        /\ b4 \div 64 = 2 <=> 128 + (b4 % 64) = b4
    BY ByteParts, Zenon
  <2>. QED  BY <1>1, <2>1, Zenon
<1>7. Lead4(b1, b2, b3, b4) <=>
         /\ b1 \div 8 = 30 /\ b2 \div 64 = 2 /\ b3 \div 64 = 2 /\ b4 \div 64 = 2
         /\ ~ (r1 = 0 /\ r2 \div 16 = 0)
         /\ r1 \div 4 = 0 \/ (r1 % 4 = 0 /\ r2 \div 16 = 0)
  <2>1. b1 % 4 = r1 % 4  BY <1>1, ByteParts, Zenon
  <2>. QED  BY <1>1, <2>1, Zenon DEF Lead4
<1>. QED  BY <1>3, <1>4, <1>5, <1>6, <1>7, SMT DEF IsUtf8

\* When the bytes at p are a character of n bytes, for each n, and which.
LEMMA Plain1 ==
  ASSUME InputOK, NEW p \in 1 .. Len(input)
  PROVE  Payload(p, 1) = Byte(p) /\ (Plain(p, 1) <=> ~ IsStop(Byte(p)))
<1>1. PICK b \in Octets : b = Byte(p) /\ b = input[p]  BY InputType
<1>2. Payload(p, 1) = b  BY <1>1, SMT DEF Payload
<1>3. p + 1 - 1 = p /\ p <= Len(input)  BY InputType
<1>4. Plain(p, 1) <=> IsCode(b) /\ Encode(b) = SubSeq(input, p, p)  BY <1>2, <1>3, SMT DEF Plain
<1>5. SubSeq(input, p, p) = <<b>>  BY <1>1, Parts, Zenon
<1>6. IsUtf8(b, <<b>>) <=> ~ IsStop(b)  BY OneIs
<1>. QED  BY <1>1, <1>2, <1>4, <1>5, <1>6, Zenon DEF IsUtf8

LEMMA Plain2 ==
  ASSUME InputOK, NEW p \in 1 .. Len(input)
  PROVE  /\ Plain(p, 2) <=> IsValidSeq2(p)
         /\ IsValidSeq2(p) => /\ Payload(p, 2) = ReadB2(p) /\ p + 1 <= Len(input)
                              /\ ReadB2(p) \in Nat /\ ReadB2(p) >= 128 /\ ReadB2(p) < 2048
<1>1. CASE ~ (p + 1 <= Len(input))
  <2>1. ~ IsValidSeq2(p)  BY <1>1, Seq2Is, Zenon
  <2>2. p + 2 - 1 = p + 1  BY InputType
  <2>3. ~ Plain(p, 2)  BY <1>1, <2>2, SMT DEF Plain
  <2>. QED  BY <2>1, <2>3, Zenon
<1>2. CASE p + 1 <= Len(input)
  <2>1. PICK b1 \in Octets, b2 \in Octets :
          b1 = Byte(p) /\ b2 = Byte(p + 1) /\ b1 = input[p] /\ b2 = input[p + 1]
    BY <1>2, InputType
  <2>2. PICK c : c = Two(b1 % 32, b2 % 64)  OBVIOUS
  <2>3. p + 2 - 1 = p + 1  BY InputType
  <2>4. Payload(p, 2) = c  BY <2>1, <2>2, <2>3, SMT DEF Payload, Two
  <2>5. ReadB2(p) = c  BY <2>1, <2>2, Seq2Is, Zenon
  <2>6. IsValidSeq2(p) <=> Lead2(b1, b2)  BY <1>2, <2>1, Seq2Is, Zenon DEF Lead2
  <2>7. /\ IsUtf8(c, <<b1, b2>>) <=> Lead2(b1, b2)
        /\ Lead2(b1, b2) => c >= 128
        /\ c \in Nat /\ c < 2048
    BY <2>1, <2>2, TwoIs, SMT
  <2>8. SubSeq(input, p, p + 1) = <<b1, b2>>  BY <1>2, <2>1, Parts, Zenon
  <2>10. Plain(p, 2) <=> IsCode(c) /\ Encode(c) = SubSeq(input, p, p + 1)
    BY <1>2, <2>3, <2>4, Zenon DEF Plain
  <2>9. Plain(p, 2) <=> IsUtf8(c, <<b1, b2>>)  BY <2>8, <2>10, Zenon DEF IsUtf8
  <2>. QED  BY <1>2, <2>4, <2>5, <2>6, <2>7, <2>9, SMT
<1>. QED  BY <1>1, <1>2, Zenon

LEMMA Plain3 ==
  ASSUME InputOK, NEW p \in 1 .. Len(input)
  PROVE  /\ Plain(p, 3) <=> IsValidSeq3(p)
         /\ IsValidSeq3(p) => /\ Payload(p, 3) = ReadB3(p) /\ p + 2 <= Len(input)
                              /\ ReadB3(p) \in Nat /\ ReadB3(p) >= 2048 /\ ReadB3(p) < 65536
<1>1. CASE ~ (p + 2 <= Len(input))
  <2>1. ~ IsValidSeq3(p)  BY <1>1, Seq3Is, Zenon
  <2>2. p + 3 - 1 = p + 2  BY InputType
  <2>3. ~ Plain(p, 3)  BY <1>1, <2>2, SMT DEF Plain
  <2>. QED  BY <2>1, <2>3, SMT
<1>2. CASE p + 2 <= Len(input)
  <2>1. PICK b1 \in Octets, b2 \in Octets, b3 \in Octets :
          /\ b1 = Byte(p) /\ b2 = Byte(p + 1) /\ b3 = Byte(p + 2)
          /\ b1 = input[p] /\ b2 = input[p + 1] /\ b3 = input[p + 2]
    BY <1>2, InputType
  <2>2. PICK c : c = Three(b1 % 16, b2 % 64, b3 % 64)  OBVIOUS
  <2>3. p + 2 - 1 = p + 1 /\ p + 3 - 1 = p + 2  BY InputType
  <2>4. Payload(p, 3) = c  BY <2>1, <2>2, <2>3, SMT DEF Payload, Three
  <2>5. ReadB3(p) = c  BY <2>1, <2>2, Seq3Is, Zenon
  <2>6. IsValidSeq3(p) <=> Lead3(b1, b2, b3)  BY <1>2, <2>1, Seq3Is, Zenon DEF Lead3
  <2>7. /\ IsUtf8(c, <<b1, b2, b3>>) <=> Lead3(b1, b2, b3)
        /\ Lead3(b1, b2, b3) => c >= 2048
        /\ c \in Nat /\ c < 65536
    BY <2>1, <2>2, ThreeIs, SMT
  <2>8. SubSeq(input, p, p + 2) = <<b1, b2, b3>>  BY <1>2, <2>1, Parts, Zenon
  <2>10. Plain(p, 3) <=> IsCode(c) /\ Encode(c) = SubSeq(input, p, p + 2)
    BY <1>2, <2>3, <2>4, Zenon DEF Plain
  <2>9. Plain(p, 3) <=> IsUtf8(c, <<b1, b2, b3>>)  BY <2>8, <2>10, Zenon DEF IsUtf8
  <2>. QED  BY <1>2, <2>4, <2>5, <2>6, <2>7, <2>9, SMT
<1>. QED  BY <1>1, <1>2, SMT

LEMMA Plain4 ==
  ASSUME InputOK, NEW p \in 1 .. Len(input)
  PROVE  /\ Plain(p, 4) <=> IsValidSeq4(p)
         /\ IsValidSeq4(p) => /\ Payload(p, 4) = ReadB4(p) /\ p + 3 <= Len(input)
                              /\ ReadB4(p) \in Nat /\ ReadB4(p) >= 65536 /\ ReadB4(p) < 1114112
<1>1. CASE ~ (p + 3 <= Len(input))
  <2>1. ~ IsValidSeq4(p)  BY <1>1, Seq4Is, Zenon
  <2>2. p + 4 - 1 = p + 3  BY InputType
  <2>3. ~ Plain(p, 4)  BY <1>1, <2>2, SMT DEF Plain
  <2>. QED  BY <2>1, <2>3, SMT
<1>2. CASE p + 3 <= Len(input)
  <2>1. PICK b1 \in Octets, b2 \in Octets, b3 \in Octets, b4 \in Octets :
          /\ b1 = Byte(p) /\ b2 = Byte(p + 1) /\ b3 = Byte(p + 2) /\ b4 = Byte(p + 3)
          /\ b1 = input[p] /\ b2 = input[p + 1] /\ b3 = input[p + 2] /\ b4 = input[p + 3]
    BY <1>2, InputType
  <2>2. PICK c : c = Four(b1 % 8, b2 % 64, b3 % 64, b4 % 64)  OBVIOUS
  <2>3. p + 2 - 1 = p + 1 /\ p + 3 - 1 = p + 2 /\ p + 4 - 1 = p + 3  BY InputType
  <2>4. Payload(p, 4) = c  BY <2>1, <2>2, <2>3, SMT DEF Payload, Four
  <2>5. ReadB4(p) = c  BY <2>1, <2>2, Seq4Is, Zenon
  <2>6. IsValidSeq4(p) <=> Lead4(b1, b2, b3, b4)  BY <1>2, <2>1, Seq4Is, Zenon DEF Lead4
  <2>7. /\ IsUtf8(c, <<b1, b2, b3, b4>>) <=> Lead4(b1, b2, b3, b4)
        /\ Lead4(b1, b2, b3, b4) => c >= 65536 /\ c < 1114112
        /\ c \in Nat
    BY <2>1, <2>2, FourIs, SMT
  <2>8. SubSeq(input, p, p + 3) = <<b1, b2, b3, b4>>  BY <1>2, <2>1, Parts, Zenon
  <2>10. Plain(p, 4) <=> IsCode(c) /\ Encode(c) = SubSeq(input, p, p + 3)
    BY <1>2, <2>3, <2>4, Zenon DEF Plain
  <2>9. Plain(p, 4) <=> IsUtf8(c, <<b1, b2, b3, b4>>)  BY <2>8, <2>10, Zenon DEF IsUtf8
  <2>. QED  BY <1>2, <2>4, <2>5, <2>6, <2>7, <2>9, SMT
<1>. QED  BY <1>1, <1>2, SMT

\* No byte begins characters of two lengths.
LEMMA Leads ==
  ASSUME InputOK, NEW p \in 1 .. Len(input)
  PROVE  /\ Byte(p) \in Nat
         /\ ~ IsStop(Byte(p)) => Byte(p) < 128
         /\ IsValidSeq2(p) => Byte(p) >= 192 /\ Byte(p) < 224
         /\ IsValidSeq3(p) => Byte(p) >= 224 /\ Byte(p) < 240
         /\ IsValidSeq4(p) => Byte(p) >= 240
<1>1. PICK b \in Octets : b = Byte(p)  BY InputType
<1>2. b \in Nat /\ (~ IsStop(b) => b < 128)  BY SMT DEF IsStop, Octets
<1>3. /\ b \div 32 = 6 => b >= 192 /\ b < 224
      /\ b \div 16 = 14 => b >= 224 /\ b < 240
      /\ b \div 8 = 30 => b >= 240
  BY SMT DEF Octets
<1>4. /\ IsValidSeq2(p) => b \div 32 = 6
      /\ IsValidSeq3(p) => b \div 16 = 14
      /\ IsValidSeq4(p) => b \div 8 = 30
  BY <1>1, Seq2Is, Seq3Is, Seq4Is, Zenon
<1>. QED  BY <1>1, <1>2, <1>3, <1>4, Zenon

LEMMA OnlyPlain ==
  ASSUME NEW p, NEW n \in 1 .. 4, Plain(p, n), \A k \in 1 .. 4 : k # n => ~ Plain(p, k)
  PROVE  PlainAt(p) = {PlainChar(p, n)}
<1>1. ASSUME NEW x, x \in PlainAt(p) PROVE x = PlainChar(p, n)
  <2>1. PICK k \in 1 .. 4 : Plain(p, k) /\ x = PlainChar(p, k)  BY <1>1, PlainSet, Zenon
  <2>2. k = n  BY <2>1, Zenon
  <2>. QED  BY <2>1, <2>2, Zenon
<1>2. PlainChar(p, n) \in PlainAt(p)  BY PlainSet, Zenon
<1>. QED  BY <1>1, <1>2, Zenon

LEMMA NoPlain ==
  ASSUME NEW p, \A k \in 1 .. 4 : ~ Plain(p, k)
  PROVE  PlainAt(p) = {}
<1>1. ASSUME NEW x, x \in PlainAt(p) PROVE FALSE  BY <1>1, PlainSet, Zenon
<1>. QED  BY <1>1, Zenon

LEMMA PlainBelow ==
  ASSUME InputOK, NEW p \in 1 .. Len(input), Byte(p) < 128
  PROVE  PlainAt(p) = IF IsStop(Byte(p)) THEN {} ELSE {[code |-> Byte(p), size |-> 1]}
<1>1. ~ IsValidSeq2(p) /\ ~ IsValidSeq3(p) /\ ~ IsValidSeq4(p)  BY Leads, SMT
<1>2. ~ Plain(p, 2) /\ ~ Plain(p, 3) /\ ~ Plain(p, 4)  BY <1>1, Plain2, Plain3, Plain4, SMT
<1>3. \A k \in 1 .. 4 : k = 1 \/ k = 2 \/ k = 3 \/ k = 4  OBVIOUS
<1>4. CASE IsStop(Byte(p))
  <2>1. ~ Plain(p, 1)  BY <1>4, Plain1, Zenon
  <2>2. PlainAt(p) = {}  BY <1>2, <1>3, <2>1, NoPlain, Zenon
  <2>. QED  BY <1>4, <2>2, Zenon
<1>5. CASE ~ IsStop(Byte(p))
  <2>1. Plain(p, 1) /\ Payload(p, 1) = Byte(p)  BY <1>5, Plain1, Zenon
  <2>2. 1 \in 1 .. 4 /\ \A k \in 1 .. 4 : k # 1 => ~ Plain(p, k)  BY <1>2, <1>3
  <2>3. PlainAt(p) = {PlainChar(p, 1)}  BY <2>1, <2>2, OnlyPlain, Zenon
  <2>. QED  BY <1>5, <2>1, <2>3, Zenon DEF PlainChar
<1>. QED  BY <1>4, <1>5, Zenon

\* A sequence of n bytes at p that spells c.
Spells(p, n, c) ==
  /\ PlainAt(p) = {[code |-> c, size |-> n]}
  /\ p + n <= Len(input) + 1 /\ c \in Nat

LEMMA Spells2 ==
  ASSUME InputOK, NEW p \in 1 .. Len(input), IsValidSeq2(p)
  PROVE  Spells(p, 2, ReadB2(p)) /\ ReadB2(p) >= 128 /\ ReadB2(p) < 2048
<1>1. IsStop(Byte(p)) /\ ~ IsValidSeq3(p) /\ ~ IsValidSeq4(p)  BY Leads, SMT
<1>2. ~ Plain(p, 1) /\ Plain(p, 2) /\ ~ Plain(p, 3) /\ ~ Plain(p, 4)
  BY <1>1, Plain1, Plain2, Plain3, Plain4, SMT
<1>3. 2 \in 1 .. 4 /\ \A k \in 1 .. 4 : k # 2 => ~ Plain(p, k)  BY <1>2
<1>4. PlainAt(p) = {PlainChar(p, 2)}  BY <1>2, <1>3, OnlyPlain, Zenon
<1>5. /\ Payload(p, 2) = ReadB2(p) /\ p + 1 <= Len(input)
      /\ ReadB2(p) \in Nat /\ ReadB2(p) >= 128 /\ ReadB2(p) < 2048
  BY Plain2, SMT
<1>6. p + 2 <= Len(input) + 1  BY <1>5, InputType
<1>7. PlainAt(p) = {[code |-> ReadB2(p), size |-> 2]}  BY <1>4, <1>5, SMT DEF PlainChar
<1>. QED  BY <1>5, <1>6, <1>7, SMT DEF Spells

LEMMA Spells3 ==
  ASSUME InputOK, NEW p \in 1 .. Len(input), IsValidSeq3(p)
  PROVE  Spells(p, 3, ReadB3(p)) /\ ReadB3(p) >= 2048 /\ ReadB3(p) < 65536
<1>1. IsStop(Byte(p)) /\ ~ IsValidSeq2(p) /\ ~ IsValidSeq4(p)  BY Leads, SMT
<1>2. ~ Plain(p, 1) /\ ~ Plain(p, 2) /\ Plain(p, 3) /\ ~ Plain(p, 4)
  BY <1>1, Plain1, Plain2, Plain3, Plain4, SMT
<1>3. 3 \in 1 .. 4 /\ \A k \in 1 .. 4 : k # 3 => ~ Plain(p, k)  BY <1>2
<1>4. PlainAt(p) = {PlainChar(p, 3)}  BY <1>2, <1>3, OnlyPlain, Zenon
<1>5. /\ Payload(p, 3) = ReadB3(p) /\ p + 2 <= Len(input)
      /\ ReadB3(p) \in Nat /\ ReadB3(p) >= 2048 /\ ReadB3(p) < 65536
  BY Plain3, SMT
<1>6. p + 3 <= Len(input) + 1  BY <1>5, InputType, SMT
<1>7. PlainAt(p) = {[code |-> ReadB3(p), size |-> 3]}  BY <1>4, <1>5, SMT DEF PlainChar
<1>. QED  BY <1>5, <1>6, <1>7, SMT DEF Spells

LEMMA Spells4 ==
  ASSUME InputOK, NEW p \in 1 .. Len(input), IsValidSeq4(p)
  PROVE  Spells(p, 4, ReadB4(p)) /\ ReadB4(p) >= 65536 /\ ReadB4(p) < 1114112
<1>1. IsStop(Byte(p)) /\ ~ IsValidSeq2(p) /\ ~ IsValidSeq3(p)  BY Leads, SMT
<1>2. ~ Plain(p, 1) /\ ~ Plain(p, 2) /\ ~ Plain(p, 3) /\ Plain(p, 4)
  BY <1>1, Plain1, Plain2, Plain3, Plain4, SMT
<1>3. 4 \in 1 .. 4 /\ \A k \in 1 .. 4 : k # 4 => ~ Plain(p, k)  BY <1>2
<1>4. PlainAt(p) = {PlainChar(p, 4)}  BY <1>2, <1>3, OnlyPlain, Zenon
<1>5. /\ Payload(p, 4) = ReadB4(p) /\ p + 3 <= Len(input)
      /\ ReadB4(p) \in Nat /\ ReadB4(p) >= 65536 /\ ReadB4(p) < 1114112
  BY Plain4, SMT
<1>6. p + 4 <= Len(input) + 1  BY <1>5, InputType, SMT
<1>7. PlainAt(p) = {[code |-> ReadB4(p), size |-> 4]}  BY <1>4, <1>5, SMT DEF PlainChar
<1>. QED  BY <1>5, <1>6, <1>7, SMT DEF Spells

LEMMA SpellsNone ==
  ASSUME InputOK, NEW p \in 1 .. Len(input), Byte(p) >= 128,
         ~ IsValidSeq2(p), ~ IsValidSeq3(p), ~ IsValidSeq4(p)
  PROVE  PlainAt(p) = {}
<1>1. IsStop(Byte(p))  BY Leads, SMT
<1>2. ~ Plain(p, 1) /\ ~ Plain(p, 2) /\ ~ Plain(p, 3) /\ ~ Plain(p, 4)
  BY <1>1, Plain1, Plain2, Plain3, Plain4, SMT
<1>3. \A k \in 1 .. 4 : ~ Plain(p, k)  BY <1>2
<1>. QED  BY <1>3, NoPlain, Zenon

-----------------------------------------------------------------------------
(* Escapes.                                                                *)

HighHalves == 55296 .. 56319
LowHalves == 56320 .. 57343

LEMMA HighIs == \A u \in Nat : u \in HighHalves <=> u >= 55296 /\ u <= 56319
<1>1. \A u \in HighHalves : u >= 55296 /\ u <= 56319  BY SMT DEF HighHalves
<1>2. \A u \in Nat : u >= 55296 /\ u <= 56319 => u \in HighHalves  BY SMT DEF HighHalves
<1>. QED  BY <1>1, <1>2

LEMMA LowIs == \A u \in Nat : u \in LowHalves <=> u >= 56320 /\ u <= 57343
<1>1. \A u \in LowHalves : u >= 56320 /\ u <= 57343  BY SMT DEF LowHalves
<1>2. \A u \in Nat : u >= 56320 /\ u <= 57343 => u \in LowHalves  BY SMT DEF LowHalves
<1>. QED  BY <1>1, <1>2

Letters(p) ==
  {[code |-> ShortEscapes[l], size |-> 2] :
     l \in {l \in DOMAIN ShortEscapes : p < Len(input) /\ input[p] = 92 /\ input[p + 1] = l}}
Singles(p) == {[code |-> u, size |-> 6] : u \in UnitsAt(p) \ Surrogates}
PairSum(hi, lo) == 65536 + 1024 * (hi - 55296) + lo - 56320
PairOf(hi, lo) == [code |-> PairSum(hi, lo), size |-> 12]
Pairs(p) == {PairOf(hi, lo) : hi \in UnitsAt(p) \cap HighHalves, lo \in UnitsAt(p + 6) \cap LowHalves}

LEMMA EscapedParts == ASSUME NEW p PROVE EscapedAt(p) = Letters(p) \cup Singles(p) \cup Pairs(p)
  BY SMT DEF EscapedAt, Letters, Singles, Pairs, PairOf, PairSum, HighHalves, LowHalves

LEMMA NoBackslash ==
  ASSUME NEW p, input[p] # 92
  PROVE  EscapedAt(p) = {}
<1>1. UnitsAt(p) = {}  BY DEF UnitsAt
<1>2. Letters(p) = {}  BY DEF Letters
<1>3. Singles(p) = {} /\ Pairs(p) = {}  BY <1>1 DEF Singles, Pairs
<1>. QED  BY <1>2, <1>3, EscapedParts

Unit16 == {u \in Nat : u < 65536}

LEMMA Unit16Is == \A u \in Unit16 : u \in Nat /\ u < 65536
  BY SMT DEF Unit16

LEMMA IsUnit16 == \A u \in Nat : u < 65536 => u \in Unit16
  BY SMT DEF Unit16

\* Four digits are in the document: the terminator is none.
LEMMA HexType ==
  ASSUME InputOK, NEW p \in Nat, p >= 1, p <= Len(input) + 1
  PROVE  ReadToHex(p) = -1 \/ (ReadToHex(p) \in Unit16 /\ p + 3 <= Len(input))
<1>. DEFINE c(n) == HexDigit(Byte(p + n))
<1>1. \A n \in 0 .. 3 : c(n) \in Nat
  <2>1. \A b \in Nat : HexDigit(b) \in Nat  BY SMT DEF HexDigit
  <2>2. \A n \in 0 .. 3 : Byte(p + n) \in Nat
    <3>1. \A n \in 0 .. 3 : p + n \in Nat /\ p + n >= 1  OBVIOUS
    <3>. QED  BY <3>1, InputType
  <2>. QED  BY <2>1, <2>2
<1>2. ReadToHex(p) = IF \E n \in 0 .. 3 : c(n) > 15 THEN -1 ELSE 16 * (16 * (16 * c(0) + c(1)) + c(2)) + c(3)
  BY Zenon DEF ReadToHex, HexUnit
<1>3. \A n \in 0 .. 3 : p + n = Len(input) + 1 => c(n) > 15
  <2>1. HexDigit(0) > 15  BY SMT DEF HexDigit
  <2>. QED  BY <2>1, InputType
<1>. HIDE DEF c
<1>4. CASE \E n \in 0 .. 3 : c(n) > 15
  <2>1. ReadToHex(p) = -1  BY <1>2, <1>4, Zenon
  <2>. QED  BY <2>1, SMT
<1>5. CASE ~ \E n \in 0 .. 3 : c(n) > 15
  <2>1. ReadToHex(p) = 16 * (16 * (16 * c(0) + c(1)) + c(2)) + c(3)  BY <1>2, <1>5, Zenon
  <2>2. c(0) \in 0 .. 15 /\ c(1) \in 0 .. 15 /\ c(2) \in 0 .. 15 /\ c(3) \in 0 .. 15
    <3>1. \A n \in 0 .. 3 : c(n) \in 0 .. 15
      <4>1. \A b \in Nat : ~ (b > 15) => b \in 0 .. 15  OBVIOUS
      <4>2. \A n \in 0 .. 3 : ~ (c(n) > 15)  BY <1>5, Zenon
      <4>. QED  BY <1>1, <4>1, <4>2, Zenon
    <3>2. 0 \in 0 .. 3 /\ 1 \in 0 .. 3 /\ 2 \in 0 .. 3 /\ 3 \in 0 .. 3  OBVIOUS
    <3>. QED  BY <3>1, <3>2, Zenon
  <2>3. PICK h0 \in 0 .. 15, h1 \in 0 .. 15, h2 \in 0 .. 15, h3 \in 0 .. 15 :
           ReadToHex(p) = 16 * (16 * (16 * h0 + h1) + h2) + h3
    BY <2>1, <2>2, Zenon
  <2>4. 16 * (16 * (16 * h0 + h1) + h2) + h3 \in Unit16
    <3>1. PICK u \in Nat : u = 16 * (16 * (16 * h0 + h1) + h2) + h3 /\ u < 65536
      <4>1. /\ 16 * (16 * (16 * h0 + h1) + h2) + h3 \in Nat
            /\ 16 * (16 * (16 * h0 + h1) + h2) + h3 < 65536
        BY <2>3, SMT
      <4>. QED  BY <4>1, SMT
    <3>. QED  BY <3>1, IsUnit16, SMT
  <2>5. p + 3 <= Len(input)
    <3>1. ASSUME p + 3 > Len(input) PROVE FALSE
      <4>1. PICK n \in 0 .. 3 : p + n = Len(input) + 1
        <5>1. Len(input) + 1 - p \in 0 .. 3 /\ p + (Len(input) + 1 - p) = Len(input) + 1
          <6>1. PICK n \in Nat : n = Len(input)  BY InputType
          <6>2. p + 3 > n /\ p <= n + 1  BY <3>1, <6>1
          <6>3. n + 1 - p \in 0 .. 3 /\ p + (n + 1 - p) = n + 1  BY <6>2
          <6>. QED  BY <6>1, <6>3, Zenon
        <5>. QED  BY <5>1
      <4>. QED  BY <1>3, <1>5, <4>1
    <3>. QED  BY <3>1, InputType
  <2>. QED  BY <2>3, <2>4, <2>5, Zenon
<1>. QED  BY <1>4, <1>5, Zenon

Letter == {34, 92, 47, 98, 102, 110, 114, 116}

LEMMA LettersAre ==
  DOMAIN ShortEscapes = Letter /\ \A l \in Letter : ShortEscapes[l] \in Nat /\ ShortEscapes[l] < 128
<1>1. DOMAIN ShortEscapes = Letter  BY DEF ShortEscapes, Letter
<1>2. \A l \in Letter : ShortEscapes[l] \in Nat /\ ShortEscapes[l] < 128  BY DEF ShortEscapes, Letter
<1>. QED  BY <1>1, <1>2

LEMMA BackslashAt ==
  ASSUME InputOK, NEW p \in Nat, p >= 1, p <= Len(input) + 1, Byte(p) = 92
  PROVE  p \in 1 .. Len(input) /\ input[p] = 92
<1>1. p # Len(input) + 1  BY InputType
<1>. QED  BY <1>1, InputType

\* The unit that an escape at p spells.
LEMMA UnitAt ==
  ASSUME InputOK, NEW p \in Nat, p >= 1, p <= Len(input) + 1
  PROVE  UnitsAt(p) = IF Byte(p) = 92 /\ Byte(p + 1) = 117 /\ ReadToHex(p + 2) # -1
                        THEN {ReadToHex(p + 2)} ELSE {}
<1>1. CASE p + 5 <= Len(input)
  <2>1. Byte(p) = input[p] /\ Byte(p + 1) = input[p + 1]  BY <1>1, InputType
  <2>. QED  BY <1>1, <2>1, Zenon DEF UnitsAt
<1>2. CASE ~ (p + 5 <= Len(input))
  <2>1. UnitsAt(p) = {}  BY <1>2, Zenon DEF UnitsAt
  <2>2. ASSUME Byte(p) = 92, Byte(p + 1) = 117, ReadToHex(p + 2) # -1 PROVE FALSE
    <3>1. p <= Len(input)  BY <2>2, BackslashAt, InputType
    <3>2. p + 1 # Len(input) + 1  BY <2>2, InputType
    <3>3. p + 2 \in Nat /\ p + 2 >= 1 /\ p + 2 <= Len(input) + 1  BY <3>1, <3>2, InputType
    <3>4. (p + 2) + 3 <= Len(input)  BY <2>2, <3>3, HexType, Zenon
    <3>. QED  BY <1>2, <3>4, InputType
  <2>. QED  BY <2>1, <2>2, Zenon
<1>. QED  BY <1>1, <1>2, Zenon

Unicode == {c \in Nat : c < 1114112}

LEMMA UnicodeIs ==
  /\ \A c \in Unicode : c \in Nat /\ c < 16777216
  /\ \A c \in Nat : c < 1114112 => c \in Unicode
  BY SMT DEF Unicode

LEMMA IsUnicode ==
  /\ \A c \in Unit16 : c \in Unicode
  /\ \A c \in Nat : c < 256 => c \in Unicode
  BY SMT DEF Unicode, Unit16

LEMMA UnitIsNat == \A u \in Unit16 : u \in Nat
  BY Unit16Is, SMT

\* What an escape at p is read as.
IsEscape(p, e) ==
  \/ e.size = 0 /\ CharsAt(p) = {}
  \/ e.size \in {2, 6, 12} /\ e.code \in Unicode /\ p + e.size <= Len(input) + 1 /\ CharsAt(p) = {e}

LEMMA OnlyEscapes ==
  ASSUME InputOK, NEW p \in 1 .. Len(input), Byte(p) = 92
  PROVE  CharsAt(p) = Letters(p) \cup Singles(p) \cup Pairs(p) /\ input[p] = 92
<1>1. IsStop(92) /\ 92 < 128  BY DEF IsStop
<1>2. PlainAt(p) = {}  BY <1>1, PlainBelow, Zenon
<1>3. input[p] = 92  BY InputType
<1>. QED  BY <1>2, <1>3, EscapedParts, Zenon DEF CharsAt

LEMMA LetterChars ==
  ASSUME InputOK, NEW p \in 1 .. Len(input), Byte(p) = 92, Byte(p + 1) \in Letter
  PROVE  IsEscape(p, EscapeAt(p))
<1>. DEFINE e == [code |-> ShortEscapes[Byte(p + 1)], size |-> 2]
<1>0. p \in Nat /\ p >= 1 /\ p <= Len(input) + 1  BY InputType
<1>1. p < Len(input) /\ input[p + 1] = Byte(p + 1)
  <2>1. p # Len(input)  BY InputType DEF Letter
  <2>. QED  BY <2>1, InputType
<1>2. UnitsAt(p) = {}
  <2>1. Byte(p + 1) # 117  BY DEF Letter
  <2>. QED  BY <1>0, <2>1, UnitAt, Zenon
<1>3. Singles(p) = {} /\ Pairs(p) = {}  BY <1>2 DEF Singles, Pairs
<1>4. Letters(p) = {e}  BY <1>1, LettersAre, OnlyEscapes, Zenon DEF Letters
<1>5. CharsAt(p) = {e}  BY <1>3, <1>4, OnlyEscapes
<1>6. EscapeAt(p) = e  BY LettersAre, Zenon DEF EscapeAt
<1>7. ShortEscapes[Byte(p + 1)] \in Unicode
  <2>1. ShortEscapes[Byte(p + 1)] \in Nat /\ ShortEscapes[Byte(p + 1)] < 256  BY LettersAre
  <2>. QED  BY <2>1, IsUnicode, Zenon
<1>8. e.size = 2 /\ e.code \in Unicode  BY <1>7
<1>. HIDE DEF e
<1>9. p + e.size <= Len(input) + 1  BY <1>1, <1>8, InputType
<1>. QED  BY <1>5, <1>6, <1>8, <1>9 DEF IsEscape

LEMMA NoLetters ==
  ASSUME InputOK, NEW p \in 1 .. Len(input), Byte(p + 1) \notin Letter
  PROVE  Letters(p) = {}
<1>1. p < Len(input) => input[p + 1] = Byte(p + 1)  BY InputType
<1>. QED  BY <1>1, LettersAre, Zenon DEF Letters

LEMMA Halves ==
  \A u \in Nat :
    /\ u \div 2048 = 27 <=> u >= 55296 /\ u <= 57343
    /\ u \div 1024 = 54 <=> u >= 55296 /\ u <= 56319
    /\ u \div 1024 = 55 <=> u >= 56320 /\ u <= 57343
    /\ u \div 1024 = 54 => u % 1024 = u - 55296
    /\ u \div 1024 = 55 => u % 1024 = u - 56320
  BY SMT

\* The tests of the code.
IsHalf(u) == u \div 2048 = 27
IsHigh(u) == u \div 1024 = 54
IsLow(u) == u \div 1024 = 55

LEMMA HalvesAre ==
  \A u \in Nat :
    /\ u \in Surrogates <=> IsHalf(u)
    /\ u \in HighHalves <=> IsHigh(u)
    /\ u \in LowHalves <=> IsLow(u)
    /\ u \in HighHalves => u \in Surrogates
<1>1. \A u \in Nat : u \in Surrogates <=> IsHalf(u)  BY Halves, SurrogateIs, SMT DEF IsHalf
<1>2. \A u \in Nat : u \in HighHalves <=> IsHigh(u)  BY Halves, HighIs, SMT DEF IsHigh
<1>3. \A u \in Nat : u \in LowHalves <=> IsLow(u)  BY Halves, LowIs, SMT DEF IsLow
<1>4. \A u \in Nat : u \in HighHalves => u \in Surrogates  BY HighIs, SurrogateIs, SMT
<1>. QED  BY <1>1, <1>2, <1>3, <1>4, SMT

LEMMA EscapeCases ==
  ASSUME NEW p, Byte(p + 1) \notin Letter
  PROVE  /\ Byte(p + 1) # 117 \/ ReadToHex(p + 2) = -1 => EscapeAt(p) = NoEscape
         /\ Byte(p + 1) = 117 /\ ReadToHex(p + 2) # -1 =>
              EscapeAt(p) = IF IsHalf(ReadToHex(p + 2)) THEN PairAt(p, ReadToHex(p + 2))
                            ELSE [code |-> ReadToHex(p + 2), size |-> 6]
<1>1. Byte(p + 1) \notin DOMAIN ShortEscapes  BY LettersAre, Zenon
<1>. QED  BY <1>1, SMT DEF EscapeAt, IsHalf

Follows(p, lo) == Byte(p + 6) = 92 /\ Byte(p + 7) = 117 /\ lo # -1

LEMMA PairCases ==
  ASSUME NEW p, NEW hi, NEW lo, lo = ReadToHex(p + 8)
  PROVE  /\ IsHigh(hi) /\ Follows(p, lo) /\ IsLow(lo) => PairAt(p, hi) = [code |-> PairCode(hi, lo), size |-> 12]
         /\ ~ (IsHigh(hi) /\ Follows(p, lo) /\ IsLow(lo)) => PairAt(p, hi) = NoEscape
  BY SMT DEF PairAt, IsHigh, IsLow, Follows

LEMMA NoneOrSingle ==
  ASSUME InputOK, NEW p \in 1 .. Len(input), Byte(p) = 92, Byte(p + 1) \notin Letter,
         Byte(p + 1) # 117 \/ ReadToHex(p + 2) = -1 \/ ReadToHex(p + 2) \notin Surrogates
  PROVE  IsEscape(p, EscapeAt(p))
<1>0. p \in Nat /\ p >= 1 /\ p <= Len(input) + 1  BY InputType
<1>1. Letters(p) = {}  BY NoLetters
<1>2. CASE Byte(p + 1) # 117 \/ ReadToHex(p + 2) = -1
  <2>1. UnitsAt(p) = {}  BY <1>0, <1>2, UnitAt
  <2>2. CharsAt(p) = {}  BY <1>1, <2>1, OnlyEscapes DEF Singles, Pairs
  <2>3. EscapeAt(p) = NoEscape  BY <1>2, EscapeCases, Zenon
  <2>. QED  BY <2>2, <2>3 DEF IsEscape, NoEscape
<1>3. CASE Byte(p + 1) = 117 /\ ReadToHex(p + 2) # -1
  <2>1. PICK hi \in Unit16 : hi = ReadToHex(p + 2) /\ p + 5 <= Len(input)
    <3>1. p # Len(input)  BY <1>3, InputType
    <3>2. p + 2 \in Nat /\ p + 2 >= 1 /\ p + 2 <= Len(input) + 1 /\ (p + 2) + 3 = p + 5  BY <1>0, <3>1, InputType
    <3>3. ReadToHex(p + 2) \in Unit16 /\ (p + 2) + 3 <= Len(input)  BY <1>3, <3>2, HexType, Zenon
    <3>. QED  BY <3>2, <3>3, Zenon
  <2>2. UnitsAt(p) = {hi}  BY <1>0, <1>3, <2>1, UnitAt, Zenon
  <2>3. hi \in Nat /\ hi \in Unicode  BY UnitIsNat, IsUnicode, Zenon
  <2>4. hi \notin Surrogates  BY <1>3, <2>1, Zenon
  <2>5. hi \notin HighHalves /\ ~ IsHalf(hi)  BY <2>3, <2>4, HalvesAre, Zenon
  <2>6. EscapeAt(p) = [code |-> hi, size |-> 6]  BY <1>3, <2>1, <2>5, EscapeCases, Zenon
  <2>7. Singles(p) = {[code |-> hi, size |-> 6]}  BY <2>2, <2>4, SMT DEF Singles
  <2>8. Pairs(p) = {}
    <3>1. \A x : x \notin Pairs(p)  BY <2>2, <2>5, SMT DEF Pairs
    <3>. QED  BY <3>1, SMT
  <2>9. CharsAt(p) = {[code |-> hi, size |-> 6]}  BY <1>1, <2>7, <2>8, OnlyEscapes, SMT
  <2>10. p + 6 <= Len(input) + 1  BY <2>1, InputType
  <2>. QED  BY <2>3, <2>6, <2>9, <2>10, SMT DEF IsEscape
<1>. QED  BY <1>2, <1>3, Zenon

LEMMA PairCodeIs ==
  ASSUME NEW hi \in Nat, NEW lo \in Nat, IsHigh(hi), IsLow(lo)
  PROVE  PairOf(hi, lo) = [code |-> PairCode(hi, lo), size |-> 12] /\ PairCode(hi, lo) \in Unicode
<1>1. hi >= 55296 /\ hi <= 56319 /\ lo >= 56320 /\ lo <= 57343  BY Halves, SMT DEF IsHigh, IsLow
<1>2. hi % 1024 = hi - 55296 /\ lo % 1024 = lo - 56320  BY Halves, SMT DEF IsHigh, IsLow
<1>3. PairCode(hi, lo) = 65536 + 1024 * (hi - 55296) + lo - 56320  BY <1>2, SMT DEF PairCode
<1>4. 65536 + 1024 * (hi - 55296) + lo - 56320 \in Unicode
  <2>1. PICK c \in Nat : c = 65536 + 1024 * (hi - 55296) + lo - 56320 /\ c < 1114112
    <3>1. /\ 65536 + 1024 * (hi - 55296) + lo - 56320 \in Nat
          /\ 65536 + 1024 * (hi - 55296) + lo - 56320 < 1114112
      BY <1>1, SMT
    <3>. QED  BY <3>1, SMT
  <2>. QED  BY <2>1, UnicodeIs, SMT
<1>. QED  BY <1>3, <1>4, SMT DEF PairOf, PairSum

\* The unit behind an escape that ends in the document.
LEMMA NextUnit ==
  ASSUME InputOK, NEW p \in 1 .. Len(input), p + 5 <= Len(input),
         Byte(p + 6) = 92, Byte(p + 7) = 117, ReadToHex(p + 8) # -1
  PROVE  ReadToHex(p + 8) \in Unit16 /\ p + 12 <= Len(input) + 1
<1>1. PICK n \in Nat : n = Len(input)  BY InputType
<1>2. p + 6 # n + 1 /\ p + 7 # n + 1
  <2>1. Byte(n + 1) = 0  BY <1>1, InputType, Zenon
  <2>. QED  BY <2>1, SMT
<1>3. p + 8 \in Nat /\ p + 8 >= 1 /\ p + 8 <= n + 1  BY <1>1, <1>2
<1>4. ReadToHex(p + 8) \in Unit16 /\ (p + 8) + 3 <= n  BY <1>1, <1>3, HexType, Zenon
<1>5. p + 12 <= n + 1  BY <1>4
<1>. QED  BY <1>1, <1>4, <1>5, Zenon

LEMMA PairChars ==
  ASSUME InputOK, NEW p \in 1 .. Len(input), Byte(p) = 92, Byte(p + 1) = 117,
         ReadToHex(p + 2) # -1, ReadToHex(p + 2) \in Surrogates
  PROVE  IsEscape(p, EscapeAt(p))
<1>0. p \in Nat /\ p >= 1 /\ p <= Len(input) + 1  BY InputType
<1>1. 117 \notin Letter  BY DEF Letter
<1>2. Letters(p) = {}  BY <1>1, NoLetters, Zenon
<1>3. PICK hi \in Unit16 : hi = ReadToHex(p + 2) /\ p + 5 <= Len(input)
  <2>1. p # Len(input)  BY InputType
  <2>2. p + 2 \in Nat /\ p + 2 >= 1 /\ p + 2 <= Len(input) + 1 /\ (p + 2) + 3 = p + 5  BY <1>0, <2>1, InputType
  <2>3. ReadToHex(p + 2) \in Unit16 /\ (p + 2) + 3 <= Len(input)  BY <2>2, HexType, Zenon
  <2>. QED  BY <2>2, <2>3, Zenon
<1>4. PICK lo : lo = ReadToHex(p + 8)  OBVIOUS
<1>5. hi \in Nat /\ hi \in Surrogates /\ IsHalf(hi) /\ (hi \in HighHalves <=> IsHigh(hi))
  BY <1>3, UnitIsNat, HalvesAre, Zenon
<1>6. UnitsAt(p) = {hi}  BY <1>0, <1>3, UnitAt, Zenon
<1>7. EscapeAt(p) = PairAt(p, hi)  BY <1>1, <1>3, <1>5, EscapeCases, SMT
<1>8. UnitsAt(p + 6) = IF Follows(p, lo) THEN {lo} ELSE {}
  <2>1. PICK q \in Nat : q = p + 6 /\ q + 1 = p + 7 /\ q + 2 = p + 8 /\ q >= 1 /\ q <= Len(input) + 1
    <3>1. p + 6 \in Nat /\ (p + 6) + 1 = p + 7 /\ (p + 6) + 2 = p + 8 /\ p + 6 >= 1 /\ p + 6 <= Len(input) + 1
      BY <1>0, <1>3, InputType
    <3>. QED  BY <3>1, Zenon
  <2>2. UnitsAt(q) = IF Byte(q) = 92 /\ Byte(q + 1) = 117 /\ ReadToHex(q + 2) # -1 THEN {ReadToHex(q + 2)} ELSE {}
    BY <2>1, UnitAt, Zenon
  <2>. QED  BY <1>4, <2>1, <2>2, Zenon DEF Follows
<1>9. Singles(p) = {}  BY <1>5, <1>6, Zenon DEF Singles
<1>10. CharsAt(p) = Pairs(p)  BY <1>2, <1>9, OnlyEscapes, Zenon
<1>12. Follows(p, lo) => lo \in Nat /\ p + 12 <= Len(input) + 1 /\ (lo \in LowHalves <=> IsLow(lo))
  <2>1. ASSUME Follows(p, lo) PROVE lo \in Unit16 /\ p + 12 <= Len(input) + 1
    BY <1>3, <1>4, <2>1, NextUnit, Zenon DEF Follows
  <2>2. lo \in Unit16 => lo \in Nat  BY UnitIsNat, Zenon
  <2>. QED  BY <2>1, <2>2, HalvesAre, Zenon
<1>13. CASE IsHigh(hi) /\ Follows(p, lo) /\ IsLow(lo)
  <2>1. UnitsAt(p) \cap HighHalves = {hi} /\ UnitsAt(p + 6) \cap LowHalves = {lo}
    BY <1>5, <1>6, <1>8, <1>12, <1>13, Zenon
  <2>2. Pairs(p) = {PairOf(hi, lo)}
    <3>1. ASSUME NEW x, x \in Pairs(p) PROVE x = PairOf(hi, lo)
      <4>1. PICK h \in UnitsAt(p) \cap HighHalves, l \in UnitsAt(p + 6) \cap LowHalves : x = PairOf(h, l)
        BY <3>1, SMT DEF Pairs
      <4>2. h = hi /\ l = lo  BY <2>1, <4>1, Zenon
      <4>. QED  BY <4>1, <4>2, Zenon
    <3>2. PairOf(hi, lo) \in Pairs(p)
      <4>1. hi \in UnitsAt(p) \cap HighHalves /\ lo \in UnitsAt(p + 6) \cap LowHalves  BY <2>1, Zenon
      <4>. QED  BY <4>1, SMT DEF Pairs
    <3>. QED  BY <3>1, <3>2, Zenon
  <2>3. PairOf(hi, lo) = [code |-> PairCode(hi, lo), size |-> 12] /\ PairCode(hi, lo) \in Unicode
    BY <1>5, <1>12, <1>13, PairCodeIs, Zenon
  <2>4. EscapeAt(p) = [code |-> PairCode(hi, lo), size |-> 12]  BY <1>4, <1>7, <1>13, PairCases, SMT
  <2>5. CharsAt(p) = {EscapeAt(p)}  BY <1>10, <2>2, <2>3, <2>4, Zenon
  <2>6. EscapeAt(p).size = 12 /\ EscapeAt(p).code = PairCode(hi, lo)  BY <2>4
  <2>. QED  BY <1>12, <1>13, <2>3, <2>5, <2>6, Zenon DEF IsEscape
<1>14. CASE ~ (IsHigh(hi) /\ Follows(p, lo) /\ IsLow(lo))
  <2>1. UnitsAt(p) \cap HighHalves = {} \/ UnitsAt(p + 6) \cap LowHalves = {}
    BY <1>5, <1>6, <1>8, <1>12, <1>14, Zenon
  <2>2. Pairs(p) = {}
    <3>1. \A x : x \notin Pairs(p)  BY <2>1, SMT DEF Pairs
    <3>. QED  BY <3>1, SMT
  <2>3. EscapeAt(p) = NoEscape  BY <1>4, <1>7, <1>14, PairCases, SMT
  <2>. QED  BY <1>10, <2>2, <2>3 DEF IsEscape, NoEscape
<1>. QED  BY <1>13, <1>14, Zenon

\* The code reads an escape where there is one, and reads the character it
\* stands for.
LEMMA EscapeChars ==
  ASSUME InputOK, NEW p \in 1 .. Len(input), Byte(p) = 92
  PROVE  IsEscape(p, EscapeAt(p))
<1>1. CASE Byte(p + 1) \in Letter  BY <1>1, LetterChars, Zenon
<1>2. CASE Byte(p + 1) = 117 /\ ReadToHex(p + 2) # -1 /\ ReadToHex(p + 2) \in Surrogates
  BY <1>2, PairChars, Zenon
<1>3. CASE Byte(p + 1) \notin Letter /\ ~ (Byte(p + 1) = 117 /\ ReadToHex(p + 2) # -1 /\ ReadToHex(p + 2) \in Surrogates)
  <2>1. Byte(p + 1) # 117 \/ ReadToHex(p + 2) = -1 \/ ReadToHex(p + 2) \notin Surrogates  BY <1>3, Zenon
  <2>2. Byte(p + 1) \notin Letter  BY <1>3, Zenon
  <2>. QED  BY <2>1, <2>2, NoneOrSingle, SMT
<1>. QED  BY <1>1, <1>2, <1>3, Zenon

-----------------------------------------------------------------------------
(* The character at a place, and what the code finds there.                *)

IsChar(p, c, n) ==
  /\ p \in 1 .. Len(input) /\ input[p] # 34
  /\ CharsAt(p) = {[code |-> c, size |-> n]}
  /\ c \in Unicode /\ n \in 1 .. 12 /\ p + n \in 1 .. Len(input) + 1

NoChar(p) == p \in 1 .. Len(input) => input[p] # 34 /\ CharsAt(p) = {}

LEMMA LenIs == ASSUME InputOK PROVE Len(input) \in Nat
  BY InputType, Zenon

LEMMA InDocument ==
  ASSUME InputOK, NEW p \in 1 .. Len(input) + 1, Byte(p) # 0
  PROVE  p \in 1 .. Len(input) /\ input[p] = Byte(p)
<1>1. PICK n \in Nat : n = Len(input)  BY InputType
<1>2. p # n + 1  BY <1>1, InputType
<1>3. p \in 1 .. n  BY <1>1, <1>2
<1>. QED  BY <1>1, <1>3, InputType

\* The byte at p is less than 128 or it is not, and then no escape begins there.
LEMMA NoEscapeAt ==
  ASSUME InputOK, NEW p \in 1 .. Len(input), Byte(p) # 92
  PROVE  CharsAt(p) = PlainAt(p)
<1>1. input[p] # 92  BY InputType
<1>. QED  BY <1>1, NoBackslash, Zenon DEF CharsAt

LEMMA PlainIs ==
  ASSUME InputOK, NEW p \in 1 .. Len(input) + 1, ~ IsStop(Byte(p))
  PROVE  IsChar(p, Byte(p), 1) /\ Byte(p) < 128
<1>1. Byte(p) # 0 /\ Byte(p) # 34 /\ Byte(p) # 92  BY DEF IsStop
<1>2. p \in 1 .. Len(input) /\ input[p] = Byte(p)  BY <1>1, InDocument
<1>3. Byte(p) \in Nat /\ Byte(p) < 128  BY <1>2, Leads, SMT
<1>4. PlainAt(p) = {[code |-> Byte(p), size |-> 1]}  BY <1>2, <1>3, PlainBelow, Zenon
<1>5. CharsAt(p) = {[code |-> Byte(p), size |-> 1]}  BY <1>1, <1>2, <1>4, NoEscapeAt, Zenon
<1>6. Byte(p) < 256  BY <1>3
<1>7. Byte(p) \in Unicode  BY <1>3, <1>6, IsUnicode, Zenon
<1>8. 1 \in 1 .. 12 /\ p + 1 \in 1 .. Len(input) + 1  BY <1>2, InputType
<1>. QED  BY <1>1, <1>2, <1>3, <1>5, <1>7, <1>8, Zenon DEF IsChar

LEMMA StopIs ==
  ASSUME InputOK, NEW p \in 1 .. Len(input) + 1, Byte(p) < 128, IsStop(Byte(p)), Byte(p) # 34, Byte(p) # 92
  PROVE  NoChar(p)
<1>. SUFFICES ASSUME p \in 1 .. Len(input) PROVE input[p] # 34 /\ CharsAt(p) = {}  BY Zenon DEF NoChar
<1>1. PlainAt(p) = {}  BY PlainBelow, Zenon
<1>2. CharsAt(p) = {}  BY <1>1, NoEscapeAt, Zenon
<1>3. input[p] # 34  BY InputType
<1>. QED  BY <1>2, <1>3, Zenon

LEMMA EscapeIs ==
  ASSUME InputOK, NEW p \in 1 .. Len(input) + 1, Byte(p) = 92
  PROVE  /\ EscapeAt(p).size = 0 => NoChar(p)
         /\ EscapeAt(p).size # 0 => IsChar(p, EscapeAt(p).code, EscapeAt(p).size)
<1>1. p \in 1 .. Len(input) /\ input[p] = 92  BY InDocument
<1>2. PICK e : e = EscapeAt(p)  OBVIOUS
<1>3. IsEscape(p, e)  BY <1>1, <1>2, EscapeChars, Zenon
<1>4. CASE e.size = 0 /\ CharsAt(p) = {}
  <2>1. NoChar(p)  BY <1>1, <1>4 DEF NoChar
  <2>. QED  BY <1>2, <1>4, <2>1, Zenon
<1>5. CASE e.size \in {2, 6, 12} /\ e.code \in Unicode /\ p + e.size <= Len(input) + 1 /\ CharsAt(p) = {e}
  <2>1. e.size \in 1 .. 12 /\ e.size # 0 /\ p + e.size \in 1 .. Len(input) + 1
    <3>1. PICK n \in Nat : n = e.size /\ n >= 2 /\ n <= 12 /\ p + n <= Len(input) + 1
      <4>1. e.size \in Nat /\ e.size >= 2 /\ e.size <= 12  BY <1>5
      <4>. QED  BY <1>5, <4>1
    <3>2. n \in 1 .. 12 /\ n # 0
      <4>1. n \in Nat /\ n >= 2 /\ n <= 12  BY <3>1, Zenon
      <4>. QED  BY <4>1
    <3>3. p + n \in 1 .. Len(input) + 1
      <4>1. p + n <= Len(input) + 1  BY <3>1
      <4>. QED  BY <1>1, <3>1, <4>1, LenIs
    <3>. QED  BY <3>1, <3>2, <3>3, Zenon
  <2>2. e = [code |-> e.code, size |-> e.size]
    <3>1. PICK ch : ch \in CharsAt(p)  BY <1>5
    <3>2. ch = e  BY <1>5, <3>1
    <3>3. \E c, n : ch = [code |-> c, size |-> n]
      <4>1. ch \in Letters(p) \cup Singles(p) \cup Pairs(p)  BY <1>1, <3>1, OnlyEscapes, Zenon
      <4>2. ch \in Letters(p) => \E c, n : ch = [code |-> c, size |-> n]  BY SMT DEF Letters
      <4>3. ch \in Singles(p) => \E c, n : ch = [code |-> c, size |-> n]  BY SMT DEF Singles
      <4>4. ch \in Pairs(p) => \E c, n : ch = [code |-> c, size |-> n]
        <5>1. \A h, l : \E c, n : PairOf(h, l) = [code |-> c, size |-> n]  BY Zenon DEF PairOf
        <5>. QED  BY <5>1, SMT DEF Pairs
      <4>. QED  BY <4>1, <4>2, <4>3, <4>4, Zenon
    <3>. QED  BY <3>2, <3>3
  <2>3. input[p] # 34  BY <1>1
  <2>4. IsChar(p, e.code, e.size)  BY <1>1, <1>5, <2>1, <2>2, <2>3, Zenon DEF IsChar
  <2>. QED  BY <1>2, <2>1, <2>4, Zenon
<1>. QED  BY <1>3, <1>4, <1>5, Zenon DEF IsEscape

LEMMA SpellsChar ==
  ASSUME InputOK, NEW p \in 1 .. Len(input), Byte(p) >= 128, NEW c, NEW n \in 2 .. 4,
         Spells(p, n, c), c \in Unicode
  PROVE  IsChar(p, c, n)
<1>1. Byte(p) # 92 /\ Byte(p) # 34  BY Leads, SMT
<1>2. CharsAt(p) = {[code |-> c, size |-> n]}  BY <1>1, NoEscapeAt, Zenon DEF Spells
<1>3. input[p] # 34  BY <1>1, InputType
<1>4. n \in 1 .. 12  OBVIOUS
<1>5. p + n \in 1 .. Len(input) + 1
  <2>1. p + n <= Len(input) + 1  BY Zenon DEF Spells
  <2>. QED  BY <2>1, InputType
<1>. QED  BY <1>2, <1>3, <1>4, <1>5, Zenon DEF IsChar

LEMMA SequenceIs ==
  ASSUME InputOK, NEW p \in 1 .. Len(input) + 1, ~ (Byte(p) < 128)
  PROVE  /\ p \in 1 .. Len(input)
         /\ IsValidSeq2(p) => IsChar(p, ReadB2(p), 2)
         /\ IsValidSeq3(p) => IsChar(p, ReadB3(p), 3)
         /\ IsValidSeq4(p) => IsChar(p, ReadB4(p), 4)
         /\ ~ IsValidSeq2(p) /\ ~ IsValidSeq3(p) /\ ~ IsValidSeq4(p) => NoChar(p)
<1>1. p \in 1 .. Len(input) /\ input[p] = Byte(p)
  <2>1. Byte(p) # 0  OBVIOUS
  <2>. QED  BY <2>1, InDocument
<1>2. Byte(p) >= 128 /\ Byte(p) # 92 /\ Byte(p) # 34  BY <1>1, Leads, SMT
<1>3. 2 \in 2 .. 4 /\ 3 \in 2 .. 4 /\ 4 \in 2 .. 4  OBVIOUS
<1>4. ASSUME IsValidSeq2(p) PROVE IsChar(p, ReadB2(p), 2)
  <2>1. Spells(p, 2, ReadB2(p))  BY <1>1, <1>4, Spells2, SMT
  <2>2. ReadB2(p) \in Unicode
    <3>1. ReadB2(p) \in Nat /\ ReadB2(p) < 2048  BY <1>1, <1>4, Spells2, SMT DEF Spells
    <3>2. ReadB2(p) < 1114112  BY <3>1, SMT
    <3>. QED  BY <3>1, <3>2, UnicodeIs, SMT
  <2>. QED  BY <1>1, <1>2, <1>3, <2>1, <2>2, SpellsChar, Zenon
<1>5. ASSUME IsValidSeq3(p) PROVE IsChar(p, ReadB3(p), 3)
  <2>1. Spells(p, 3, ReadB3(p))  BY <1>1, <1>5, Spells3, SMT
  <2>2. ReadB3(p) \in Unicode
    <3>1. ReadB3(p) \in Nat /\ ReadB3(p) < 65536  BY <1>1, <1>5, Spells3, SMT DEF Spells
    <3>2. ReadB3(p) < 1114112  BY <3>1, SMT
    <3>. QED  BY <3>1, <3>2, UnicodeIs, SMT
  <2>. QED  BY <1>1, <1>2, <1>3, <2>1, <2>2, SpellsChar, Zenon
<1>6. ASSUME IsValidSeq4(p) PROVE IsChar(p, ReadB4(p), 4)
  <2>1. Spells(p, 4, ReadB4(p))  BY <1>1, <1>6, Spells4, SMT
  <2>2. ReadB4(p) \in Unicode
    <3>1. ReadB4(p) \in Nat /\ ReadB4(p) < 1114112  BY <1>1, <1>6, Spells4, SMT DEF Spells
    <3>. QED  BY <3>1, UnicodeIs, SMT
  <2>. QED  BY <1>1, <1>2, <1>3, <2>1, <2>2, SpellsChar, Zenon
<1>7. ASSUME ~ IsValidSeq2(p), ~ IsValidSeq3(p), ~ IsValidSeq4(p) PROVE NoChar(p)
  <2>1. PlainAt(p) = {}  BY <1>1, <1>2, <1>7, SpellsNone, Zenon
  <2>2. CharsAt(p) = {}  BY <1>1, <1>2, <2>1, NoEscapeAt, Zenon
  <2>. QED  BY <1>1, <1>2, <2>2, Zenon DEF NoChar
<1>. QED  BY <1>1, <1>4, <1>5, <1>6, <1>7, Zenon

\* There is one character at a place, or none.
LEMMA CharSizes ==
  ASSUME InputOK, NEW p \in 1 .. Len(input), input[p] # 34
  PROVE  CharsAt(p) = {} \/ \E c, n : IsChar(p, c, n)
<1>1. p \in 1 .. Len(input) + 1 /\ input[p] = Byte(p)  BY InputType
<1>2. NoChar(p) => CharsAt(p) = {}  BY Zenon DEF NoChar
<1>3. CASE Byte(p) = 92  BY <1>1, <1>2, <1>3, EscapeIs, Zenon
<1>4. CASE ~ IsStop(Byte(p))  BY <1>1, <1>4, PlainIs, Zenon
<1>5. CASE IsStop(Byte(p)) /\ Byte(p) # 92 /\ Byte(p) < 128  BY <1>1, <1>2, <1>5, StopIs, Zenon
<1>6. CASE ~ (Byte(p) < 128)  BY <1>1, <1>2, <1>6, SequenceIs, Zenon
<1>. QED  BY <1>3, <1>4, <1>5, <1>6, Zenon

-----------------------------------------------------------------------------
(* What the document spells, from any place on.                            *)

Extended(c, R) == {<<c>> \o rest : rest \in R}

Rest(f, p) ==
  IF p > Len(input) THEN {}
  ELSE IF input[p] = 34 THEN {<<>>}
  ELSE UNION {Extended(ch.code, f[p + ch.size]) : ch \in CharsAt(p)}

IsFrom(f) == f = [p \in 1 .. Len(input) + 1 |-> Rest(f, p)]
From == CHOOSE f : IsFrom(f)

LEMMA SpelledIs == Spelled = From[1]
  BY DEF Spelled, From, IsFrom, Rest, Extended

LEMMA SpelledStays == ASSUME input' = input, junk' = junk PROVE Spelled' = Spelled
  BY DEF Spelled, CharsAt, PlainAt, EscapedAt, Payload, UnitsAt, ReadToHex, HexUnit, Byte
LEMMA FromStays == ASSUME input' = input, junk' = junk PROVE From' = From
  BY DEF From, IsFrom, Rest, CharsAt, PlainAt, EscapedAt, Payload, UnitsAt, ReadToHex, HexUnit, Byte

LEMMA RestOfOne ==
  ASSUME InputOK, NEW f, NEW p, NEW c, NEW n, IsChar(p, c, n)
  PROVE  Rest(f, p) = Extended(c, f[p + n])
<1>1. ~ (p > Len(input)) /\ input[p] # 34
  <2>1. p \in 1 .. Len(input) /\ input[p] # 34  BY Zenon DEF IsChar
  <2>. QED  BY <2>1, LenIs
<1>2. PICK e : e = [code |-> c, size |-> n]  OBVIOUS
<1>3. e.code = c /\ e.size = n  BY <1>2
<1>4. CharsAt(p) = {e}  BY <1>2, Zenon DEF IsChar
<1>5. UNION {Extended(ch.code, f[p + ch.size]) : ch \in {e}} = Extended(e.code, f[p + e.size])
  BY Zenon
<1>. QED  BY <1>1, <1>3, <1>4, <1>5, Zenon DEF Rest

LEMMA RestOfNone ==
  ASSUME NEW f, NEW p, input[p] # 34, CharsAt(p) = {}
  PROVE  Rest(f, p) = {}
<1>1. UNION {Extended(ch.code, f[p + ch.size]) : ch \in {}} = {}
  BY Zenon
<1>. QED  BY <1>1, Zenon DEF Rest

\* Only what comes later is looked at.
LEMMA RestLooksAhead ==
  ASSUME InputOK, NEW f, NEW g, NEW p \in 1 .. Len(input) + 1,
         \A q \in 1 .. Len(input) + 1 : q > p => f[q] = g[q]
  PROVE  Rest(f, p) = Rest(g, p)
<1>1. CASE p > Len(input) \/ input[p] = 34  BY <1>1, Zenon DEF Rest
<1>2. CASE ~ (p > Len(input)) /\ input[p] # 34
  <2>1. p \in 1 .. Len(input)  BY <1>2, LenIs
  <2>2. CASE CharsAt(p) = {}  BY <1>2, <2>2, RestOfNone, Zenon
  <2>3. ASSUME NEW c, NEW n, IsChar(p, c, n) PROVE Rest(f, p) = Rest(g, p)
    <3>1. n \in 1 .. 12 /\ p + n \in 1 .. Len(input) + 1  BY <2>3, Zenon DEF IsChar
    <3>2. p + n > p  BY <2>1, <3>1, LenIs
    <3>3. f[p + n] = g[p + n]  BY <3>1, <3>2, Zenon
    <3>4. Rest(f, p) = Extended(c, f[p + n]) /\ Rest(g, p) = Extended(c, g[p + n])  BY <2>3, RestOfOne, Zenon
    <3>. QED  BY <3>3, <3>4, Zenon
  <2>. QED  BY <1>2, <2>1, <2>2, <2>3, CharSizes, Zenon
<1>. QED  BY <1>1, <1>2, Zenon

\* Defined on the last k places as it should be.
Defined(f, k) ==
  /\ f = [p \in 1 .. Len(input) + 1 |-> f[p]]
  /\ \A p \in 1 .. Len(input) + 1 : p > Len(input) + 1 - k => f[p] = Rest(f, p)

LEMMA DefinedFarther ==
  ASSUME InputOK, NEW k \in Nat, NEW f, Defined(f, k)
  PROVE  \E g : Defined(g, k + 1)
<1>. DEFINE q == Len(input) + 1 - k
            g == [p \in 1 .. Len(input) + 1 |-> IF p = q THEN Rest(f, q) ELSE f[p]]
<1>1. Len(input) \in Nat  BY LenIs
<1>2. \A p \in 1 .. Len(input) + 1 : g[p] = IF p = q THEN Rest(f, q) ELSE f[p]  OBVIOUS
<1>3. g = [p \in 1 .. Len(input) + 1 |-> g[p]]  OBVIOUS
<1>. HIDE DEF g
<1>4. ASSUME NEW p \in 1 .. Len(input) + 1, p > Len(input) + 1 - (k + 1) PROVE g[p] = Rest(g, p)
  <2>1. p >= q  BY <1>1, <1>4
  <2>2. \A r \in 1 .. Len(input) + 1 : r > p => f[r] = g[r]  BY <1>1, <1>2, <2>1
  <2>3. Rest(f, p) = Rest(g, p)  BY <2>2, RestLooksAhead
  <2>4. CASE p = q  BY <1>2, <2>3, <2>4
  <2>5. CASE p # q
    <3>1. p > Len(input) + 1 - k  BY <1>1, <2>1, <2>5
    <3>2. f[p] = Rest(f, p)  BY <3>1 DEF Defined
    <3>. QED  BY <1>2, <2>3, <2>5, <3>2
  <2>. QED  BY <2>4, <2>5
<1>. QED  BY <1>3, <1>4 DEF Defined

LEMMA DefinedEverywhere == ASSUME InputOK, NEW k \in Nat PROVE \E f : Defined(f, k)
<1>. DEFINE Bad == {n \in Nat : ~ \E f : Defined(f, n)}
<1>1. Len(input) \in Nat  BY LenIs
<1>2. 0 \notin Bad
  <2>1. Defined([p \in 1 .. Len(input) + 1 |-> {}], 0)  BY <1>1 DEF Defined
  <2>. QED  BY <2>1
<1>3. ASSUME Bad # {} PROVE FALSE
  <2>1. PICK n \in Bad : \A m \in Bad : n <= m  BY <1>3, Least
  <2>2. n \in Nat /\ n # 0 /\ n - 1 \in Nat /\ n - 1 \notin Bad  BY <1>2, <2>1
  <2>3. PICK f : Defined(f, n - 1)  BY <2>2
  <2>4. \E g : Defined(g, (n - 1) + 1)  BY <2>2, <2>3, DefinedFarther
  <2>5. (n - 1) + 1 = n  BY <2>2
  <2>. QED  BY <2>1, <2>4, <2>5
<1>. QED  BY <1>3

LEMMA FromIs == ASSUME InputOK PROVE IsFrom(From)
<1>1. Len(input) \in Nat  BY LenIs
<1>2. PICK f : Defined(f, Len(input) + 1)  BY <1>1, DefinedEverywhere
<1>3. \A p \in 1 .. Len(input) + 1 : f[p] = Rest(f, p)  BY <1>1, <1>2 DEF Defined
<1>4. IsFrom(f)  BY <1>2, <1>3 DEF Defined, IsFrom
<1>. QED  BY <1>4 DEF From

LEMMA FromStep ==
  ASSUME InputOK, NEW p \in 1 .. Len(input) + 1
  PROVE  From[p] = Rest(From, p)
<1>1. IsFrom(From)  BY FromIs
<1>. QED  BY <1>1, Zenon DEF IsFrom

\* The places where nothing goes on.
LEMMA FromEnds ==
  ASSUME InputOK, NEW p \in 1 .. Len(input) + 1
  PROVE  /\ NoChar(p) => From[p] = {}
         /\ Byte(p) = 34 => From[p] = {<<>>}
<1>1. From[p] = Rest(From, p)  BY FromStep
<1>2. p \in 1 .. Len(input) <=> ~ (p > Len(input))  BY LenIs
<1>3. ASSUME NoChar(p) PROVE From[p] = {}
  <2>1. CASE p > Len(input)  BY <1>1, <2>1, Zenon DEF Rest
  <2>2. CASE ~ (p > Len(input))
    <3>1. input[p] # 34 /\ CharsAt(p) = {}  BY <1>2, <1>3, <2>2, Zenon DEF NoChar
    <3>. QED  BY <1>1, <3>1, RestOfNone, Zenon
  <2>. QED  BY <2>1, <2>2, Zenon
<1>4. ASSUME Byte(p) = 34 PROVE From[p] = {<<>>}
  <2>1. Byte(p) # 0  BY <1>4
  <2>2. p \in 1 .. Len(input) /\ input[p] = Byte(p)  BY <2>1, InDocument, Zenon
  <2>. QED  BY <1>1, <1>2, <1>4, <2>2, Zenon DEF Rest
<1>. QED  BY <1>3, <1>4, Zenon

LEMMA FromOne ==
  ASSUME InputOK, NEW p, NEW c, NEW n, IsChar(p, c, n)
  PROVE  From[p] = Extended(c, From[p + n])
<1>1. p \in 1 .. Len(input) + 1
  <2>1. p \in 1 .. Len(input)  BY Zenon DEF IsChar
  <2>. QED  BY <2>1, LenIs
<1>2. From[p] = Rest(From, p)  BY <1>1, FromStep, Zenon
<1>3. Rest(From, p) = Extended(c, From[p + n])  BY RestOfOne, Zenon
<1>. QED  BY <1>2, <1>3, Zenon

Readings == Seq(Nat)

LEMMA OneType == \A c \in Nat : <<c>> \in Seq(Nat)
  OBVIOUS

LEMMA ExtendedType ==
  ASSUME NEW c \in Nat, NEW R \in SUBSET Readings
  PROVE  Extended(c, R) \in SUBSET Readings
<1>1. ASSUME NEW r \in R PROVE <<c>> \o r \in Readings
  <2>1. r \in Seq(Nat)  BY DEF Readings
  <2>2. <<c>> \o r \in Seq(Nat)  BY <2>1, OneType, ConcatProperties
  <2>. QED  BY <2>2, Zenon DEF Readings
<1>. QED  BY <1>1, Zenon DEF Extended

LEMMA CharCode == ASSUME NEW p, NEW c, NEW n, IsChar(p, c, n) PROVE c \in Nat /\ c \in Unicode
<1>1. c \in Unicode  BY Zenon DEF IsChar
<1>. QED  BY <1>1, UnicodeIs, SMT

LEMMA FromType ==
  ASSUME InputOK, NEW p \in 1 .. Len(input) + 1
  PROVE  From[p] \in SUBSET Readings
<1>. DEFINE end == Len(input) + 1
            Bad == {n \in Nat : n < end /\ From[end - n] \notin SUBSET Readings}
<1>1. Len(input) \in Nat  BY LenIs
<1>2. ASSUME Bad # {} PROVE FALSE
  <2>1. PICK n \in Bad : \A m \in Bad : n <= m  BY <1>2, Least
  <2>2. n \in Nat /\ n < end /\ From[end - n] \notin SUBSET Readings  BY <2>1
  <2>3. PICK q \in 1 .. end : q = end - n  BY <1>1, <2>2
  <2>4. ~ NoChar(q)
    <3>1. SUFFICES ASSUME NoChar(q) PROVE FALSE  OBVIOUS
    <3>2. From[q] = {}  BY <3>1, FromEnds, Zenon
    <3>. QED  BY <2>2, <2>3, <3>2, Zenon
  <2>5. q \in 1 .. Len(input) /\ (input[q] # 34 => CharsAt(q) # {})  BY <2>4, Zenon DEF NoChar
  <2>6. input[q] # 34
    <3>1. SUFFICES ASSUME input[q] = 34 PROVE FALSE  OBVIOUS
    <3>2. Byte(q) = 34  BY <2>5, <3>1, InputType
    <3>3. From[q] = {<<>>}  BY <3>2, FromEnds, Zenon
    <3>4. <<>> \in Readings  BY DEF Readings
    <3>. QED  BY <2>2, <2>3, <3>3, <3>4, Zenon
  <2>7. PICK c, z : IsChar(q, c, z)  BY <2>5, <2>6, CharSizes, Zenon
  <2>8. z \in Nat /\ z >= 1 /\ q + z <= Len(input) + 1
    <3>1. z \in 1 .. 12 /\ q + z \in 1 .. Len(input) + 1  BY <2>7, Zenon DEF IsChar
    <3>. QED  BY <1>1, <3>1
  <2>9. From[q] = Extended(c, From[q + z])  BY <2>7, FromOne, Zenon
  <2>10. From[q + z] \in SUBSET Readings
    <3>1. PICK m \in Nat : m = n - z /\ m < n /\ m < end /\ end - m = q + z
      BY <1>1, <2>2, <2>3, <2>8
    <3>2. m \notin Bad  BY <2>1, <3>1
    <3>. QED  BY <3>1, <3>2
  <2>11. From[q] \in SUBSET Readings
    <3>1. PICK R \in SUBSET Readings : R = From[q + z]  BY <2>10
    <3>2. c \in Nat  BY <2>7, CharCode, Zenon
    <3>3. Extended(c, R) \in SUBSET Readings  BY <3>2, ExtendedType, Zenon
    <3>. QED  BY <2>9, <3>1, <3>3, Zenon
  <2>. QED  BY <2>2, <2>3, <2>11, Zenon
<1>3. PICK n \in Nat : n < end /\ p = end - n
  <2>1. end - p \in Nat /\ end - p < end /\ p = end - (end - p)  BY <1>1
  <2>. QED  BY <2>1
<1>4. n \notin Bad  BY <1>2
<1>. QED  BY <1>3, <1>4

-----------------------------------------------------------------------------
(* The readings R behind the characters a.                                 *)

Prefixed(a, R) == {a \o rest : rest \in R}

LEMMA JoinsAlike ==
  ASSUME NEW s \in Seq(Nat), NEW t \in Seq(Nat), NEW u \in Seq(Nat)
  PROVE  (s \o t) \o u = s \o (t \o u)
<1>1. s \o t \in Seq(Nat) /\ t \o u \in Seq(Nat)  BY ConcatProperties
<1>2. (s \o t) \o u \in Seq(Nat) /\ s \o (t \o u) \in Seq(Nat)  BY <1>1, ConcatProperties
<1>3. Len(s) \in Nat /\ Len(t) \in Nat /\ Len(u) \in Nat  OBVIOUS
<1>4. Len((s \o t) \o u) = Len(s) + Len(t) + Len(u) /\ Len(s \o (t \o u)) = Len(s) + Len(t) + Len(u)
  BY <1>1, <1>3, ConcatProperties
<1>5. \A i \in 1 .. Len(s) + Len(t) + Len(u) : ((s \o t) \o u)[i] = (s \o (t \o u))[i]
  BY <1>1, <1>3, ConcatProperties
<1>. QED  BY <1>2, <1>4, <1>5, SeqEqual

LEMMA PrefixStep ==
  ASSUME NEW a \in Seq(Nat), NEW c \in Nat, NEW R \in SUBSET Readings
  PROVE  Prefixed(a, Extended(c, R)) = Prefixed(a \o <<c>>, R)
<1>. DEFINE Ext(r) == <<c>> \o r
            Pre(r) == a \o r
            Both(r) == (a \o <<c>>) \o r
<1>1. ASSUME NEW r \in R PROVE Pre(Ext(r)) = Both(r)
  <2>1. PICK one \in Seq(Nat) : one = <<c>>  BY OneType
  <2>2. r \in Seq(Nat)  BY DEF Readings
  <2>3. (a \o one) \o r = a \o (one \o r)  BY <2>2, JoinsAlike, Zenon
  <2>. QED  BY <2>1, <2>3, Zenon
<1>2. Extended(c, R) = {Ext(r) : r \in R}  BY DEF Extended
<1>3. Prefixed(a, Extended(c, R)) = {Pre(x) : x \in {Ext(r) : r \in R}}  BY <1>2, Zenon DEF Prefixed
<1>4. Prefixed(a \o <<c>>, R) = {Both(r) : r \in R}  BY Zenon DEF Prefixed
<1>. HIDE DEF Ext, Pre, Both
<1>5. {Pre(x) : x \in {Ext(r) : r \in R}} = {Both(r) : r \in R}  BY <1>1, SMT
<1>. QED  BY <1>3, <1>4, <1>5, Zenon

\* Reading one character from p on.
LEMMA ReadOne ==
  ASSUME InputOK, NEW p, NEW c, NEW n, IsChar(p, c, n), NEW a \in Seq(Nat)
  PROVE  Prefixed(a, From[p]) = Prefixed(a \o <<c>>, From[p + n])
<1>1. p + n \in 1 .. Len(input) + 1  BY Zenon DEF IsChar
<1>2. PICK R \in SUBSET Readings : R = From[p + n]  BY <1>1, FromType
<1>3. From[p] = Extended(c, R)  BY <1>2, FromOne, Zenon
<1>4. c \in Nat  BY CharCode, Zenon
<1>5. Prefixed(a, Extended(c, R)) = Prefixed(a \o <<c>>, R)  BY <1>4, PrefixStep
<1>. QED  BY <1>2, <1>3, <1>5, Zenon

LEMMA ReadPlain ==
  ASSUME InputOK, NEW p \in 1 .. Len(input), ~ IsStop(input[p]), NEW a \in Seq(Nat)
  PROVE  Prefixed(a, From[p]) = Prefixed(a \o <<input[p]>>, From[p + 1])
<1>1. p \in 1 .. Len(input) + 1 /\ input[p] = Byte(p)  BY InputType
<1>2. IsChar(p, input[p], 1)  BY <1>1, PlainIs, Zenon
<1>. QED  BY <1>2, ReadOne, Zenon

\* Reading n characters that stand for themselves.
LEMMA ReadRun ==
  ASSUME InputOK, NEW p \in 1 .. Len(input) + 1, NEW n \in Nat, p + n <= Len(input) + 1,
         \A i \in p .. p + n - 1 : ~ IsStop(input[i]),
         NEW a \in Seq(Nat)
  PROVE  Prefixed(a, From[p]) = Prefixed(a \o SubSeq(input, p, p + n - 1), From[p + n])
<1>. DEFINE Read(m) == Prefixed(a, From[p]) = Prefixed(a \o SubSeq(input, p, p + m - 1), From[p + m])
            Bad == {m \in Nat : m <= n /\ ~ Read(m)}
<1>1. Len(input) \in Nat /\ input \in Seq(Nat) /\ \A i \in 1 .. Len(input) : input[i] \in Nat
  BY InputType
<1>2. ASSUME NEW m \in Nat, m <= n PROVE SubSeq(input, p, p + m - 1) \in Seq(Nat)
  <2>1. \A i \in p .. p + m - 1 : input[i] \in Nat  BY <1>1, <1>2
  <2>. QED  BY <2>1, SubSeqProperties
<1>3. Read(0)
  <2>1. SubSeq(input, p, p + 0 - 1) = <<>> /\ p + 0 = p  BY SubSeqEmpty
  <2>2. a \o <<>> = a  BY ConcatEmptySeq
  <2>. QED  BY <2>1, <2>2, Zenon
<1>4. ASSUME NEW m \in Nat, m < n, Read(m) PROVE Read(m + 1)
  <2>1. PICK q \in 1 .. Len(input) : q = p + m /\ ~ IsStop(input[q])  BY <1>1, <1>4
  <2>2. PICK s \in Seq(Nat) : s = SubSeq(input, p, p + m - 1)
    <3>1. m <= n  BY <1>4
    <3>2. SubSeq(input, p, p + m - 1) \in Seq(Nat)  BY <1>2, <3>1
    <3>. QED  BY <3>2, Zenon
  <2>3. a \o s \in Seq(Nat)  BY <2>2, ConcatProperties
  <2>4. PICK b \in Seq(Nat) : b = a \o s  BY <2>3
  <2>5. Prefixed(b, From[q]) = Prefixed(b \o <<input[q]>>, From[q + 1])  BY <2>1, ReadPlain
  <2>6. b \o <<input[q]>> = a \o SubSeq(input, p, p + (m + 1) - 1)
    <3>1. SubSeq(input, p, p + (m + 1) - 1) = s \o <<input[q]>>
      <4>1. p \in 1 .. Len(input) /\ q \in p .. Len(input)  BY <1>1, <2>1
      <4>2. SubSeq(input, p, q) = SubSeq(input, p, q - 1) \o <<input[q]>>
        BY <1>1, <4>1, SubSeqRecursiveSecond
      <4>3. p + (m + 1) - 1 = q /\ p + m - 1 = q - 1  BY <2>1
      <4>. QED  BY <2>2, <4>2, <4>3, Zenon
    <3>2. input[q] \in Nat  BY <1>1
    <3>3. <<input[q]>> \in Seq(Nat)  BY <3>2, OneType, Zenon
    <3>4. PICK one \in Seq(Nat) : one = <<input[q]>>  BY <3>3, Zenon
    <3>5. (a \o s) \o one = a \o (s \o one)  BY JoinsAlike
    <3>. QED  BY <2>4, <3>1, <3>4, <3>5, Zenon
  <2>7. q + 1 = p + (m + 1)  BY <2>1
  <2>. QED  BY <1>4, <2>1, <2>2, <2>4, <2>5, <2>6, <2>7, Zenon
<1>. HIDE DEF Read
<1>5. ASSUME Bad # {} PROVE FALSE
  <2>1. PICK m \in Bad : \A k \in Bad : m <= k  BY <1>5, Least
  <2>2. m \in Nat /\ m <= n /\ ~ Read(m) /\ m # 0  BY <1>3, <2>1
  <2>3. PICK k \in Nat : m = k + 1 /\ k < n  BY <2>2
  <2>4. k \notin Bad  BY <2>1, <2>3
  <2>5. Read(k)  BY <2>3, <2>4
  <2>. QED  BY <1>4, <2>2, <2>3, <2>5
<1>6. Read(n)  BY <1>5
<1>. QED  BY <1>6 DEF Read

\* Behind nothing, and with nothing behind.
LEMMA PrefixedByNone == ASSUME NEW R \in SUBSET Readings PROVE Prefixed(<<>>, R) = R
<1>1. ASSUME NEW r \in R PROVE <<>> \o r = r
  <2>1. r \in Seq(Nat)  BY DEF Readings
  <2>. QED  BY <2>1, ConcatEmptySeq
<1>. QED  BY <1>1, Zenon DEF Prefixed

LEMMA PrefixedToEnd == ASSUME NEW a \in Seq(Nat) PROVE Prefixed(a, {<<>>}) = {a}
<1>1. a \o <<>> = a  BY ConcatEmptySeq
<1>. QED  BY <1>1, Zenon DEF Prefixed

LEMMA PrefixedNone == ASSUME NEW a PROVE Prefixed(a, {}) = {}
  BY DEF Prefixed

-----------------------------------------------------------------------------
(* The run of bytes that are no stop.                                      *)

IsRun(p, n) ==
  /\ n \in Nat /\ p + n \in 1 .. Len(input) + 1 /\ IsStop(Byte(p + n))
  /\ \A i \in p .. p + n - 1 : i \in 1 .. Len(input) /\ ~ IsStop(input[i])

LEMMA RunIs == ASSUME InputOK, NEW p \in 1 .. Len(input) + 1 PROVE IsRun(p, RunFrom(p))
<1>. DEFINE Stops == {n \in Nat : p + n <= Len(input) + 1 /\ IsStop(Byte(p + n))}
            Found(n) == IsStop(Byte(p + n)) /\ \A k \in 0 .. n - 1 : ~IsStop(Byte(p + k))
<1>1. Len(input) \in Nat  BY LenIs
<1>2. \E n \in 0 .. Len(input) + 1 : Found(n)
  <2>1. Stops # {}
    <3>1. IsStop(0)  BY DEF IsStop
    <3>2. Byte(Len(input) + 1) = 0  BY InputType, Zenon
    <3>3. Len(input) + 1 - p \in Nat /\ p + (Len(input) + 1 - p) = Len(input) + 1  BY <1>1
    <3>4. Len(input) + 1 - p \in Stops  BY <1>1, <3>1, <3>2, <3>3
    <3>. QED  BY <3>4
  <2>2. PICK n \in Stops : \A m \in Stops : n <= m  BY <2>1, Least
  <2>3. n \in 0 .. Len(input) + 1  BY <1>1, <2>2
  <2>4. \A k \in 0 .. n - 1 : ~ IsStop(Byte(p + k))
    <3>1. TAKE k \in 0 .. n - 1
    <3>2. k \in Nat /\ p + k <= Len(input) + 1 /\ ~ (n <= k)  BY <1>1, <2>2
    <3>3. k \notin Stops  BY <2>2, <3>2
    <3>. QED  BY <3>2, <3>3
  <2>. QED  BY <2>2, <2>3, <2>4
<1>3. PICK n \in 0 .. Len(input) + 1 : n = RunFrom(p) /\ Found(n)
  <2>1. RunFrom(p) \in 0 .. Len(input) + 1 /\ Found(RunFrom(p))  BY <1>2, Zenon DEF RunFrom
  <2>. QED  BY <2>1, Zenon
<1>4. p + n <= Len(input) + 1
  <2>1. SUFFICES ASSUME p + n > Len(input) + 1 PROVE FALSE  BY <1>1, <1>3
  <2>2. Len(input) + 1 - p \in 0 .. n - 1 /\ p + (Len(input) + 1 - p) = Len(input) + 1  BY <1>1, <1>3, <2>1
  <2>3. ~ IsStop(Byte(Len(input) + 1))  BY <1>3, <2>2, Zenon
  <2>4. Byte(Len(input) + 1) = 0  BY InputType, Zenon
  <2>5. IsStop(0)  BY DEF IsStop
  <2>. QED  BY <2>3, <2>4, <2>5, Zenon
<1>5. \A i \in p .. p + n - 1 : i \in 1 .. Len(input) /\ ~ IsStop(input[i])
  <2>1. TAKE i \in p .. p + n - 1
  <2>2. i \in 1 .. Len(input)  BY <1>1, <1>3, <1>4
  <2>3. i - p \in 0 .. n - 1 /\ p + (i - p) = i  BY <1>1, <1>3
  <2>4. ~ IsStop(Byte(i))  BY <1>3, <2>3, Zenon
  <2>5. Byte(i) = input[i]  BY <2>2, InputType, Zenon
  <2>. QED  BY <2>2, <2>4, <2>5, Zenon
<1>6. p + n \in 1 .. Len(input) + 1 /\ n \in Nat  BY <1>1, <1>3, <1>4
<1>. QED  BY <1>3, <1>5, <1>6, Zenon DEF IsRun

-----------------------------------------------------------------------------
(* The temporary buffer.                                                   *)

BufferOK(m) == m \in [0 .. Capacity - 1 -> Octets]

\* What a unit of w bytes can hold; no character needs the last byte of four.
Fits(w, c) ==
  /\ c \in Nat /\ c < 16777216
  /\ w = 1 => c < 256
  /\ w = 2 => c < 65536

\* The bytes of unit d of the width w are in the buffer.
Inside(w, d) == w \in {1, 2, 4} /\ d \in Nat /\ d <= Len(input)

LEMMA InsideIs ==
  ASSUME InputOK, NEW w, NEW d, Inside(w, d), NEW j \in 0 .. 3, j < w
  PROVE  w * d + j \in 0 .. Capacity - 1
<1>1. PICK n \in Nat : n = Len(input)  BY LenIs
<1>2. Capacity = 4 * (n + 1)  BY <1>1 DEF Capacity
<1>3. d \in Nat /\ d <= n /\ w \in {1, 2, 4}  BY <1>1 DEF Inside
<1>4. CASE w = 1  BY <1>2, <1>3, <1>4
<1>5. CASE w = 2  BY <1>2, <1>3, <1>5
<1>6. CASE w = 4  BY <1>2, <1>3, <1>6
<1>. QED  BY <1>3, <1>4, <1>5, <1>6

LEMMA UnitIs ==
  ASSUME InputOK, NEW m, BufferOK(m), NEW w, NEW d, Inside(w, d)
  PROVE  /\ m[w * d] \in Octets
         /\ w > 1 => m[w * d + 1] \in Octets
         /\ w > 2 => m[w * d + 2] \in Octets
         /\ w = 1 => UnitOf(m, w, d) = m[w * d]
         /\ w = 2 => UnitOf(m, w, d) = m[w * d] + 256 * m[w * d + 1]
         /\ w = 4 => UnitOf(m, w, d) = m[w * d] + 256 * m[w * d + 1] + 65536 * m[w * d + 2]
<1>1. w \in {1, 2, 4} /\ w * d \in Nat  BY DEF Inside
<1>2. \A b \in 0 .. Capacity - 1 : m[b] \in Octets  BY Zenon DEF BufferOK
<1>3. m[w * d] \in Octets
  <2>1. w * d + 0 \in 0 .. Capacity - 1 /\ w * d + 0 = w * d  BY <1>1, InsideIs
  <2>. QED  BY <1>2, <2>1, Zenon
<1>4. ASSUME w > 1 PROVE m[w * d + 1] \in Octets
  <2>1. w * d + 1 \in 0 .. Capacity - 1  BY <1>4, InsideIs
  <2>. QED  BY <1>2, <2>1, Zenon
<1>5. ASSUME w > 2 PROVE m[w * d + 2] \in Octets
  <2>1. w * d + 2 \in 0 .. Capacity - 1  BY <1>5, InsideIs
  <2>. QED  BY <1>2, <2>1, Zenon
<1>6. \A b \in Octets : b \in Nat  BY SMT DEF Octets
<1>7. CASE w = 1
  <2>1. UnitOf(m, w, d) = m[w * d] + 0 + 0  BY <1>7 DEF UnitOf
  <2>2. m[w * d] \in Nat  BY <1>3, <1>6, Zenon
  <2>3. UnitOf(m, w, d) = m[w * d]  BY <2>1, <2>2
  <2>. QED  BY <1>3, <1>7, <2>3
<1>8. CASE w = 2
  <2>1. UnitOf(m, w, d) = m[w * d] + 256 * m[w * d + 1] + 0  BY <1>8 DEF UnitOf
  <2>2. m[w * d] \in Nat /\ m[w * d + 1] \in Nat
    <3>1. w > 1  BY <1>8
    <3>. QED  BY <1>3, <1>4, <1>6, <3>1, Zenon
  <2>3. UnitOf(m, w, d) = m[w * d] + 256 * m[w * d + 1]  BY <2>1, <2>2
  <2>. QED  BY <1>3, <1>4, <1>8, <2>3
<1>9. CASE w = 4
  <2>1. UnitOf(m, w, d) = m[w * d] + 256 * m[w * d + 1] + 65536 * m[w * d + 2]  BY <1>9, SMT DEF UnitOf
  <2>2. w > 1 /\ w > 2 /\ w # 1 /\ w # 2  BY <1>9
  <2>. QED  BY <1>3, <1>4, <1>5, <1>9, <2>1, <2>2, SMT
<1>. QED  BY <1>1, <1>7, <1>8, <1>9, SMT

LEMMA UnitFits ==
  ASSUME InputOK, NEW m, BufferOK(m), NEW w, NEW d, Inside(w, d)
  PROVE  Fits(w, UnitOf(m, w, d)) /\ UnitOf(m, w, d) \in Nat
<1>1. w \in {1, 2, 4}  BY DEF Inside
<1>2. CASE w = 1
  <2>1. PICK b0 \in Octets : UnitOf(m, w, d) = b0  BY <1>2, UnitIs, SMT
  <2>2. Fits(w, b0) /\ b0 \in Nat  BY <1>2, SMT DEF Fits, Octets
  <2>. QED  BY <2>1, <2>2, Zenon
<1>3. CASE w = 2
  <2>1. PICK b0 \in Octets, b1 \in Octets : UnitOf(m, w, d) = b0 + 256 * b1  BY <1>3, UnitIs, SMT
  <2>2. Fits(w, b0 + 256 * b1) /\ b0 + 256 * b1 \in Nat  BY <1>3, SMT DEF Fits, Octets
  <2>. QED  BY <2>1, <2>2, Zenon
<1>4. CASE w = 4
  <2>1. PICK b0 \in Octets, b1 \in Octets, b2 \in Octets : UnitOf(m, w, d) = b0 + 256 * b1 + 65536 * b2
    BY <1>4, UnitIs, SMT
  <2>2. Fits(w, b0 + 256 * b1 + 65536 * b2) /\ b0 + 256 * b1 + 65536 * b2 \in Nat
    BY <1>4, SMT DEF Fits, Octets
  <2>. QED  BY <2>1, <2>2, SMT
<1>. QED  BY <1>1, <1>2, <1>3, <1>4

LEMMA PlacesAre == Places[1] = 1 /\ Places[2] = 256 /\ Places[3] = 65536 /\ Places[4] = 16777216
  BY SMT DEF Places

\* n is m but for the bytes of unit d.
Holds(m, w, d, c, n) ==
  /\ BufferOK(n)
  /\ \A b \in 0 .. Capacity - 1 :
       /\ b \div w # d => n[b] = m[b]
       /\ b \div w = d => n[b] = (c \div Places[(b % w) + 1]) % 256

LEMMA PutIs ==
  ASSUME InputOK, NEW m, BufferOK(m), NEW w, NEW d, Inside(w, d), NEW c \in Nat
  PROVE  Holds(m, w, d, c, Put(m, w, d, c))
<1>0. w \in {1, 2, 4} /\ d \in Nat  BY DEF Inside
<1>. DEFINE new(b) == IF b \div w = d THEN (c \div Places[(b % w) + 1]) % 256 ELSE m[b]
<1>1. DOMAIN m = 0 .. Capacity - 1  BY DEF BufferOK
<1>2. Put(m, w, d, c) = [b \in 0 .. Capacity - 1 |-> new(b)]  BY <1>1, Zenon DEF Put
<1>3. ASSUME NEW b \in 0 .. Capacity - 1 PROVE new(b) \in Octets
  <2>1. CASE b \div w # d  BY <2>1, Zenon DEF BufferOK
  <2>2. CASE b \div w = d
    <3>1. PICK j \in 0 .. 3 : j = b % w
      <4>1. b \in Nat  BY LenIs DEF Capacity
      <4>2. b % w \in 0 .. 3
        <5>1. CASE w = 1  BY <4>1, <5>1
        <5>2. CASE w = 2  BY <4>1, <5>2
        <5>3. CASE w = 4  BY <4>1, <5>3
        <5>. QED  BY <1>0, <5>1, <5>2, <5>3
      <4>. QED  BY <4>2
    <3>2. PICK x \in Nat : x = c \div Places[j + 1]
      <4>1. CASE j = 0
        <5>1. Places[j + 1] = 1  BY <4>1, PlacesAre, SMT
        <5>2. c \div 1 \in Nat  BY SMT
        <5>. QED  BY <5>1, <5>2, SMT
      <4>2. CASE j = 1
        <5>1. Places[j + 1] = 256  BY <4>2, PlacesAre, SMT
        <5>2. c \div 256 \in Nat  BY SMT
        <5>. QED  BY <5>1, <5>2, SMT
      <4>3. CASE j = 2
        <5>1. Places[j + 1] = 65536  BY <4>3, PlacesAre, SMT
        <5>2. c \div 65536 \in Nat  BY SMT
        <5>. QED  BY <5>1, <5>2, SMT
      <4>4. CASE j = 3
        <5>1. Places[j + 1] = 16777216  BY <4>4, PlacesAre, SMT
        <5>2. c \div 16777216 \in Nat  BY SMT
        <5>. QED  BY <5>1, <5>2, SMT
      <4>. QED  BY <4>1, <4>2, <4>3, <4>4, SMT
    <3>3. new(b) = x % 256  BY <2>2, <3>1, <3>2
    <3>4. x % 256 \in Octets  BY SMT DEF Octets
    <3>. QED  BY <3>3, <3>4, Zenon
  <2>. QED  BY <2>1, <2>2, Zenon
<1>4. BufferOK(Put(m, w, d, c))  BY <1>2, <1>3, Zenon DEF BufferOK
<1>5. \A b \in 0 .. Capacity - 1 : Put(m, w, d, c)[b] = new(b)  BY <1>2, Zenon
<1>. QED  BY <1>4, <1>5, Zenon DEF Holds

\* The unit that is stored is read again.
LEMMA PutRead ==
  ASSUME InputOK, NEW m, BufferOK(m), NEW w, NEW d, Inside(w, d), NEW c, Fits(w, c)
  PROVE  UnitOf(Put(m, w, d, c), w, d) = c
<1>1. w \in {1, 2, 4} /\ d \in Nat /\ c \in Nat  BY SMT DEF Inside, Fits
<1>2. PICK n : n = Put(m, w, d, c) /\ Holds(m, w, d, c, n)  BY <1>1, PutIs, Zenon
<1>3. BufferOK(n)  BY <1>2, Zenon DEF Holds
<1>4. \A b \in 0 .. Capacity - 1 : b \div w = d => n[b] = (c \div Places[(b % w) + 1]) % 256
  BY <1>2, Zenon DEF Holds
<1>5. CASE w = 1
  <2>1. n[w * d] = (c \div Places[1]) % 256
    <3>1. w * d + 0 \in 0 .. Capacity - 1  BY <1>5, InsideIs
    <3>2. (w * d + 0) \div w = d /\ ((w * d + 0) % w) + 1 = 1 /\ w * d + 0 = w * d  BY <1>1, <1>5
    <3>. QED  BY <1>4, <3>1, <3>2, Zenon
  <2>2. (c \div 1) % 256 = c  BY <1>5, SMT DEF Fits
  <2>3. UnitOf(n, w, d) = n[w * d]  BY <1>3, <1>5, UnitIs, SMT
  <2>. QED  BY <1>2, <2>1, <2>2, <2>3, PlacesAre, SMT
<1>6. CASE w = 2
  <2>1. n[w * d] = (c \div Places[1]) % 256
    <3>1. w * d + 0 \in 0 .. Capacity - 1  BY <1>6, InsideIs
    <3>2. (w * d + 0) \div w = d /\ ((w * d + 0) % w) + 1 = 1 /\ w * d + 0 = w * d  BY <1>1, <1>6
    <3>. QED  BY <1>4, <3>1, <3>2, Zenon
  <2>2. n[w * d + 1] = (c \div Places[2]) % 256
    <3>1. w * d + 1 \in 0 .. Capacity - 1  BY <1>6, InsideIs
    <3>2. (w * d + 1) \div w = d /\ ((w * d + 1) % w) + 1 = 2  BY <1>1, <1>6
    <3>. QED  BY <1>4, <3>1, <3>2, Zenon
  <2>3. ((c \div 1) % 256) + 256 * ((c \div 256) % 256) = c  BY <1>6, SMT DEF Fits
  <2>4. UnitOf(n, w, d) = n[w * d] + 256 * n[w * d + 1]  BY <1>3, <1>6, UnitIs, SMT
  <2>. QED  BY <1>2, <2>1, <2>2, <2>3, <2>4, PlacesAre, SMT
<1>7. CASE w = 4
  <2>1. n[w * d] = (c \div Places[1]) % 256
    <3>1. w * d + 0 \in 0 .. Capacity - 1  BY <1>7, InsideIs
    <3>2. (w * d + 0) \div w = d /\ ((w * d + 0) % w) + 1 = 1 /\ w * d + 0 = w * d  BY <1>1, <1>7
    <3>. QED  BY <1>4, <3>1, <3>2, Zenon
  <2>2. n[w * d + 1] = (c \div Places[2]) % 256
    <3>1. w * d + 1 \in 0 .. Capacity - 1  BY <1>7, InsideIs
    <3>2. (w * d + 1) \div w = d /\ ((w * d + 1) % w) + 1 = 2  BY <1>1, <1>7
    <3>. QED  BY <1>4, <3>1, <3>2, Zenon
  <2>3. n[w * d + 2] = (c \div Places[3]) % 256
    <3>1. w * d + 2 \in 0 .. Capacity - 1  BY <1>7, InsideIs
    <3>2. (w * d + 2) \div w = d /\ ((w * d + 2) % w) + 1 = 3  BY <1>1, <1>7
    <3>. QED  BY <1>4, <3>1, <3>2, Zenon
  <2>4. ((c \div 1) % 256) + 256 * ((c \div 256) % 256) + 65536 * ((c \div 65536) % 256) = c
    BY <1>7, SMT DEF Fits
  <2>5. UnitOf(n, w, d) = n[w * d] + 256 * n[w * d + 1] + 65536 * n[w * d + 2]  BY <1>3, <1>7, UnitIs, SMT
  <2>. QED  BY <1>2, <2>1, <2>2, <2>3, <2>4, <2>5, PlacesAre, SMT
<1>. QED  BY <1>1, <1>5, <1>6, <1>7

\* A unit is known by its bytes.
LEMMA UnitSame ==
  ASSUME InputOK, NEW m, BufferOK(m), NEW n, BufferOK(n), NEW w, NEW d, Inside(w, d),
         \A j \in 0 .. 3 : j < w => n[w * d + j] = m[w * d + j]
  PROVE  UnitOf(n, w, d) = UnitOf(m, w, d)
<1>1. w \in {1, 2, 4} /\ d \in Nat  BY DEF Inside
<1>2. n[w * d] = m[w * d]
  <2>1. 0 \in 0 .. 3 /\ 0 < w /\ w * d + 0 = w * d  BY <1>1
  <2>2. n[w * d + 0] = m[w * d + 0]  BY <2>1, Zenon
  <2>. QED  BY <2>1, <2>2, Zenon
<1>3. w > 1 => n[w * d + 1] = m[w * d + 1]
  <2>1. 1 \in 0 .. 3 /\ (w > 1 => 1 < w)  BY <1>1
  <2>. QED  BY <2>1, Zenon
<1>4. w > 2 => n[w * d + 2] = m[w * d + 2]
  <2>1. 2 \in 0 .. 3 /\ (w > 2 => 2 < w)  BY <1>1
  <2>. QED  BY <2>1, Zenon
<1>. QED  BY <1>2, <1>3, <1>4, SMT DEF UnitOf

\* A store leaves the units in front of it, no wider ones, and all of its own
\* width.
LEMMA PutKeeps ==
  ASSUME InputOK, NEW m, BufferOK(m), NEW w, NEW d, Inside(w, d), NEW c \in Nat,
         NEW v, NEW i, Inside(v, i), (v <= w /\ i < d) \/ (v = w /\ i # d)
  PROVE  UnitOf(Put(m, w, d, c), v, i) = UnitOf(m, v, i)
<1>1. w \in {1, 2, 4} /\ v \in {1, 2, 4} /\ d \in Nat /\ i \in Nat  BY DEF Inside
<1>2. PICK n : n = Put(m, w, d, c) /\ Holds(m, w, d, c, n)  BY PutIs, Zenon
<1>3. BufferOK(n)  BY <1>2, Zenon DEF Holds
<1>4. \A b \in 0 .. Capacity - 1 : b \div w # d => n[b] = m[b]  BY <1>2, Zenon DEF Holds
<1>5. ASSUME NEW j \in 0 .. 3, j < v PROVE n[v * i + j] = m[v * i + j]
  <2>1. v * i + j \in 0 .. Capacity - 1  BY <1>5, InsideIs
  <2>2. (v * i + j) \div w # d
    <3>1. CASE w = 1 /\ v = 1  BY <1>1, <1>5, <3>1
    <3>2. CASE w = 2 /\ v = 1  BY <1>1, <1>5, <3>2
    <3>3. CASE w = 2 /\ v = 2  BY <1>1, <1>5, <3>3
    <3>4. CASE w = 4 /\ v = 1  BY <1>1, <1>5, <3>4
    <3>5. CASE w = 4 /\ v = 2  BY <1>1, <1>5, <3>5
    <3>6. CASE w = 4 /\ v = 4  BY <1>1, <1>5, <3>6
    <3>. QED  BY <1>1, <3>1, <3>2, <3>3, <3>4, <3>5, <3>6
  <2>. QED  BY <1>4, <2>1, <2>2, Zenon
<1>6. UnitOf(n, v, i) = UnitOf(m, v, i)  BY <1>3, <1>5, UnitSame
<1>. QED  BY <1>2, <1>6, Zenon

-----------------------------------------------------------------------------
(* The characters that the buffer holds: those of the closed parts are as  *)
(* wide as their part.                                                     *)

WidthIn(u, k1, k2, i) == IF u = 1 \/ i < k1 THEN 1 ELSE IF i < k1 + k2 THEN 2 ELSE u

TextOf(t, m, u, k1, k2, d) ==
  /\ t \in Seq(Nat) /\ Len(t) = d
  /\ \A i \in 0 .. d - 1 : t[i + 1] = UnitOf(m, WidthIn(u, k1, k2, i), i)

Shape(u, d, k1, k2) ==
  /\ u \in {1, 2, 4} /\ d \in Nat /\ d <= Len(input)
  /\ k1 \in Nat /\ k2 \in Nat /\ k1 + k2 <= d
  /\ u # 4 => k2 = 0

LEMMA WidthIs ==
  ASSUME NEW u, NEW d, NEW k1, NEW k2, Shape(u, d, k1, k2), NEW i \in 0 .. d - 1
  PROVE  Inside(WidthIn(u, k1, k2, i), i) /\ WidthIn(u, k1, k2, i) <= u
<1>1. /\ u \in {1, 2, 4} /\ d \in Nat /\ d <= Len(input) /\ k1 \in Nat /\ k2 \in Nat
      /\ k1 + k2 <= d /\ (u # 4 => k2 = 0)
  BY DEF Shape
<1>2. WidthIn(u, k1, k2, i) \in {1, 2, 4} /\ WidthIn(u, k1, k2, i) <= u
  <2>1. CASE u = 1  BY <2>1 DEF WidthIn
  <2>2. CASE u = 2  BY <1>1, <2>2 DEF WidthIn
  <2>3. CASE u = 4  BY <1>1, <2>3 DEF WidthIn
  <2>. QED  BY <1>1, <2>1, <2>2, <2>3
<1>3. i \in Nat /\ i <= d  BY <1>1
<1>4. i <= Len(input)  BY <1>1, <1>3
<1>. QED  BY <1>2, <1>3, <1>4, Zenon DEF Inside

LEMMA Appended ==
  ASSUME NEW t \in Seq(Nat), NEW c \in Nat
  PROVE  /\ t \o <<c>> \in Seq(Nat) /\ Len(t \o <<c>>) = Len(t) + 1
         /\ \A i \in 1 .. Len(t) : (t \o <<c>>)[i] = t[i]
         /\ (t \o <<c>>)[Len(t) + 1] = c
<1>1. PICK one \in Seq(Nat) : one = <<c>> /\ Len(one) = 1 /\ one[1] = c
  <2>1. <<c>> \in Seq(Nat) /\ Len(<<c>>) = 1 /\ <<c>>[1] = c  OBVIOUS
  <2>. QED  BY <2>1, Zenon
<1>2. Len(t) \in Nat  OBVIOUS
<1>3. /\ t \o one \in Seq(Nat) /\ Len(t \o one) = Len(t) + 1
      /\ \A i \in 1 .. Len(t) + 1 : (t \o one)[i] = IF i <= Len(t) THEN t[i] ELSE one[i - Len(t)]
  BY <1>1, ConcatProperties
<1>4. \A i \in 1 .. Len(t) : (t \o one)[i] = t[i]  BY <1>2, <1>3
<1>5. (t \o one)[Len(t) + 1] = c  BY <1>1, <1>2, <1>3
<1>. QED  BY <1>1, <1>3, <1>4, <1>5, Zenon

\* How a store at the end may change the widths.
Goes(u, k1, k2, w, j1, j2, d) ==
  \/ w = u /\ j1 = k1 /\ j2 = k2
  \/ u = 1 /\ w \in {2, 4} /\ j1 = d /\ j2 = k2
  \/ u = 2 /\ w = 4 /\ j1 = k1 /\ j2 = d - k1

LEMMA GoesOn ==
  ASSUME InputOK, NEW u, NEW k1, NEW k2, NEW w, NEW j1, NEW j2, NEW d,
         Shape(u, d, k1, k2), Goes(u, k1, k2, w, j1, j2, d), d + 1 <= Len(input)
  PROVE  /\ Shape(w, d + 1, j1, j2)
         /\ WidthIn(w, j1, j2, d) = w /\ Inside(w, d) /\ d \in Nat /\ u <= w
         /\ \A i \in 0 .. d - 1 : WidthIn(w, j1, j2, i) = WidthIn(u, k1, k2, i)
<1>1. /\ u \in {1, 2, 4} /\ d \in Nat /\ d <= Len(input) /\ k1 \in Nat /\ k2 \in Nat
      /\ k1 + k2 <= d /\ (u # 4 => k2 = 0)
  BY DEF Shape
<1>2. Len(input) \in Nat  BY LenIs
<1>3. CASE w = u /\ j1 = k1 /\ j2 = k2
  <2>1. Shape(w, d + 1, j1, j2)  BY <1>1, <1>2, <1>3 DEF Shape
  <2>2. WidthIn(w, j1, j2, d) = w  BY <1>1, <1>3 DEF WidthIn
  <2>3. Inside(w, d)  BY <1>1, <1>3 DEF Inside
  <2>4. u <= w  BY <1>1, <1>3
  <2>. QED  BY <1>1, <1>3, <2>1, <2>2, <2>3, <2>4, Zenon
<1>4. CASE u = 1 /\ w \in {2, 4} /\ j1 = d /\ j2 = k2
  <2>1. Shape(w, d + 1, j1, j2)  BY <1>1, <1>2, <1>4 DEF Shape
  <2>2. WidthIn(w, j1, j2, d) = w  BY <1>1, <1>4 DEF WidthIn
  <2>3. Inside(w, d)  BY <1>1, <1>4 DEF Inside
  <2>4. \A i \in 0 .. d - 1 : WidthIn(w, j1, j2, i) = WidthIn(u, k1, k2, i)  BY <1>1, <1>4 DEF WidthIn
  <2>5. u <= w  BY <1>1, <1>4
  <2>. QED  BY <1>1, <2>1, <2>2, <2>3, <2>4, <2>5, Zenon
<1>5. CASE u = 2 /\ w = 4 /\ j1 = k1 /\ j2 = d - k1
  <2>1. Shape(w, d + 1, j1, j2)  BY <1>1, <1>2, <1>5 DEF Shape
  <2>2. WidthIn(w, j1, j2, d) = w  BY <1>1, <1>5 DEF WidthIn
  <2>3. Inside(w, d)  BY <1>1, <1>5 DEF Inside
  <2>4. \A i \in 0 .. d - 1 : WidthIn(w, j1, j2, i) = WidthIn(u, k1, k2, i)  BY <1>1, <1>5 DEF WidthIn
  <2>5. u <= w  BY <1>1, <1>5
  <2>. QED  BY <1>1, <2>1, <2>2, <2>3, <2>4, <2>5, Zenon
<1>. QED  BY <1>3, <1>4, <1>5, Zenon DEF Goes

\* A character is stored behind the others.
LEMMA TextAppend ==
  ASSUME InputOK, NEW m, BufferOK(m), NEW t, NEW u, NEW k1, NEW k2, NEW w, NEW j1, NEW j2, NEW d,
         Shape(u, d, k1, k2), Goes(u, k1, k2, w, j1, j2, d), d + 1 <= Len(input),
         TextOf(t, m, u, k1, k2, d), NEW c, Fits(w, c)
  PROVE  TextOf(t \o <<c>>, Put(m, w, d, c), w, j1, j2, d + 1)
<1>1. c \in Nat  BY SMT DEF Fits
<1>2. /\ WidthIn(w, j1, j2, d) = w /\ Inside(w, d) /\ d \in Nat /\ u <= w
      /\ \A i \in 0 .. d - 1 : WidthIn(w, j1, j2, i) = WidthIn(u, k1, k2, i)
  BY GoesOn
<1>3. t \in Seq(Nat) /\ Len(t) = d /\ \A i \in 0 .. d - 1 : t[i + 1] = UnitOf(m, WidthIn(u, k1, k2, i), i)
  BY Zenon DEF TextOf
<1>4. PICK n : n = Put(m, w, d, c)  OBVIOUS
<1>5. UnitOf(n, w, d) = c  BY <1>2, <1>4, PutRead, Zenon
<1>6. ASSUME NEW i \in 0 .. d - 1
      PROVE  UnitOf(n, WidthIn(w, j1, j2, i), i) = t[i + 1]
  <2>1. PICK v : v = WidthIn(u, k1, k2, i) /\ v = WidthIn(w, j1, j2, i)  BY <1>2, Zenon
  <2>2. Inside(v, i) /\ v <= u  BY <2>1, WidthIs, Zenon
  <2>3. v <= w /\ i < d
    <3>1. v \in {1, 2, 4} /\ w \in {1, 2, 4} /\ u \in {1, 2, 4}  BY <1>2, <2>2 DEF Inside, Shape
    <3>. QED  BY <1>2, <2>2, <3>1
  <2>4. UnitOf(Put(m, w, d, c), v, i) = UnitOf(m, v, i)
    <3>1. (v <= w /\ i < d) \/ (v = w /\ i # d)  BY <2>3, Zenon
    <3>. QED  BY <1>1, <1>2, <2>2, <3>1, PutKeeps
  <2>. QED  BY <1>3, <1>4, <2>1, <2>4, Zenon
<1>7. PICK s : s = t \o <<c>>  OBVIOUS
<1>8. s \in Seq(Nat) /\ Len(s) = d + 1 /\ (\A i \in 1 .. d : s[i] = t[i]) /\ s[d + 1] = c
  <2>1. /\ t \o <<c>> \in Seq(Nat) /\ Len(t \o <<c>>) = Len(t) + 1
        /\ \A i \in 1 .. Len(t) : (t \o <<c>>)[i] = t[i]
        /\ (t \o <<c>>)[Len(t) + 1] = c
    BY <1>1, <1>3, Appended, Zenon
  <2>. QED  BY <1>3, <1>7, <2>1, Zenon
<1>9. ASSUME NEW i \in 0 .. (d + 1) - 1
      PROVE  s[i + 1] = UnitOf(n, WidthIn(w, j1, j2, i), i)
  <2>1. CASE i = d  BY <1>2, <1>5, <1>8, <2>1, Zenon
  <2>2. CASE i # d
    <3>1. i \in 0 .. d - 1 /\ i + 1 \in 1 .. d  BY <1>2, <2>2
    <3>. QED  BY <1>6, <1>8, <3>1, Zenon
  <2>. QED  BY <2>1, <2>2, Zenon
<1>. QED  BY <1>4, <1>7, <1>8, <1>9, Zenon DEF TextOf

\* A run of bytes is stored behind the others.
LEMMA TextRun ==
  ASSUME InputOK, BufferOK(mem), dst \in Nat, src \in 1 .. Len(input) + 1,
         NEW n, IsRun(src, n), dst < src, NEW size \in Nat, n <= size,
         NEW t, NEW k1, NEW k2, NEW j1, NEW j2, TextOf(t, mem, 1, k1, k2, dst)
  PROVE  /\ BufferOK(Copied(size))
         /\ TextOf(t \o SubSeq(input, src, src + n - 1), Copied(size), 1, j1, j2, dst + n)
<1>. DEFINE new(b) == IF b >= dst /\ b < dst + size THEN Byte(src + b - dst) ELSE mem[b]
<1>1. PICK l \in Nat : l = Len(input)  BY LenIs
<1>2. /\ n \in Nat /\ src + n <= l + 1
      /\ \A i \in src .. src + n - 1 : i \in 1 .. l /\ input[i] = Byte(i) /\ input[i] \in Nat
  BY <1>1, InputType DEF IsRun
<1>3. DOMAIN mem = 0 .. Capacity - 1 /\ \A b \in 0 .. Capacity - 1 : mem[b] \in Octets  BY Zenon DEF BufferOK
<1>4. Copied(size) = [b \in 0 .. Capacity - 1 |-> new(b)]  BY <1>3, Zenon DEF Copied
<1>5. \A b \in 0 .. Capacity - 1 : new(b) \in Octets
  <2>1. TAKE b \in 0 .. Capacity - 1
  <2>2. CASE b >= dst /\ b < dst + size
    <3>1. src + b - dst \in Nat /\ src + b - dst >= 1  BY <1>1, <2>2, LenIs DEF Capacity
    <3>2. Byte(src + b - dst) \in Octets  BY <3>1, InputType, Zenon
    <3>. QED  BY <2>2, <3>2, Zenon
  <2>3. CASE ~ (b >= dst /\ b < dst + size)  BY <1>3, <2>3, Zenon
  <2>. QED  BY <2>2, <2>3, Zenon
<1>6. BufferOK(Copied(size))  BY <1>4, <1>5, Zenon DEF BufferOK
<1>7. PICK m : m = Copied(size) /\ BufferOK(m) /\ \A b \in 0 .. Capacity - 1 : m[b] = new(b)
  <2>1. \A b \in 0 .. Capacity - 1 : Copied(size)[b] = new(b)  BY <1>4, Zenon
  <2>. QED  BY <1>6, <2>1, Zenon
<1>8. \A i \in 0 .. dst + n - 1 : i \in 0 .. Capacity - 1 /\ Inside(1, i)
  <2>1. \A i \in 0 .. dst + n - 1 : i \in Nat /\ i <= l  BY <1>1, <1>2
  <2>2. Capacity = 4 * (l + 1)  BY <1>1 DEF Capacity
  <2>3. \A i \in 0 .. dst + n - 1 : i \in 0 .. Capacity - 1  BY <1>1, <2>1, <2>2
  <2>4. 1 \in {1, 2, 4}  OBVIOUS
  <2>. QED  BY <1>1, <2>1, <2>3, <2>4, Zenon DEF Inside
<1>9. \A i \in 0 .. dst + n - 1 : UnitOf(m, 1, i) = m[i] /\ UnitOf(mem, 1, i) = mem[i]
  <2>1. TAKE i \in 0 .. dst + n - 1
  <2>2. Inside(1, i) /\ 1 * i = i  BY <1>2, <1>8
  <2>3. UnitOf(m, 1, i) = m[1 * i]  BY <1>7, <2>2, UnitIs, SMT
  <2>4. UnitOf(mem, 1, i) = mem[1 * i]  BY <2>2, UnitIs, SMT
  <2>. QED  BY <2>2, <2>3, <2>4, Zenon
<1>10. \A v1, v2, i : WidthIn(1, v1, v2, i) = 1  BY DEF WidthIn
<1>11. t \in Seq(Nat) /\ Len(t) = dst /\ \A i \in 0 .. dst - 1 : t[i + 1] = UnitOf(mem, 1, i)
  BY <1>10, Zenon DEF TextOf
<1>12. PICK r \in Seq(Nat) :
         /\ r = SubSeq(input, src, src + n - 1) /\ Len(r) = n
         /\ \A i \in 1 .. n : r[i] = input[src + i - 1]
  <2>1. \A i \in src .. src + n - 1 : input[i] \in Nat  BY <1>2
  <2>2. src \in Int /\ src + n - 1 \in Int  BY <1>1, <1>2
  <2>3. /\ SubSeq(input, src, src + n - 1) \in Seq(Nat)
        /\ Len(SubSeq(input, src, src + n - 1)) = IF src <= src + n - 1 THEN (src + n - 1) - src + 1 ELSE 0
        /\ \A i \in 1 .. (src + n - 1) - src + 1 : SubSeq(input, src, src + n - 1)[i] = input[src + i - 1]
    BY <2>1, <2>2, SubSeqProperties
  <2>4. (src + n - 1) - src + 1 = n /\ (IF src <= src + n - 1 THEN (src + n - 1) - src + 1 ELSE 0) = n
    BY <1>1, <1>2
  <2>. QED  BY <2>3, <2>4, Zenon
<1>13. PICK s \in Seq(Nat) :
         /\ s = t \o r /\ Len(s) = dst + n
         /\ \A i \in 1 .. dst + n : s[i] = IF i <= dst THEN t[i] ELSE r[i - dst]
  <2>1. /\ t \o r \in Seq(Nat) /\ Len(t \o r) = Len(t) + Len(r)
        /\ \A i \in 1 .. Len(t) + Len(r) : (t \o r)[i] = IF i <= Len(t) THEN t[i] ELSE r[i - Len(t)]
    BY <1>11, <1>12, ConcatProperties
  <2>2. Len(t) = dst /\ Len(r) = n  BY <1>11, <1>12
  <2>. QED  BY <2>1, <2>2, Zenon
<1>14. \A i \in 0 .. dst + n - 1 : s[i + 1] = UnitOf(m, 1, i)
  <2>. TAKE i \in 0 .. dst + n - 1
  <2>1. i \in 0 .. Capacity - 1 /\ i + 1 \in 1 .. dst + n  BY <1>2, <1>8
  <2>2. CASE i < dst
    <3>1. i \in 0 .. dst - 1 /\ i + 1 <= dst /\ ~ (i >= dst)  BY <1>2, <2>2
    <3>2. s[i + 1] = t[i + 1]  BY <1>13, <2>1, <3>1, Zenon
    <3>3. m[i] = mem[i]  BY <1>7, <2>1, <3>1, Zenon
    <3>. QED  BY <1>9, <1>11, <3>1, <3>2, <3>3, Zenon
  <2>3. CASE ~ (i < dst)
    <3>1. /\ i >= dst /\ i < dst + size /\ ~ (i + 1 <= dst) /\ (i + 1) - dst \in 1 .. n
          /\ src + ((i + 1) - dst) - 1 = src + i - dst /\ src + i - dst \in src .. src + n - 1
      BY <1>1, <1>2, <2>3
    <3>2. s[i + 1] = r[(i + 1) - dst]  BY <1>13, <2>1, <3>1, Zenon
    <3>3. r[(i + 1) - dst] = input[src + i - dst]  BY <1>12, <3>1, Zenon
    <3>4. input[src + i - dst] = Byte(src + i - dst)  BY <1>2, <3>1, Zenon
    <3>5. m[i] = Byte(src + i - dst)  BY <1>7, <2>1, <3>1, Zenon
    <3>. QED  BY <1>9, <3>2, <3>3, <3>4, <3>5, Zenon
  <2>. QED  BY <2>2, <2>3, Zenon
<1>15. TextOf(s, m, 1, j1, j2, dst + n)
  <2>1. PICK e : e = dst + n  OBVIOUS
  <2>2. s \in Seq(Nat) /\ Len(s) = e  BY <1>13, <2>1
  <2>3. ASSUME NEW i \in 0 .. e - 1 PROVE s[i + 1] = UnitOf(m, WidthIn(1, j1, j2, i), i)
    <3>1. i \in 0 .. dst + n - 1  BY <1>2, <2>1
    <3>2. s[i + 1] = UnitOf(m, 1, i)  BY <1>14, <3>1
    <3>3. WidthIn(1, j1, j2, i) = 1  BY <1>10, Zenon
    <3>. QED  BY <3>2, <3>3, Zenon
  <2>4. TextOf(s, m, 1, j1, j2, e)  BY <2>2, <2>3, Zenon DEF TextOf
  <2>. QED  BY <2>1, <2>4, Zenon
<1>. QED  BY <1>6, <1>7, <1>12, <1>13, <1>15, Zenon

\* The last unit that is narrow is made as wide as the others behind it.
LEMMA TextWidened ==
  ASSUME InputOK, NEW m, BufferOK(m), NEW t, NEW u, NEW k1, NEW k2, NEW j1, NEW j2, NEW d, NEW e,
         Shape(u, d, k1, k2), TextOf(t, m, u, k1, k2, d),
         \/ k2 > 0 /\ e = k1 + k2 - 1 /\ j1 = k1 /\ j2 = k2 - 1
         \/ u > 1 /\ k2 = 0 /\ k1 > 0 /\ e = k1 - 1 /\ j1 = k1 - 1 /\ j2 = k2
  PROVE  /\ BufferOK(Put(m, u, e, UnitOf(m, WidthIn(u, k1, k2, e), e)))
         /\ TextOf(t, Put(m, u, e, UnitOf(m, WidthIn(u, k1, k2, e), e)), u, j1, j2, d)
         /\ Shape(u, d, j1, j2)
<1>1. /\ u \in {1, 2, 4} /\ d \in Nat /\ d <= Len(input) /\ k1 \in Nat /\ k2 \in Nat
      /\ k1 + k2 <= d /\ (u # 4 => k2 = 0)
  BY DEF Shape
<1>2. Len(input) \in Nat  BY LenIs
<1>3. e \in 0 .. d - 1 /\ Shape(u, d, j1, j2) /\ WidthIn(u, j1, j2, e) = u
  <2>1. CASE k2 > 0 /\ e = k1 + k2 - 1 /\ j1 = k1 /\ j2 = k2 - 1
    <3>1. e \in 0 .. d - 1  BY <1>1, <2>1
    <3>2. Shape(u, d, j1, j2)  BY <1>1, <2>1 DEF Shape
    <3>3. WidthIn(u, j1, j2, e) = u  BY <1>1, <2>1 DEF WidthIn
    <3>. QED  BY <3>1, <3>2, <3>3
  <2>2. CASE u > 1 /\ k2 = 0 /\ k1 > 0 /\ e = k1 - 1 /\ j1 = k1 - 1 /\ j2 = k2
    <3>1. e \in 0 .. d - 1  BY <1>1, <2>2
    <3>2. Shape(u, d, j1, j2)  BY <1>1, <2>2 DEF Shape
    <3>3. WidthIn(u, j1, j2, e) = u  BY <1>1, <2>2 DEF WidthIn
    <3>. QED  BY <3>1, <3>2, <3>3
  <2>. QED  BY <2>1, <2>2
<1>4. \A i \in 0 .. d - 1 : i # e => /\ WidthIn(u, j1, j2, i) = WidthIn(u, k1, k2, i)
                                     /\ i < e \/ WidthIn(u, k1, k2, i) = u
  <2>1. TAKE i \in 0 .. d - 1
  <2>2. CASE k2 > 0 /\ e = k1 + k2 - 1 /\ j1 = k1 /\ j2 = k2 - 1  BY <1>1, <2>2 DEF WidthIn
  <2>3. CASE u > 1 /\ k2 = 0 /\ k1 > 0 /\ e = k1 - 1 /\ j1 = k1 - 1 /\ j2 = k2  BY <1>1, <2>3 DEF WidthIn
  <2>. QED  BY <2>2, <2>3
<1>5. PICK v : v = WidthIn(u, k1, k2, e) /\ Inside(v, e) /\ v <= u  BY <1>3, WidthIs, Zenon
<1>6. PICK c : c = UnitOf(m, v, e) /\ Fits(u, c) /\ c \in Nat
  <2>1. Fits(v, UnitOf(m, v, e)) /\ UnitOf(m, v, e) \in Nat  BY <1>5, UnitFits, Zenon
  <2>2. PICK x \in Nat : x = UnitOf(m, v, e) /\ Fits(v, x)  BY <2>1, Zenon
  <2>3. Fits(u, x)
    <3>1. v \in {1, 2, 4}  BY <1>5 DEF Inside
    <3>. QED  BY <1>1, <1>5, <2>2, <3>1, SMT DEF Fits
  <2>. QED  BY <2>2, <2>3, Zenon
<1>7. Inside(u, e)
  <2>1. e \in Nat /\ e <= Len(input)  BY <1>5 DEF Inside
  <2>. QED  BY <1>1, <2>1, Zenon DEF Inside
<1>8. PICK n : n = Put(m, u, e, c) /\ BufferOK(n)
  <2>1. Holds(m, u, e, c, Put(m, u, e, c))  BY <1>6, <1>7, PutIs, Zenon
  <2>. QED  BY <2>1, Zenon DEF Holds
<1>9. t \in Seq(Nat) /\ Len(t) = d /\ \A i \in 0 .. d - 1 : t[i + 1] = UnitOf(m, WidthIn(u, k1, k2, i), i)
  BY Zenon DEF TextOf
<1>10. ASSUME NEW i \in 0 .. d - 1 PROVE t[i + 1] = UnitOf(n, WidthIn(u, j1, j2, i), i)
  <2>1. CASE i = e
    <3>1. UnitOf(Put(m, u, e, c), u, e) = c  BY <1>6, <1>7, PutRead
    <3>2. UnitOf(n, u, e) = c  BY <1>8, <3>1, Zenon
    <3>. QED  BY <1>3, <1>5, <1>6, <1>9, <2>1, <3>2, Zenon
  <2>2. CASE i # e
    <3>1. PICK z : z = WidthIn(u, k1, k2, i) /\ Inside(z, i) /\ z <= u  BY WidthIs, Zenon
    <3>2. (z <= u /\ i < e) \/ (z = u /\ i # e)  BY <1>4, <2>2, <3>1, Zenon
    <3>3. UnitOf(n, z, i) = UnitOf(m, z, i)  BY <1>6, <1>7, <1>8, <3>1, <3>2, PutKeeps
    <3>. QED  BY <1>4, <1>9, <2>2, <3>1, <3>3, Zenon
  <2>. QED  BY <2>1, <2>2
<1>11. TextOf(t, n, u, j1, j2, d)  BY <1>9, <1>10, Zenon DEF TextOf
<1>. QED  BY <1>3, <1>5, <1>6, <1>8, <1>11, Zenon

-----------------------------------------------------------------------------
(* The kind that the characters ask for.                                   *)

Ascii(t) == Below(t, 128)
Latin(t) == Below(t, 256)
Basic(t) == Below(t, 65536)

KindIn(t, u, a) ==
  /\ a \in BOOLEAN
  /\ u = 1 => Latin(t) /\ (a <=> Ascii(t))
  /\ u = 2 => Basic(t) /\ ~ Latin(t)
  /\ u = 4 => ~ Basic(t)

LEMMA BelowJoin ==
  ASSUME NEW s \in Seq(Nat), NEW t \in Seq(Nat), NEW limit
  PROVE  Below(s \o t, limit) <=> Below(s, limit) /\ Below(t, limit)
<1>1. /\ s \o t \in Seq(Nat) /\ Len(s \o t) = Len(s) + Len(t)
      /\ \A i \in 1 .. Len(s) + Len(t) : (s \o t)[i] = IF i <= Len(s) THEN s[i] ELSE t[i - Len(s)]
  BY ConcatProperties
<1>2. Len(s) \in Nat /\ Len(t) \in Nat /\ DOMAIN s = 1 .. Len(s) /\ DOMAIN t = 1 .. Len(t)
      /\ DOMAIN (s \o t) = 1 .. Len(s) + Len(t)
  BY <1>1
<1>3. ASSUME Below(s \o t, limit) PROVE Below(s, limit) /\ Below(t, limit)
  <2>1. \A i \in 1 .. Len(s) + Len(t) : (s \o t)[i] < limit  BY <1>2, <1>3, Zenon DEF Below
  <2>2. ASSUME NEW i \in 1 .. Len(s) PROVE s[i] < limit
    <3>1. i \in 1 .. Len(s) + Len(t) /\ i <= Len(s)  BY <1>2
    <3>. QED  BY <1>1, <2>1, <3>1, Zenon
  <2>3. ASSUME NEW i \in 1 .. Len(t) PROVE t[i] < limit
    <3>1. /\ Len(s) + i \in 1 .. Len(s) + Len(t) /\ ~ (Len(s) + i <= Len(s))
          /\ (Len(s) + i) - Len(s) = i
      BY <1>2
    <3>. QED  BY <1>1, <2>1, <3>1, Zenon
  <2>. QED  BY <1>2, <2>2, <2>3, Zenon DEF Below
<1>4. ASSUME Below(s, limit), Below(t, limit) PROVE Below(s \o t, limit)
  <2>1. (\A i \in 1 .. Len(s) : s[i] < limit) /\ (\A i \in 1 .. Len(t) : t[i] < limit)
    BY <1>2, <1>4, Zenon DEF Below
  <2>2. ASSUME NEW i \in 1 .. Len(s) + Len(t) PROVE (s \o t)[i] < limit
    <3>1. CASE i <= Len(s)
      <4>1. i \in 1 .. Len(s)  BY <1>2, <3>1
      <4>. QED  BY <1>1, <2>1, <3>1, <4>1, Zenon
    <3>2. CASE ~ (i <= Len(s))
      <4>1. i - Len(s) \in 1 .. Len(t)  BY <1>2, <3>2
      <4>. QED  BY <1>1, <2>1, <3>2, <4>1, Zenon
    <3>. QED  BY <3>1, <3>2
  <2>. QED  BY <1>2, <2>2, Zenon DEF Below
<1>. QED  BY <1>3, <1>4, Zenon

LEMMA BelowOne == ASSUME NEW c \in Nat, NEW limit PROVE Below(<<c>>, limit) <=> c < limit
<1>1. DOMAIN <<c>> = {1} /\ <<c>>[1] = c  OBVIOUS
<1>. QED  BY <1>1, Zenon DEF Below

LEMMA BelowNone == ASSUME NEW limit PROVE Below(<<>>, limit)
  BY DEF Below

\* Each limit is below the next.
LEMMA Limits == ASSUME NEW t \in Seq(Nat) PROVE (Ascii(t) => Latin(t)) /\ (Latin(t) => Basic(t))
<1>1. DOMAIN t = 1 .. Len(t) /\ \A i \in 1 .. Len(t) : t[i] \in Nat  OBVIOUS
<1>2. \A c \in Nat : (c < 128 => c < 256) /\ (c < 256 => c < 65536)  BY SMT
<1>3. Ascii(t) => Latin(t)  BY <1>1, <1>2, SMT DEF Ascii, Latin, Below
<1>4. Latin(t) => Basic(t)  BY <1>1, <1>2, SMT DEF Latin, Basic, Below
<1>. QED  BY <1>3, <1>4, Zenon

IsBasic(c) == c < 65536

\* What one more character makes of it.
LEMMA KindNext ==
  ASSUME NEW t \in Seq(Nat), NEW u, NEW a, KindIn(t, u, a), NEW c \in Nat
  PROVE  /\ u = 1 /\ c < 256 => KindIn(t \o <<c>>, 1, a /\ c < 128)
         /\ u = 1 /\ ~ (c < 256) /\ IsBasic(c) => KindIn(t \o <<c>>, 2, a)
         /\ u = 2 /\ IsBasic(c) => KindIn(t \o <<c>>, 2, a)
         /\ ~ IsBasic(c) => KindIn(t \o <<c>>, 4, a)
         /\ u = 4 => KindIn(t \o <<c>>, 4, a)
<1>1. PICK s : s = t \o <<c>>  OBVIOUS
<1>2. <<c>> \in Seq(Nat)  OBVIOUS
<1>3. /\ Ascii(s) <=> Ascii(t) /\ c < 128
      /\ Latin(s) <=> Latin(t) /\ c < 256
  <2>1. \A limit : Below(s, limit) <=> Below(t, limit) /\ c < limit
    <3>1. \A limit : Below(t \o <<c>>, limit) <=> Below(t, limit) /\ Below(<<c>>, limit)  BY <1>2, BelowJoin
    <3>. QED  BY <1>1, <3>1, BelowOne, Zenon
  <2>. QED  BY <2>1, SMT DEF Ascii, Latin
<1>4. Basic(s) <=> Basic(t) /\ IsBasic(c)
  <2>1. PICK limit : limit = 65536  OBVIOUS
  <2>2. Below(s, limit) <=> Below(t, limit) /\ c < limit  BY <1>1, <1>2, BelowJoin, BelowOne, Zenon
  <2>. QED  BY <2>1, <2>2, SMT DEF Basic, IsBasic
<1>5. 1 # 2 /\ 1 # 4 /\ 2 # 4  OBVIOUS
<1>6. a \in BOOLEAN /\ (u = 1 => Latin(t) /\ (a <=> Ascii(t))) /\ (u = 2 => Basic(t) /\ ~ Latin(t)) /\ (u = 4 => ~ Basic(t))
  BY Zenon DEF KindIn
<1>7. ASSUME u = 1, c < 256 PROVE KindIn(s, 1, a /\ c < 128)
  BY <1>3, <1>5, <1>6, <1>7, Zenon DEF KindIn
<1>8. ASSUME u = 1, ~ (c < 256), IsBasic(c) PROVE KindIn(s, 2, a)
  <2>1. Basic(t)  BY <1>6, <1>8, Limits, Zenon
  <2>. QED  BY <1>3, <1>4, <1>5, <1>6, <1>8, <2>1, Zenon DEF KindIn
<1>9. ASSUME u = 2, IsBasic(c) PROVE KindIn(s, 2, a)
  BY <1>3, <1>4, <1>5, <1>6, <1>9, Zenon DEF KindIn
<1>10. ASSUME ~ IsBasic(c) PROVE KindIn(s, 4, a)
  BY <1>4, <1>5, <1>6, <1>10, Zenon DEF KindIn
<1>11. ASSUME u = 4 PROVE KindIn(s, 4, a)
  BY <1>4, <1>5, <1>6, <1>11, Zenon DEF KindIn
<1>. QED  BY <1>1, <1>7, <1>8, <1>9, <1>10, <1>11, Zenon

\* A run of ASCII leaves the kind.
LEMMA KindRun ==
  ASSUME NEW t \in Seq(Nat), NEW u, NEW a, KindIn(t, u, a), NEW r \in Seq(Nat), Ascii(r)
  PROVE  KindIn(t \o r, u, a)
<1>1. PICK s : s = t \o r  OBVIOUS
<1>2. Latin(r) /\ Basic(r)  BY Limits, Zenon
<1>3. (Ascii(s) <=> Ascii(t)) /\ (Latin(s) <=> Latin(t))
  <2>1. \A limit : Below(t \o r, limit) <=> Below(t, limit) /\ Below(r, limit)  BY BelowJoin
  <2>2. \A limit : Below(s, limit) <=> Below(t, limit) /\ Below(r, limit)  BY <1>1, <2>1, Zenon
  <2>. QED  BY <1>2, <2>2, SMT DEF Ascii, Latin
<1>4. Basic(s) <=> Basic(t)
  <2>1. PICK limit : limit = 65536  OBVIOUS
  <2>2. Below(s, limit) <=> Below(t, limit) /\ Below(r, limit)  BY <1>1, BelowJoin, Zenon
  <2>. QED  BY <1>2, <2>1, <2>2, SMT DEF Basic
<1>5. KindIn(s, u, a)  BY <1>3, <1>4, Zenon DEF KindIn
<1>. QED  BY <1>1, <1>5, Zenon

-----------------------------------------------------------------------------
(* The invariant: what the document spells is what its rest spells behind  *)
(* the characters in the buffer, and the width is what these ask for.      *)

Scanning == {"skip_ascii", "copy_ascii", "copy_utf8", "copy_utf8_inner", "copy_escape"}

Progress(label, s, d, t) ==
  /\ label \in Scanning => s \in 1 .. Len(input) + 1 /\ d < s /\ Spelled = Prefixed(t, From[s])
  /\ label = "read_finalize" => Spelled = {t}
  /\ label = "skip_ascii" => s = 1 /\ d = 0
  /\ label \in {"copy_utf8", "copy_escape"} => IsStop(Byte(s))
  /\ label = "copy_escape" => Byte(s) < 128

State(label, u, s, d, k1, k2, a, m) ==
  /\ Shape(u, d, k1, k2) /\ BufferOK(m)
  /\ label = "skip_ascii" => u = 1
  /\ \E t : TextOf(t, m, u, k1, k2, d) /\ KindIn(t, u, a) /\ Progress(label, s, d, t)

Working == Scanning \cup {"read_finalize"}

StateInv == pc \in Working => State(pc, ucs, src, dst, lenUcs1, lenUcs2, isAscii, mem)

IInv ==
  /\ InputOK
  /\ pc \in Working \cup {"returned", "failed"} /\ reach \in Nat
  /\ StateInv /\ ReadsExactly /\ LeastKind /\ StoresInBuffer

SameInput == input' = input /\ junk' = junk

LEMMA StateNext ==
  ASSUME SameInput, State(pc', ucs', src', dst', lenUcs1', lenUcs2', isAscii', mem')
  PROVE  State(pc, ucs, src, dst, lenUcs1, lenUcs2, isAscii, mem)'
<1>1. Spelled' = Spelled /\ From' = From  BY SpelledStays, FromStays DEF SameInput
<1>2. Len(input)' = Len(input) /\ \A i : Byte(i)' = Byte(i)  BY DEF SameInput, Byte
<1>3. Shape(ucs, dst, lenUcs1, lenUcs2)' /\ BufferOK(mem)'
  <2>1. Shape(ucs', dst', lenUcs1', lenUcs2') /\ BufferOK(mem')  BY Zenon DEF State
  <2>. QED  BY <1>2, <2>1 DEF Shape, BufferOK, Capacity, SameInput
<1>4. pc' = "skip_ascii" => ucs' = 1  BY Zenon DEF State
<1>5. PICK t : /\ TextOf(t, mem', ucs', lenUcs1', lenUcs2', dst') /\ KindIn(t, ucs', isAscii')
               /\ Progress(pc', src', dst', t)
  BY Zenon DEF State
<1>6. TextOf(t, mem, ucs, lenUcs1, lenUcs2, dst)'  BY <1>5 DEF TextOf, UnitOf, WidthIn
<1>7. KindIn(t, ucs, isAscii)'  BY <1>5 DEF KindIn, Latin, Basic, Ascii, Below
<1>8. Progress(pc, src, dst, t)'
  <2>1. /\ pc' \in Scanning => src' \in 1 .. Len(input) + 1 /\ dst' < src' /\ Spelled = Prefixed(t, From[src'])
        /\ pc' = "read_finalize" => Spelled = {t}
        /\ pc' = "skip_ascii" => src' = 1 /\ dst' = 0
        /\ pc' \in {"copy_utf8", "copy_escape"} => IsStop(Byte(src'))
        /\ pc' = "copy_escape" => Byte(src') < 128
    BY <1>5, Zenon DEF Progress
  <2>2. Byte(src)' = Byte(src')  BY DEF SameInput, Byte
  <2>. QED  BY <1>1, <1>2, <2>1, <2>2 DEF Progress, Prefixed, IsStop, Scanning
<1>. QED  BY <1>3, <1>4, <1>6, <1>7, <1>8, Zenon DEF State

\* The string goes on.
LEMMA Kept ==
  ASSUME IInv, SameInput, pc' \in Working, reach' \in Nat, reach' <= Capacity,
         State(pc', ucs', src', dst', lenUcs1', lenUcs2', isAscii', mem')
  PROVE  IInv'
<1>1. InputOK'  BY DEF IInv, SameInput, InputOK
<1>2. pc' # "returned" /\ pc' # "failed"  BY DEF Working, Scanning
<1>3. ReadsExactly' /\ LeastKind'  BY <1>2, Zenon DEF ReadsExactly, LeastKind
<1>4. StoresInBuffer'
  <2>1. lenUcs1' + lenUcs2' <= dst'  BY DEF State, Shape
  <2>. QED  BY <2>1 DEF StoresInBuffer, SameInput, Capacity
<1>5. StateInv'  BY StateNext, Zenon DEF StateInv
<1>. QED  BY <1>1, <1>3, <1>4, <1>5, Zenon DEF IInv

LEMMA FailKeeps ==
  ASSUME IInv, pc \in Scanning, Fail, From[src] = {}
  PROVE  IInv'
<1>1. SameInput /\ pc' = "failed" /\ UNCHANGED <<dst, lenUcs1, lenUcs2, reach>>  BY DEF Fail, SameInput
<1>2. InputOK'  BY <1>1 DEF IInv, SameInput, InputOK
<1>3. pc' # "returned" /\ pc' \notin Working  BY <1>1 DEF Working, Scanning
<1>4. Spelled = {}
  <2>1. pc \in Working  BY DEF Working
  <2>2. State(pc, ucs, src, dst, lenUcs1, lenUcs2, isAscii, mem)  BY <2>1, Zenon DEF IInv, StateInv
  <2>3. PICK t : Progress(pc, src, dst, t)  BY <2>2, Zenon DEF State
  <2>. QED  BY <2>3, PrefixedNone, Zenon DEF Progress
<1>5. Spelled' = Spelled  BY <1>1, SpelledStays, Zenon DEF SameInput
<1>6. ReadsExactly' /\ LeastKind' /\ StateInv'  BY <1>3, <1>4, <1>5, Zenon DEF ReadsExactly, LeastKind, StateInv
<1>7. StoresInBuffer'  BY <1>1 DEF IInv, StoresInBuffer, SameInput, Capacity
<1>8. reach' \in Nat /\ pc' \in Working \cup {"returned", "failed"}  BY <1>1 DEF IInv
<1>. QED  BY <1>2, <1>6, <1>7, <1>8, Zenon DEF IInv

\* What holds while the string is read.
LEMMA Reading ==
  ASSUME IInv, pc \in Scanning
  PROVE  /\ InputOK /\ src \in 1 .. Len(input) + 1 /\ dst \in Nat /\ dst < src /\ dst <= Len(input)
         /\ ucs \in {1, 2, 4} /\ Shape(ucs, dst, lenUcs1, lenUcs2) /\ BufferOK(mem)
         /\ lenUcs1 \in Nat /\ lenUcs2 \in Nat
         /\ \E t \in Seq(Nat) : /\ TextOf(t, mem, ucs, lenUcs1, lenUcs2, dst) /\ KindIn(t, ucs, isAscii)
                                /\ Spelled = Prefixed(t, From[src])
         /\ pc = "skip_ascii" => src = 1 /\ dst = 0 /\ ucs = 1
         /\ pc \in {"copy_utf8", "copy_escape"} => IsStop(Byte(src))
         /\ pc = "copy_escape" => Byte(src) < 128
         /\ reach \in Nat /\ reach <= Capacity
<1>1. pc \in Working  BY DEF Working
<1>2. State(pc, ucs, src, dst, lenUcs1, lenUcs2, isAscii, mem)  BY <1>1, Zenon DEF IInv, StateInv
<1>3. Shape(ucs, dst, lenUcs1, lenUcs2) /\ BufferOK(mem) /\ (pc = "skip_ascii" => ucs = 1)
  BY <1>2, Zenon DEF State
<1>4. dst \in Nat /\ dst <= Len(input) /\ ucs \in {1, 2, 4} /\ lenUcs1 \in Nat /\ lenUcs2 \in Nat
  BY <1>3 DEF Shape
<1>5. PICK t : /\ TextOf(t, mem, ucs, lenUcs1, lenUcs2, dst) /\ KindIn(t, ucs, isAscii)
               /\ Progress(pc, src, dst, t)
  BY <1>2, Zenon DEF State
<1>6. t \in Seq(Nat)  BY <1>5, Zenon DEF TextOf
<1>7. /\ src \in 1 .. Len(input) + 1 /\ dst < src /\ Spelled = Prefixed(t, From[src])
      /\ pc = "skip_ascii" => src = 1 /\ dst = 0
      /\ pc \in {"copy_utf8", "copy_escape"} => IsStop(Byte(src))
      /\ pc = "copy_escape" => Byte(src) < 128
  BY <1>5, Zenon DEF Progress
<1>8. InputOK /\ reach \in Nat /\ reach <= Capacity  BY DEF IInv, StoresInBuffer
<1>. QED  BY <1>3, <1>4, <1>5, <1>6, <1>7, <1>8, Zenon

\* A label further on in the code, at the same place.
LEMMA JumpKeeps ==
  ASSUME IInv, pc \in Scanning, NEW label, Jump(label),
         \/ label = "copy_ascii"
         \/ label = "copy_utf8" /\ IsStop(Byte(src))
         \/ label = "copy_escape" /\ IsStop(Byte(src)) /\ Byte(src) < 128
  PROVE  IInv'
<1>1. /\ pc' = label /\ SameInput
      /\ UNCHANGED <<ucs, src, dst, lenUcs1, lenUcs2, isAscii, mem, reach>>
  BY DEF Jump, Goto, SameInput
<1>2. /\ label \in Working /\ label \in Scanning /\ label # "skip_ascii" /\ label # "read_finalize"
      /\ label \in {"copy_utf8", "copy_escape"} => IsStop(Byte(src))
      /\ label = "copy_escape" => Byte(src) < 128
  BY DEF Working, Scanning
<1>3. PICK t \in Seq(Nat) : /\ TextOf(t, mem, ucs, lenUcs1, lenUcs2, dst) /\ KindIn(t, ucs, isAscii)
                            /\ Spelled = Prefixed(t, From[src])
  BY Reading, Zenon
<1>4. Progress(label, src, dst, t)  BY <1>2, <1>3, Reading, Zenon DEF Progress
<1>5. State(label, ucs, src, dst, lenUcs1, lenUcs2, isAscii, mem)  BY <1>2, <1>3, <1>4, Reading, Zenon DEF State
<1>6. State(pc', ucs', src', dst', lenUcs1', lenUcs2', isAscii', mem')  BY <1>1, <1>5, Zenon
<1>7. reach' \in Nat /\ reach' <= Capacity /\ pc' \in Working  BY <1>1, <1>2, Reading, Zenon
<1>. QED  BY <1>1, <1>6, <1>7, Kept, Zenon

-----------------------------------------------------------------------------
(* One character more.                                                     *)

LEMMA WriteKeeps ==
  ASSUME IInv, pc \in Scanning, SameInput,
         NEW c, NEW n, IsChar(src, c, n), NEW w, Fits(w, c), Write(w, c),
         Goes(ucs, lenUcs1, lenUcs2, w, lenUcs1', lenUcs2', dst),
         src' = src + n, pc' \in {"copy_ascii", "copy_utf8_inner"},
         \A t \in Seq(Nat) : KindIn(t, ucs, isAscii) => KindIn(t \o <<c>>, w, isAscii')
  PROVE  IInv'
<1>1. PICK t \in Seq(Nat) : /\ TextOf(t, mem, ucs, lenUcs1, lenUcs2, dst) /\ KindIn(t, ucs, isAscii)
                            /\ Spelled = Prefixed(t, From[src])
  BY Reading, Zenon
<1>2. InputOK /\ dst \in Nat /\ dst < src /\ Shape(ucs, dst, lenUcs1, lenUcs2) /\ BufferOK(mem)
  BY Reading, Zenon
<1>3. src \in 1 .. Len(input) /\ n \in 1 .. 12 /\ src + n \in 1 .. Len(input) + 1  BY Zenon DEF IsChar
<1>4. PICK l \in Nat : l = Len(input)  BY <1>2, LenIs, Zenon
<1>5. dst + 1 <= Len(input) /\ dst + 1 < src + n  BY <1>2, <1>3, <1>4
<1>6. PICK j1, j2 : j1 = lenUcs1' /\ j2 = lenUcs2'  OBVIOUS
<1>7. Goes(ucs, lenUcs1, lenUcs2, w, j1, j2, dst)  BY <1>6, Zenon
<1>8. Shape(w, dst + 1, j1, j2) /\ Inside(w, dst)  BY <1>2, <1>5, <1>7, GoesOn
<1>9. ucs' = w /\ mem' = Put(mem, w, dst, c) /\ dst' = dst + 1 /\ reach' = Farthest(w * (dst + 1))
  BY Zenon DEF Write
<1>10. c \in Nat  BY CharCode, Zenon
<1>11. BufferOK(mem')
  <2>1. Holds(mem, w, dst, c, Put(mem, w, dst, c))  BY <1>2, <1>8, <1>10, PutIs, Zenon
  <2>. QED  BY <1>9, <2>1, Zenon DEF Holds
<1>12. TextOf(t \o <<c>>, mem', w, j1, j2, dst + 1)
  <2>1. TextOf(t \o <<c>>, Put(mem, w, dst, c), w, j1, j2, dst + 1)
    BY <1>1, <1>2, <1>5, <1>7, TextAppend
  <2>. QED  BY <1>9, <2>1, Zenon
<1>13. KindIn(t \o <<c>>, w, isAscii')  BY <1>1, Zenon
<1>14. Progress(pc', src + n, dst + 1, t \o <<c>>)
  <2>1. Spelled = Prefixed(t \o <<c>>, From[src + n])  BY <1>1, <1>2, ReadOne, Zenon
  <2>2. pc' # "read_finalize" /\ pc' # "skip_ascii" /\ pc' \notin {"copy_utf8", "copy_escape"}  OBVIOUS
  <2>. QED  BY <1>3, <1>5, <2>1, <2>2, Zenon DEF Progress
<1>15. State(pc', ucs', src', dst', lenUcs1', lenUcs2', isAscii', mem')
  <2>1. pc' # "skip_ascii"  OBVIOUS
  <2>. QED  BY <1>6, <1>8, <1>9, <1>11, <1>12, <1>13, <1>14, <2>1, Zenon DEF State
<1>16. reach' \in Nat /\ reach' <= Capacity
  <2>1. Capacity = 4 * (l + 1)  BY <1>4 DEF Capacity
  <2>2. w \in {1, 2, 4}  BY <1>8 DEF Inside
  <2>3. w * (dst + 1) \in Nat /\ w * (dst + 1) <= 4 * (l + 1)
    <3>1. CASE w = 1  BY <1>2, <1>4, <1>5, <3>1
    <3>2. CASE w = 2  BY <1>2, <1>4, <1>5, <3>2
    <3>3. CASE w = 4  BY <1>2, <1>4, <1>5, <3>3
    <3>. QED  BY <2>2, <3>1, <3>2, <3>3
  <2>4. reach \in Nat /\ reach <= Capacity  BY Reading
  <2>. QED  BY <1>9, <2>1, <2>3, <2>4, Zenon DEF Farthest
<1>17. pc' \in Working  BY DEF Working, Scanning
<1>. QED  BY <1>15, <1>16, <1>17, Kept, Zenon

\* The code of one width stays at its width.
LEMMA SameKeeps ==
  ASSUME IInv, pc \in Scanning, NEW c, NEW n, IsChar(src, c, n), Fits(ucs, c),
         NEW label, label \in {"copy_ascii", "copy_utf8_inner"}, WriteSame(c, n, label),
         \/ ucs = 1 /\ isAscii' = (isAscii /\ c < 128)
         \/ ucs \in {2, 4} /\ isAscii' = isAscii
  PROVE  IInv'
<1>1. /\ Write(ucs, c) /\ src' = src + n /\ pc' = label /\ SameInput
      /\ lenUcs1' = lenUcs1 /\ lenUcs2' = lenUcs2
  BY DEF WriteSame, SameInput, Goto
<1>2. c \in Nat  BY CharCode, Zenon
<1>3. Goes(ucs, lenUcs1, lenUcs2, ucs, lenUcs1', lenUcs2', dst)  BY <1>1, Zenon DEF Goes
<1>4. /\ ucs = 1 => c < 256
      /\ ucs = 2 => IsBasic(c)
  BY SMT DEF Fits, IsBasic
<1>5. ASSUME NEW t \in Seq(Nat), KindIn(t, ucs, isAscii) PROVE KindIn(t \o <<c>>, ucs, isAscii')
  <2>1. CASE ucs = 1 /\ isAscii' = (isAscii /\ c < 128)
    <3>1. c < 256  BY <1>4, <2>1, Zenon
    <3>2. KindIn(t \o <<c>>, 1, isAscii /\ c < 128)  BY <1>2, <1>5, <2>1, <3>1, KindNext
    <3>. QED  BY <2>1, <3>2, Zenon
  <2>2. CASE ucs = 2 /\ isAscii' = isAscii
    <3>1. IsBasic(c)  BY <1>4, <2>2, Zenon
    <3>2. KindIn(t \o <<c>>, 2, isAscii)  BY <1>2, <1>5, <2>2, <3>1, KindNext
    <3>. QED  BY <2>2, <3>2, Zenon
  <2>3. CASE ucs = 4 /\ isAscii' = isAscii
    <3>1. KindIn(t \o <<c>>, 4, isAscii)  BY <1>2, <1>5, <2>3, KindNext, Zenon
    <3>. QED  BY <2>3, <3>1, Zenon
  <2>. QED  BY <2>1, <2>2, <2>3
<1>6. pc' \in {"copy_ascii", "copy_utf8_inner"}  BY <1>1, Zenon
<1>. QED  BY <1>1, <1>3, <1>5, <1>6, WriteKeeps, Zenon

\* The first character of a wider part.
LEMMA Ucs1Keeps ==
  ASSUME IInv, pc \in Scanning, NEW c, NEW n, IsChar(src, c, n), Fits(4, c), ucs = 1,
         NEW label, label \in {"copy_ascii", "copy_utf8_inner"}, NEW w, WidenUcs1(w, c, n, label),
         (w = 2 /\ ~ (c < 256) /\ IsBasic(c)) \/ (w = 4 /\ ~ IsBasic(c))
  PROVE  IInv'
<1>1. /\ Write(w, c) /\ src' = src + n /\ pc' = label /\ SameInput
      /\ lenUcs1' = dst /\ lenUcs2' = lenUcs2 /\ isAscii' = isAscii
  BY DEF WidenUcs1, SameInput, Goto
<1>2. c \in Nat  BY CharCode, Zenon
<1>3. Goes(ucs, lenUcs1, lenUcs2, w, lenUcs1', lenUcs2', dst)
  <2>1. w \in {2, 4}  OBVIOUS
  <2>. QED  BY <1>1, <2>1, Zenon DEF Goes
<1>4. Fits(w, c)  BY SMT DEF Fits, IsBasic
<1>5. ASSUME NEW t \in Seq(Nat), KindIn(t, ucs, isAscii) PROVE KindIn(t \o <<c>>, w, isAscii')
  <2>1. CASE w = 2 /\ ~ (c < 256) /\ IsBasic(c)
    <3>1. KindIn(t \o <<c>>, 2, isAscii)  BY <1>2, <1>5, <2>1, KindNext, Zenon
    <3>. QED  BY <1>1, <2>1, <3>1, Zenon
  <2>2. CASE w = 4 /\ ~ IsBasic(c)
    <3>1. KindIn(t \o <<c>>, 4, isAscii)  BY <1>2, <1>5, <2>2, KindNext, Zenon
    <3>. QED  BY <1>1, <2>2, <3>1, Zenon
  <2>. QED  BY <2>1, <2>2
<1>6. pc' \in {"copy_ascii", "copy_utf8_inner"}  BY <1>1, Zenon
<1>. QED  BY <1>1, <1>3, <1>4, <1>5, <1>6, WriteKeeps, Zenon

LEMMA Ucs2Keeps ==
  ASSUME IInv, pc \in Scanning, NEW c, NEW n, IsChar(src, c, n), Fits(4, c), ucs = 2,
         NEW label, label \in {"copy_ascii", "copy_utf8_inner"}, WidenUcs2(c, n, label), ~ IsBasic(c)
  PROVE  IInv'
<1>1. /\ Write(4, c) /\ src' = src + n /\ pc' = label /\ SameInput
      /\ lenUcs1' = lenUcs1 /\ lenUcs2' = dst - lenUcs1 /\ isAscii' = isAscii
  BY DEF WidenUcs2, SameInput, Goto
<1>2. c \in Nat  BY CharCode, Zenon
<1>3. Goes(ucs, lenUcs1, lenUcs2, 4, lenUcs1', lenUcs2', dst)  BY <1>1, Zenon DEF Goes
<1>4. ASSUME NEW t \in Seq(Nat), KindIn(t, ucs, isAscii) PROVE KindIn(t \o <<c>>, 4, isAscii')
  <2>1. KindIn(t \o <<c>>, 4, isAscii)  BY <1>2, <1>4, KindNext, Zenon
  <2>. QED  BY <1>1, <2>1, Zenon
<1>5. pc' \in {"copy_ascii", "copy_utf8_inner"}  BY <1>1, Zenon
<1>. QED  BY <1>1, <1>3, <1>4, <1>5, WriteKeeps, Zenon

-----------------------------------------------------------------------------
(* A text is returned.                                                     *)

LEMMA RunAscii ==
  ASSUME InputOK, NEW p \in 1 .. Len(input) + 1, NEW n, IsRun(p, n)
  PROVE  SubSeq(input, p, p + n - 1) \in Seq(Nat) /\ Ascii(SubSeq(input, p, p + n - 1))
<1>1. PICK l \in Nat : l = Len(input)  BY LenIs
<1>2. n \in Nat /\ \A i \in p .. p + n - 1 : i \in 1 .. l /\ ~ IsStop(input[i]) /\ input[i] \in Nat
  BY <1>1, InputType DEF IsRun
<1>3. p \in Int /\ p + n - 1 \in Int  BY <1>1, <1>2
<1>4. PICK r : r = SubSeq(input, p, p + n - 1)  OBVIOUS
<1>5. /\ r \in Seq(Nat) /\ Len(r) = IF p <= p + n - 1 THEN (p + n - 1) - p + 1 ELSE 0
      /\ \A i \in 1 .. (p + n - 1) - p + 1 : r[i] = input[p + i - 1]
  BY <1>2, <1>3, <1>4, SubSeqProperties
<1>6. Len(r) = n /\ (p + n - 1) - p + 1 = n
  <2>1. p \in Nat  BY <1>1
  <2>. QED  BY <1>2, <1>5, <2>1
<1>7. ASSUME NEW i \in 1 .. n PROVE r[i] < 128
  <2>1. p + i - 1 \in p .. p + n - 1  BY <1>1, <1>2
  <2>2. input[p + i - 1] \in Nat /\ ~ IsStop(input[p + i - 1])  BY <1>2, <2>1, Zenon
  <2>3. input[p + i - 1] < 128  BY <2>2 DEF IsStop
  <2>. QED  BY <1>5, <1>6, <2>3
<1>8. DOMAIN r = 1 .. n  BY <1>5, <1>6
<1>9. Ascii(r)  BY <1>7, <1>8, Zenon DEF Ascii, Below
<1>. QED  BY <1>4, <1>5, <1>9, Zenon

KindFor(k, t) ==
  \/ k = 0 /\ Ascii(t)
  \/ k = 1 /\ Latin(t) /\ ~ Ascii(t)
  \/ k = 2 /\ Basic(t) /\ ~ Latin(t)
  \/ k = 4 /\ ~ Basic(t)

LEMMA KindIsLeast ==
  ASSUME NEW t \in Seq(Nat), NEW k, KindFor(k, t)
  PROVE  \A j \in {0, 1, 2} : Below(t, IF j = 0 THEN 128 ELSE Places[j + 1]) <=> k <= j
<1>1. (Ascii(t) => Latin(t)) /\ (Latin(t) => Basic(t))  BY Limits
<1>2. /\ Ascii(t) <=> k <= 0
      /\ Latin(t) <=> k <= 1
      /\ Basic(t) <=> k <= 2
  BY <1>1, SMT DEF KindFor
<1>3. Below(t, IF 0 = 0 THEN 128 ELSE Places[0 + 1]) <=> Ascii(t)  BY SMT DEF Ascii
<1>4. Below(t, IF 1 = 0 THEN 128 ELSE Places[1 + 1]) <=> Latin(t)  BY PlacesAre, SMT DEF Latin
<1>5. Below(t, IF 2 = 0 THEN 128 ELSE Places[2 + 1]) <=> Basic(t)  BY PlacesAre, SMT DEF Basic
<1>6. ASSUME NEW j \in {0, 1, 2} PROVE Below(t, IF j = 0 THEN 128 ELSE Places[j + 1]) <=> k <= j
  <2>1. j = 0 \/ j = 1 \/ j = 2  OBVIOUS
  <2>. QED  BY <1>2, <1>3, <1>4, <1>5, <2>1, Zenon
<1>. QED  BY <1>6

LEMMA ReturnKeeps ==
  ASSUME IInv, SameInput, pc' = "returned", UNCHANGED <<dst, lenUcs1, lenUcs2, reach>>,
         NEW t \in Seq(Nat), NEW k, KindFor(k, t), result' = [kind |-> k, units |-> t], Spelled = {t}
  PROVE  IInv'
<1>1. InputOK'  BY DEF IInv, SameInput, InputOK
<1>2. pc' # "failed" /\ pc' \notin Working  BY DEF Working, Scanning
<1>3. result'.units = t /\ result'.kind = k  OBVIOUS
<1>4. Spelled' = Spelled  BY SpelledStays, Zenon DEF SameInput
<1>5. ReadsExactly' /\ StateInv'  BY <1>2, <1>3, <1>4, Zenon DEF ReadsExactly, StateInv
<1>6. LeastKind'
  <2>1. \A j \in {0, 1, 2} : Below(t, IF j = 0 THEN 128 ELSE Places[j + 1]) <=> k <= j  BY KindIsLeast, Zenon
  <2>2. \A j \in {0, 1, 2} : Below(result'.units, IF j = 0 THEN 128 ELSE Places[j + 1]) <=> result'.kind <= j
    BY <1>3, <2>1, Zenon
  <2>. QED  BY <2>2, SMT DEF LeastKind, Below, Places
<1>7. StoresInBuffer'  BY DEF IInv, StoresInBuffer, SameInput, Capacity
<1>8. reach' \in Nat /\ pc' \in Working \cup {"returned", "failed"}  BY DEF IInv
<1>. QED  BY <1>1, <1>5, <1>6, <1>7, <1>8, Zenon DEF IInv

-----------------------------------------------------------------------------
(* The steps that read.                                                    *)

\* A run at the start, up to the quote.
LEMMA FastAsciiKeeps == ASSUME IInv, FastAscii PROVE IInv'
<1>1. pc \in Scanning  BY DEF FastAscii, Scanning
<1>2. InputOK /\ src = 1 /\ src \in 1 .. Len(input) + 1  BY <1>1, Reading, Zenon DEF FastAscii
<1>3. PICK n : n = RunFrom(src) /\ IsRun(src, n)  BY <1>2, RunIs, Zenon
<1>4. /\ n \in Nat /\ src + n \in 1 .. Len(input) + 1 /\ Byte(src + n) = 34
      /\ \A i \in src .. src + n - 1 : i \in 1 .. Len(input) /\ ~ IsStop(input[i])
  BY <1>3, Zenon DEF IsRun, FastAscii
<1>5. PICK r : r = SubSeq(input, src, src + n - 1)  OBVIOUS
<1>6. result' = [kind |-> 0, units |-> r]  BY <1>3, <1>5, Zenon DEF FastAscii
<1>7. /\ SameInput /\ pc' = "returned"
      /\ UNCHANGED <<dst, lenUcs1, lenUcs2, reach>>
  BY DEF FastAscii, SameInput, Goto
<1>8. r \in Seq(Nat) /\ Ascii(r)  BY <1>2, <1>3, <1>5, RunAscii, Zenon
<1>9. Spelled = {r}
  <2>1. Spelled = From[src]  BY <1>2, SpelledIs, Zenon
  <2>2. From[src] \in SUBSET Readings  BY <1>2, FromType, Zenon
  <2>3. Prefixed(<<>>, From[src]) = From[src]  BY <2>2, PrefixedByNone, Zenon
  <2>4. <<>> \in Seq(Nat) /\ <<>> \o r = r  BY <1>8, EmptySeq, ConcatEmptySeq
  <2>5. src + n <= Len(input) + 1  BY <1>2, <1>4, LenIs
  <2>6. Prefixed(<<>>, From[src]) = Prefixed(<<>> \o r, From[src + n])
    BY <1>2, <1>4, <1>5, <2>4, <2>5, ReadRun, Zenon
  <2>7. From[src + n] = {<<>>}  BY <1>2, <1>4, FromEnds, Zenon
  <2>8. Prefixed(r, {<<>>}) = {r}  BY <1>8, PrefixedToEnd, Zenon
  <2>. QED  BY <2>1, <2>3, <2>4, <2>6, <2>7, <2>8, Zenon
<1>10. KindFor(0, r)  BY <1>8, Zenon DEF KindFor
<1>. QED  BY <1>6, <1>7, <1>8, <1>9, <1>10, ReturnKeeps

\* A run is copied while the buffer is one byte wide.
LEMMA RunKeeps ==
  ASSUME IInv, pc \in Scanning, SameInput, ucs = 1,
         NEW n, IsRun(src, n), NEW size \in {n, n + 1}, mem' = Copied(size), reach' = Farthest(dst + size),
         src' = src + n, dst' = dst + n, pc' = "copy_utf8", UNCHANGED <<ucs, lenUcs2, isAscii>>,
         lenUcs1' \in Nat, lenUcs1' <= dst + n
  PROVE  IInv'
<1>1. /\ InputOK /\ src \in 1 .. Len(input) + 1 /\ dst \in Nat /\ dst < src
      /\ Shape(ucs, dst, lenUcs1, lenUcs2) /\ BufferOK(mem) /\ reach \in Nat /\ reach <= Capacity
  BY Reading, Zenon
<1>2. PICK t \in Seq(Nat) : /\ TextOf(t, mem, ucs, lenUcs1, lenUcs2, dst) /\ KindIn(t, ucs, isAscii)
                            /\ Spelled = Prefixed(t, From[src])
  BY Reading, Zenon
<1>3. PICK l \in Nat : l = Len(input)  BY <1>1, LenIs, Zenon
<1>4. /\ n \in Nat /\ src + n \in 1 .. Len(input) + 1 /\ IsStop(Byte(src + n))
      /\ \A i \in src .. src + n - 1 : ~ IsStop(input[i])
  BY Zenon DEF IsRun
<1>5. PICK j1 : j1 = lenUcs1' /\ j1 \in Nat /\ j1 <= dst + n  OBVIOUS
<1>6. size \in Nat /\ n <= size /\ size <= n + 1  BY <1>4
<1>7. PICK r : r = SubSeq(input, src, src + n - 1)  OBVIOUS
<1>8. r \in Seq(Nat) /\ Ascii(r)  BY <1>1, <1>7, RunAscii, Zenon
<1>9. TextOf(t, mem, 1, lenUcs1, lenUcs2, dst)  BY <1>2, Zenon
<1>10. BufferOK(mem') /\ TextOf(t \o r, mem', 1, j1, lenUcs2, dst + n)
  <2>1. /\ BufferOK(Copied(size))
        /\ TextOf(t \o SubSeq(input, src, src + n - 1), Copied(size), 1, j1, lenUcs2, dst + n)
    BY <1>1, <1>6, <1>9, TextRun
  <2>. QED  BY <1>7, <2>1, Zenon
<1>11. KindIn(t \o r, ucs, isAscii)  BY <1>2, <1>8, KindRun
<1>12. Shape(1, dst + n, j1, lenUcs2)
  <2>1. lenUcs2 = 0  BY <1>1 DEF Shape
  <2>2. dst + n \in Nat /\ dst + n <= Len(input)  BY <1>1, <1>3, <1>4
  <2>3. j1 + lenUcs2 <= dst + n  BY <1>5, <2>1, <2>2
  <2>4. 1 \in {1, 2, 4} /\ lenUcs2 \in Nat  BY <2>1
  <2>. QED  BY <1>5, <2>1, <2>2, <2>3, <2>4, Zenon DEF Shape
<1>13. Progress("copy_utf8", src + n, dst + n, t \o r)
  <2>1. Spelled = Prefixed(t \o r, From[src + n])
    <3>1. src + n <= Len(input) + 1  BY <1>3, <1>4
    <3>2. Prefixed(t, From[src]) = Prefixed(t \o r, From[src + n])
      BY <1>1, <1>4, <1>7, <3>1, ReadRun, Zenon
    <3>. QED  BY <1>2, <3>2, Zenon
  <2>2. dst + n < src + n  BY <1>1, <1>3, <1>4
  <2>3. "copy_utf8" # "read_finalize" /\ "copy_utf8" # "skip_ascii" /\ "copy_utf8" # "copy_escape"  OBVIOUS
  <2>. QED  BY <1>4, <2>1, <2>2, <2>3, Zenon DEF Progress
<1>14. State("copy_utf8", 1, src + n, dst + n, j1, lenUcs2, isAscii, mem')
  <2>1. "copy_utf8" # "skip_ascii"  OBVIOUS
  <2>2. KindIn(t \o r, 1, isAscii)  BY <1>11, Zenon
  <2>. QED  BY <1>10, <1>12, <1>13, <2>1, <2>2, Zenon DEF State
<1>15. State(pc', ucs', src', dst', lenUcs1', lenUcs2', isAscii', mem')
  <2>1. ucs' = 1 /\ lenUcs2' = lenUcs2 /\ isAscii' = isAscii  OBVIOUS
  <2>. QED  BY <1>5, <1>14, <2>1, Zenon
<1>16. reach' \in Nat /\ reach' <= Capacity
  <2>1. Capacity = 4 * (l + 1)  BY <1>3 DEF Capacity
  <2>2. dst + size \in Nat /\ dst + size <= 4 * (l + 1)  BY <1>1, <1>3, <1>4, <1>6
  <2>. QED  BY <1>1, <2>1, <2>2, Zenon DEF Farthest
<1>17. pc' \in Working  BY DEF Working, Scanning
<1>. QED  BY <1>15, <1>16, <1>17, Kept, Zenon

LEMMA SkipAsciiKeeps == ASSUME IInv, SkipAscii PROVE IInv'
<1>1. pc \in Scanning  BY DEF SkipAscii, Scanning
<1>2. InputOK /\ src \in 1 .. Len(input) + 1 /\ dst = 0 /\ ucs = 1  BY <1>1, Reading, Zenon DEF SkipAscii
<1>3. PICK n : n = RunFrom(src) /\ IsRun(src, n)  BY <1>2, RunIs, Zenon
<1>4. n \in Nat /\ dst + n = n /\ n \in {n, n + 1} /\ n <= dst + n
  <2>1. n \in Nat  BY <1>3, Zenon DEF IsRun
  <2>. QED  BY <1>2, <2>1
<1>5. /\ SameInput /\ mem' = Copied(n) /\ reach' = Farthest(n) /\ src' = src + n /\ dst' = n
      /\ pc' = "copy_utf8" /\ lenUcs1' = n /\ UNCHANGED <<ucs, lenUcs2, isAscii>>
  BY <1>3, Zenon DEF SkipAscii, SameInput, Goto
<1>. QED  BY <1>1, <1>2, <1>3, <1>4, <1>5, RunKeeps, Zenon

LEMMA CopyAsciiUcs1Keeps == ASSUME IInv, CopyAsciiUcs1 PROVE IInv'
<1>1. pc \in Scanning /\ ucs = 1  BY DEF CopyAsciiUcs1, Scanning
<1>2. InputOK /\ src \in 1 .. Len(input) + 1 /\ dst \in Nat /\ Shape(ucs, dst, lenUcs1, lenUcs2)
  BY <1>1, Reading, Zenon
<1>3. PICK n : n = RunFrom(src) /\ IsRun(src, n)  BY <1>2, RunIs, Zenon
<1>4. n \in Nat  BY <1>3, Zenon DEF IsRun
<1>5. Moved(n) \in {n, n + 1}  BY <1>4 DEF Moved
<1>6. /\ SameInput /\ mem' = Copied(Moved(n)) /\ reach' = Farthest(dst + Moved(n)) /\ src' = src + n
      /\ dst' = dst + n /\ pc' = "copy_utf8" /\ UNCHANGED <<ucs, lenUcs1, lenUcs2, isAscii>>
  BY <1>3, Zenon DEF CopyAsciiUcs1, SameInput, Goto
<1>7. lenUcs1' \in Nat /\ lenUcs1' <= dst + n
  <2>1. lenUcs1 \in Nat /\ lenUcs2 \in Nat /\ lenUcs1 + lenUcs2 <= dst  BY <1>2 DEF Shape
  <2>2. lenUcs1 <= dst + n  BY <1>2, <1>4, <2>1
  <2>. QED  BY <1>6, <2>1, <2>2, Zenon
<1>. QED  BY <1>1, <1>3, <1>5, <1>6, <1>7, RunKeeps, Zenon

-----------------------------------------------------------------------------
(* Escapes and sequences.                                                  *)

LEMMA CharFits ==
  ASSUME NEW p, NEW c, NEW n, IsChar(p, c, n)
  PROVE  /\ c \in Nat /\ Fits(4, c)
         /\ IsBasic(c) => Fits(2, c)
         /\ c < 256 => Fits(1, c)
         /\ c > 65535 <=> ~ IsBasic(c)
         /\ c > 255 <=> ~ (c < 256)
<1>1. PICK x \in Nat : x = c /\ x < 16777216  BY CharCode, UnicodeIs, SMT
<1>2. /\ x \in Nat /\ Fits(4, x)
      /\ IsBasic(x) => Fits(2, x)
      /\ x < 256 => Fits(1, x)
      /\ x > 65535 <=> ~ IsBasic(x)
      /\ x > 255 <=> ~ (x < 256)
  BY <1>1, SMT DEF Fits, IsBasic
<1>. QED  BY <1>1, <1>2, SMT

\* The next character does not begin an escape.
LEMMA EndOrFailKeeps == ASSUME IInv, pc = "copy_escape", Byte(src) # 92, EndOrFail PROVE IInv'
<1>1. pc \in Scanning  BY DEF Scanning
<1>2. /\ InputOK /\ src \in 1 .. Len(input) + 1 /\ IsStop(Byte(src)) /\ Byte(src) < 128
      /\ Shape(ucs, dst, lenUcs1, lenUcs2) /\ BufferOK(mem) /\ reach \in Nat /\ reach <= Capacity
  BY <1>1, Reading, Zenon
<1>3. CASE Byte(src) = 34
  <2>1. PICK t \in Seq(Nat) : /\ TextOf(t, mem, ucs, lenUcs1, lenUcs2, dst) /\ KindIn(t, ucs, isAscii)
                              /\ Spelled = Prefixed(t, From[src])
    BY <1>1, Reading, Zenon
  <2>2. /\ SameInput /\ pc' = "read_finalize" /\ src' = src + 1
        /\ UNCHANGED <<ucs, dst, lenUcs1, lenUcs2, isAscii, mem, reach>>
    BY <1>3 DEF EndOrFail, SameInput, Goto
  <2>3. Spelled = {t}
    <3>1. From[src] = {<<>>}  BY <1>2, <1>3, FromEnds, Zenon
    <3>2. Prefixed(t, {<<>>}) = {t}  BY PrefixedToEnd, Zenon
    <3>. QED  BY <2>1, <3>1, <3>2, Zenon
  <2>4. /\ "read_finalize" \notin Scanning /\ "read_finalize" # "skip_ascii"
        /\ "read_finalize" \notin {"copy_utf8", "copy_escape"} /\ "read_finalize" # "copy_escape"
    BY DEF Scanning
  <2>5. Progress("read_finalize", src + 1, dst, t)  BY <2>3, <2>4, Zenon DEF Progress
  <2>6. State("read_finalize", ucs, src + 1, dst, lenUcs1, lenUcs2, isAscii, mem)
    BY <1>2, <2>1, <2>4, <2>5, Zenon DEF State
  <2>7. State(pc', ucs', src', dst', lenUcs1', lenUcs2', isAscii', mem')  BY <2>2, <2>6, Zenon
  <2>8. reach' \in Nat /\ reach' <= Capacity /\ pc' \in Working  BY <1>2, <2>2, Zenon DEF Working
  <2>. QED  BY <2>2, <2>7, <2>8, Kept, Zenon
<1>4. CASE Byte(src) # 34
  <2>1. Fail  BY <1>4, Zenon DEF EndOrFail
  <2>2. From[src] = {}  BY <1>2, <1>4, StopIs, FromEnds, Zenon
  <2>. QED  BY <1>1, <2>1, <2>2, FailKeeps, Zenon
<1>. QED  BY <1>3, <1>4, Zenon

LEMMA NoEscapeKeeps ==
  ASSUME IInv, pc = "copy_escape", Byte(src) = 92, EscapeAt(src).size = 0, Fail PROVE IInv'
<1>1. pc \in Scanning  BY DEF Scanning
<1>2. InputOK /\ src \in 1 .. Len(input) + 1  BY <1>1, Reading, Zenon
<1>3. From[src] = {}  BY <1>2, EscapeIs, FromEnds, Zenon
<1>. QED  BY <1>1, <1>3, FailKeeps, Zenon

\* What an escape spells.
LEMMA EscapeChar ==
  ASSUME IInv, pc = "copy_escape", Byte(src) = 92, EscapeAt(src).size # 0
  PROVE  /\ pc \in Scanning /\ IsChar(src, EscapeAt(src).code, EscapeAt(src).size)
         /\ "copy_ascii" \in {"copy_ascii", "copy_utf8_inner"}
<1>1. pc \in Scanning  BY DEF Scanning
<1>2. InputOK /\ src \in 1 .. Len(input) + 1  BY <1>1, Reading, Zenon
<1>. QED  BY <1>1, <1>2, EscapeIs

LEMMA CopyEscapeUcs1Keeps == ASSUME IInv, CopyEscapeUcs1 PROVE IInv'
<1>1. pc = "copy_escape" /\ ucs = 1  BY SMT DEF CopyEscapeUcs1
<1>2. CASE Byte(src) # 92
  <2>1. EndOrFail  BY <1>2, SMT DEF CopyEscapeUcs1
  <2>. QED  BY <1>1, <1>2, <2>1, EndOrFailKeeps, Zenon
<1>3. CASE Byte(src) = 92 /\ EscapeAt(src).size = 0
  <2>1. Fail  BY <1>3, SMT DEF CopyEscapeUcs1
  <2>. QED  BY <1>1, <1>3, <2>1, NoEscapeKeeps, Zenon
<1>4. CASE Byte(src) = 92 /\ EscapeAt(src).size # 0
  <2>1. PICK c, n : c = EscapeAt(src).code /\ n = EscapeAt(src).size  OBVIOUS
  <2>2. /\ pc \in Scanning /\ IsChar(src, c, n) /\ "copy_ascii" \in {"copy_ascii", "copy_utf8_inner"}
    BY <1>1, <1>4, <2>1, EscapeChar, Zenon
  <2>3. IF ~ IsBasic(c) THEN WidenUcs1(4, c, n, "copy_ascii")
        ELSE IF ~ (c < 256) THEN WidenUcs1(2, c, n, "copy_ascii")
        ELSE WriteSame(c, n, "copy_ascii") /\ isAscii' = (isAscii /\ c < 128)
    <3>1. IF c > 65535 THEN WidenUcs1(4, c, n, "copy_ascii")
          ELSE IF c > 255 THEN WidenUcs1(2, c, n, "copy_ascii")
          ELSE WriteSame(c, n, "copy_ascii") /\ isAscii' = (isAscii /\ c < 128)
      BY <1>4, <2>1, SMT DEF CopyEscapeUcs1, StillAscii
    <3>2. (c > 65535 <=> ~ IsBasic(c)) /\ (c > 255 <=> ~ (c < 256))  BY <2>2, CharFits, SMT
    <3>. QED  BY <3>1, <3>2, SMT
  <2>4. Fits(4, c) /\ (c < 256 => Fits(1, c))  BY <2>2, CharFits, SMT
  <2>5. CASE ~ IsBasic(c)
    <3>1. WidenUcs1(4, c, n, "copy_ascii")  BY <2>3, <2>5, Zenon
    <3>. QED  BY <1>1, <2>2, <2>4, <2>5, <3>1, Ucs1Keeps, Zenon
  <2>6. CASE IsBasic(c) /\ ~ (c < 256)
    <3>1. WidenUcs1(2, c, n, "copy_ascii")  BY <2>3, <2>6, Zenon
    <3>. QED  BY <1>1, <2>2, <2>4, <2>6, <3>1, Ucs1Keeps, Zenon
  <2>7. CASE IsBasic(c) /\ c < 256
    <3>1. WriteSame(c, n, "copy_ascii") /\ isAscii' = (isAscii /\ c < 128)  BY <2>3, <2>7
    <3>2. Fits(ucs, c)  BY <1>1, <2>4, <2>7, Zenon
    <3>. QED  BY <1>1, <2>2, <3>1, <3>2, SameKeeps, Zenon
  <2>. QED  BY <2>5, <2>6, <2>7, Zenon
<1>. QED  BY <1>2, <1>3, <1>4, Zenon

LEMMA CopyEscapeUcs2Keeps == ASSUME IInv, CopyEscapeUcs2 PROVE IInv'
<1>1. pc = "copy_escape" /\ ucs = 2  BY SMT DEF CopyEscapeUcs2
<1>2. CASE Byte(src) # 92
  <2>1. EndOrFail  BY <1>2, SMT DEF CopyEscapeUcs2
  <2>. QED  BY <1>1, <1>2, <2>1, EndOrFailKeeps, Zenon
<1>3. CASE Byte(src) = 92 /\ EscapeAt(src).size = 0
  <2>1. Fail  BY <1>3, SMT DEF CopyEscapeUcs2
  <2>. QED  BY <1>1, <1>3, <2>1, NoEscapeKeeps, Zenon
<1>4. CASE Byte(src) = 92 /\ EscapeAt(src).size # 0
  <2>1. PICK c, n : c = EscapeAt(src).code /\ n = EscapeAt(src).size  OBVIOUS
  <2>2. /\ pc \in Scanning /\ IsChar(src, c, n) /\ "copy_ascii" \in {"copy_ascii", "copy_utf8_inner"}
    BY <1>1, <1>4, <2>1, EscapeChar, Zenon
  <2>3. IF ~ IsBasic(c) THEN WidenUcs2(c, n, "copy_ascii")
        ELSE WriteSame(c, n, "copy_ascii") /\ isAscii' = isAscii
    <3>1. IF c > 65535 THEN WidenUcs2(c, n, "copy_ascii")
          ELSE WriteSame(c, n, "copy_ascii") /\ isAscii' = isAscii
      BY <1>4, <2>1, SMT DEF CopyEscapeUcs2
    <3>2. c > 65535 <=> ~ IsBasic(c)  BY <2>2, CharFits, SMT
    <3>. QED  BY <3>1, <3>2, SMT
  <2>4. Fits(4, c) /\ (IsBasic(c) => Fits(2, c))  BY <2>2, CharFits, SMT
  <2>5. CASE ~ IsBasic(c)
    <3>1. WidenUcs2(c, n, "copy_ascii")  BY <2>3, <2>5, Zenon
    <3>. QED  BY <1>1, <2>2, <2>4, <2>5, <3>1, Ucs2Keeps, Zenon
  <2>6. CASE IsBasic(c)
    <3>1. WriteSame(c, n, "copy_ascii") /\ isAscii' = isAscii  BY <2>3, <2>6, Zenon
    <3>2. Fits(ucs, c) /\ ucs \in {2, 4}  BY <1>1, <2>4, <2>6, Zenon
    <3>. QED  BY <2>2, <3>1, <3>2, SameKeeps, Zenon
  <2>. QED  BY <2>5, <2>6, Zenon
<1>. QED  BY <1>2, <1>3, <1>4, Zenon

LEMMA CopyEscapeUcs4Keeps == ASSUME IInv, CopyEscapeUcs4 PROVE IInv'
<1>1. pc = "copy_escape" /\ ucs = 4  BY SMT DEF CopyEscapeUcs4
<1>2. CASE Byte(src) # 92
  <2>1. EndOrFail  BY <1>2, Zenon DEF CopyEscapeUcs4
  <2>. QED  BY <1>1, <1>2, <2>1, EndOrFailKeeps, Zenon
<1>3. CASE Byte(src) = 92 /\ EscapeAt(src).size = 0
  <2>1. Fail  BY <1>3, Zenon DEF CopyEscapeUcs4
  <2>. QED  BY <1>1, <1>3, <2>1, NoEscapeKeeps, Zenon
<1>4. CASE Byte(src) = 92 /\ EscapeAt(src).size # 0
  <2>1. PICK c, n : c = EscapeAt(src).code /\ n = EscapeAt(src).size  OBVIOUS
  <2>2. /\ pc \in Scanning /\ IsChar(src, c, n) /\ "copy_ascii" \in {"copy_ascii", "copy_utf8_inner"}
    BY <1>1, <1>4, <2>1, EscapeChar, Zenon
  <2>3. WriteSame(c, n, "copy_ascii") /\ isAscii' = isAscii  BY <1>4, <2>1, Zenon DEF CopyEscapeUcs4
  <2>4. Fits(4, c)  BY <2>2, CharFits, SMT
  <2>5. Fits(ucs, c) /\ ucs \in {2, 4}  BY <1>1, <2>4, Zenon
  <2>. QED  BY <2>2, <2>3, <2>5, SameKeeps, Zenon
<1>. QED  BY <1>2, <1>3, <1>4, Zenon

LEMMA CopyAsciiWideKeeps ==
  ASSUME IInv, pc = "copy_ascii", ucs \in {2, 4},
         IF ~ IsStop(Byte(src)) THEN WriteSame(Byte(src), 1, "copy_ascii") /\ isAscii' = isAscii
         ELSE Jump("copy_utf8")
  PROVE  IInv'
<1>1. pc \in Scanning  BY DEF Scanning
<1>2. InputOK /\ src \in 1 .. Len(input) + 1  BY <1>1, Reading, Zenon
<1>3. CASE ~ IsStop(Byte(src))
  <2>1. PICK c : c = Byte(src)  OBVIOUS
  <2>2. IsChar(src, c, 1) /\ c < 128  BY <1>2, <1>3, <2>1, PlainIs, Zenon
  <2>3. WriteSame(c, 1, "copy_ascii") /\ isAscii' = isAscii  BY <1>3, <2>1, Zenon
  <2>4. Fits(ucs, c)
    <3>1. c \in Nat  BY <2>2, CharCode, Zenon
    <3>. QED  BY <2>2, <3>1, SMT DEF Fits
  <2>5. "copy_ascii" \in {"copy_ascii", "copy_utf8_inner"}  OBVIOUS
  <2>. QED  BY <1>1, <2>2, <2>3, <2>4, <2>5, SameKeeps, Zenon
<1>4. CASE IsStop(Byte(src))
  <2>1. Jump("copy_utf8")  BY <1>4, Zenon
  <2>. QED  BY <1>1, <1>4, <2>1, JumpKeeps, Zenon
<1>. QED  BY <1>3, <1>4, Zenon

LEMMA CopyAsciiUcs2Keeps == ASSUME IInv, CopyAsciiUcs2 PROVE IInv'
  BY CopyAsciiWideKeeps, Zenon DEF CopyAsciiUcs2, Jump
LEMMA CopyAsciiUcs4Keeps == ASSUME IInv, CopyAsciiUcs4 PROVE IInv'
  BY CopyAsciiWideKeeps, Zenon DEF CopyAsciiUcs4, Jump

\* Where a sequence may begin.
LEMMA SequenceFits ==
  ASSUME InputOK, NEW p \in 1 .. Len(input) + 1, ~ (Byte(p) < 128)
  PROVE  /\ IsValidSeq2(p) =>
              /\ IsChar(p, ReadB2(p), 2) /\ IsBasic(ReadB2(p)) /\ ~ (ReadB2(p) < 128) /\ Fits(2, ReadB2(p))
              /\ Fits(4, ReadB2(p)) /\ (ReadB2(p) > 255 <=> ~ (ReadB2(p) < 256))
              /\ (ReadB2(p) < 256 => Fits(1, ReadB2(p)))
         /\ IsValidSeq3(p) =>
              /\ IsChar(p, ReadB3(p), 3) /\ IsBasic(ReadB3(p)) /\ ~ (ReadB3(p) < 256) /\ Fits(2, ReadB3(p))
              /\ Fits(4, ReadB3(p))
         /\ IsValidSeq4(p) => IsChar(p, ReadB4(p), 4) /\ ~ IsBasic(ReadB4(p)) /\ Fits(4, ReadB4(p))
<1>1. p \in 1 .. Len(input)  BY SequenceIs, Zenon
<1>2. ASSUME IsValidSeq2(p)
      PROVE  /\ IsChar(p, ReadB2(p), 2) /\ IsBasic(ReadB2(p)) /\ ~ (ReadB2(p) < 128) /\ Fits(2, ReadB2(p))
             /\ Fits(4, ReadB2(p)) /\ (ReadB2(p) > 255 <=> ~ (ReadB2(p) < 256))
             /\ (ReadB2(p) < 256 => Fits(1, ReadB2(p)))
  <2>1. PICK c : c = ReadB2(p)  OBVIOUS
  <2>2. IsChar(p, c, 2)  BY <1>2, <2>1, SequenceIs, Zenon
  <2>3. c \in Nat /\ c >= 128 /\ c < 2048  BY <1>1, <1>2, <2>1, <2>2, Spells2, CharCode, SMT
  <2>4. /\ IsBasic(c) /\ ~ (c < 128) /\ Fits(2, c) /\ Fits(4, c) /\ (c > 255 <=> ~ (c < 256))
        /\ (c < 256 => Fits(1, c))
    BY <2>3, SMT DEF IsBasic, Fits
  <2>. QED  BY <2>1, <2>2, <2>4, SMT
<1>3. ASSUME IsValidSeq3(p)
      PROVE  /\ IsChar(p, ReadB3(p), 3) /\ IsBasic(ReadB3(p)) /\ ~ (ReadB3(p) < 256) /\ Fits(2, ReadB3(p))
             /\ Fits(4, ReadB3(p))
  <2>1. PICK c : c = ReadB3(p)  OBVIOUS
  <2>2. IsChar(p, c, 3)  BY <1>3, <2>1, SequenceIs, Zenon
  <2>3. c \in Nat /\ c >= 2048 /\ c < 65536  BY <1>1, <1>3, <2>1, <2>2, Spells3, CharCode, SMT
  <2>4. IsBasic(c) /\ ~ (c < 256) /\ Fits(2, c) /\ Fits(4, c)  BY <2>3, SMT DEF IsBasic, Fits
  <2>. QED  BY <2>1, <2>2, <2>4, Zenon
<1>4. ASSUME IsValidSeq4(p)
      PROVE  IsChar(p, ReadB4(p), 4) /\ ~ IsBasic(ReadB4(p)) /\ Fits(4, ReadB4(p))
  <2>1. PICK c : c = ReadB4(p)  OBVIOUS
  <2>2. IsChar(p, c, 4)  BY <1>4, <2>1, SequenceIs, Zenon
  <2>3. c \in Nat /\ c >= 65536 /\ c < 1114112  BY <1>1, <1>4, <2>1, <2>2, Spells4, CharCode, SMT
  <2>4. ~ IsBasic(c) /\ Fits(4, c)  BY <2>3, SMT DEF IsBasic, Fits
  <2>. QED  BY <2>1, <2>2, <2>4, Zenon
<1>. QED  BY <1>2, <1>3, <1>4, SMT

\* No sequence begins here.
LEMMA NoSequenceKeeps ==
  ASSUME IInv, pc \in Scanning, ~ (Byte(src) < 128),
         ~ IsValidSeq2(src), ~ IsValidSeq3(src), ~ IsValidSeq4(src), Fail
  PROVE  IInv'
<1>1. InputOK /\ src \in 1 .. Len(input) + 1  BY Reading, Zenon
<1>2. From[src] = {}  BY <1>1, SequenceIs, FromEnds, Zenon
<1>. QED  BY <1>2, FailKeeps, Zenon

LEMMA CopyUtf8Ucs1Keeps == ASSUME IInv, CopyUtf8Ucs1 PROVE IInv'
<1>1. pc = "copy_utf8" /\ ucs = 1  BY Zenon DEF CopyUtf8Ucs1
<1>2. pc \in Scanning  BY <1>1 DEF Scanning
<1>3. InputOK /\ src \in 1 .. Len(input) + 1 /\ IsStop(Byte(src))  BY <1>1, <1>2, Reading
<1>4. CASE Byte(src) < 128
  <2>1. Jump("copy_escape")  BY <1>4, Zenon DEF CopyUtf8Ucs1
  <2>. QED  BY <1>2, <1>3, <1>4, <2>1, JumpKeeps, Zenon
<1>5. CASE ~ (Byte(src) < 128) /\ IsValidSeq3(src)
  <2>1. PICK c : c = ReadB3(src)  OBVIOUS
  <2>2. IsChar(src, c, 3) /\ IsBasic(c) /\ ~ (c < 256) /\ Fits(4, c)
    BY <1>3, <1>5, <2>1, SequenceFits, Zenon
  <2>3. WidenUcs1(2, c, 3, "copy_utf8_inner")  BY <1>5, <2>1, Zenon DEF CopyUtf8Ucs1
  <2>4. "copy_utf8_inner" \in {"copy_ascii", "copy_utf8_inner"}  OBVIOUS
  <2>. QED  BY <1>1, <1>2, <2>2, <2>3, <2>4, Ucs1Keeps, Zenon
<1>6. CASE ~ (Byte(src) < 128) /\ ~ IsValidSeq3(src) /\ IsValidSeq2(src)
  <2>1. PICK c : c = ReadB2(src)  OBVIOUS
  <2>2. /\ IsChar(src, c, 2) /\ IsBasic(c) /\ ~ (c < 128) /\ Fits(4, c) /\ (c > 255 <=> ~ (c < 256))
        /\ (c < 256 => Fits(1, c))
    BY <1>3, <1>6, <2>1, SequenceFits
  <2>3. IF c > 255 THEN WidenUcs1(2, c, 2, "copy_utf8_inner")
        ELSE WriteSame(c, 2, "copy_ascii") /\ isAscii' = FALSE
    BY <1>6, <2>1, Zenon DEF CopyUtf8Ucs1
  <2>4. CASE ~ (c < 256)
    <3>1. WidenUcs1(2, c, 2, "copy_utf8_inner")  BY <2>2, <2>3, <2>4, Zenon
    <3>2. "copy_utf8_inner" \in {"copy_ascii", "copy_utf8_inner"}  OBVIOUS
    <3>. QED  BY <1>1, <1>2, <2>2, <2>4, <3>1, <3>2, Ucs1Keeps, Zenon
  <2>5. CASE c < 256
    <3>1. WriteSame(c, 2, "copy_ascii") /\ isAscii' = FALSE  BY <2>2, <2>3, <2>5
    <3>2. isAscii' = (isAscii /\ c < 128)  BY <2>2, <3>1
    <3>3. "copy_ascii" \in {"copy_ascii", "copy_utf8_inner"}  OBVIOUS
    <3>4. Fits(ucs, c)  BY <1>1, <2>2, <2>5, Zenon
    <3>. QED  BY <1>1, <1>2, <2>2, <3>1, <3>2, <3>3, <3>4, SameKeeps, Zenon
  <2>. QED  BY <2>4, <2>5, Zenon
<1>7. CASE ~ (Byte(src) < 128) /\ ~ IsValidSeq3(src) /\ ~ IsValidSeq2(src) /\ IsValidSeq4(src)
  <2>1. PICK c : c = ReadB4(src)  OBVIOUS
  <2>2. IsChar(src, c, 4) /\ ~ IsBasic(c) /\ Fits(4, c)  BY <1>3, <1>7, <2>1, SequenceFits, Zenon
  <2>3. WidenUcs1(4, c, 4, "copy_utf8_inner")  BY <1>7, <2>1, Zenon DEF CopyUtf8Ucs1
  <2>4. "copy_utf8_inner" \in {"copy_ascii", "copy_utf8_inner"}  OBVIOUS
  <2>. QED  BY <1>1, <1>2, <2>2, <2>3, <2>4, Ucs1Keeps, Zenon
<1>8. CASE ~ (Byte(src) < 128) /\ ~ IsValidSeq3(src) /\ ~ IsValidSeq2(src) /\ ~ IsValidSeq4(src)
  <2>1. Fail  BY <1>8, Zenon DEF CopyUtf8Ucs1
  <2>. QED  BY <1>2, <1>8, <2>1, NoSequenceKeeps, Zenon
<1>. QED  BY <1>4, <1>5, <1>6, <1>7, <1>8, Zenon

\* At the wider widths no sequence of two or three bytes widens.
LEMMA CopyUtf8WideKeeps ==
  ASSUME IInv, pc \in {"copy_utf8", "copy_utf8_inner"}, ucs \in {2, 4},
         Byte(src) < 128 => Jump(IF pc = "copy_utf8" THEN "copy_escape" ELSE "copy_ascii"),
         ~ (Byte(src) < 128) =>
           IF IsValidSeq3(src) THEN WriteSame(ReadB3(src), 3, "copy_utf8_inner") /\ isAscii' = isAscii
           ELSE IF IsValidSeq2(src) THEN WriteSame(ReadB2(src), 2, "copy_utf8_inner") /\ isAscii' = isAscii
           ELSE IF IsValidSeq4(src)
             THEN \/ ucs = 2 /\ WidenUcs2(ReadB4(src), 4, "copy_utf8_inner")
                  \/ ucs = 4 /\ WriteSame(ReadB4(src), 4, "copy_utf8_inner") /\ isAscii' = isAscii
           ELSE Fail
  PROVE  IInv'
<1>1. pc \in Scanning  BY DEF Scanning
<1>2. /\ InputOK /\ src \in 1 .. Len(input) + 1
      /\ pc = "copy_utf8" => IsStop(Byte(src))
  BY <1>1, Reading
<1>3. "copy_utf8_inner" \in {"copy_ascii", "copy_utf8_inner"}  OBVIOUS
<1>4. CASE Byte(src) < 128
  <2>1. CASE pc = "copy_utf8"
    <3>1. Jump("copy_escape")  BY <1>4, <2>1, Zenon
    <3>. QED  BY <1>1, <1>2, <1>4, <2>1, <3>1, JumpKeeps, Zenon
  <2>2. CASE pc # "copy_utf8"
    <3>1. Jump("copy_ascii")  BY <1>4, <2>2, Zenon
    <3>. QED  BY <1>1, <3>1, JumpKeeps, Zenon
  <2>. QED  BY <2>1, <2>2, Zenon
<1>5. CASE ~ (Byte(src) < 128) /\ IsValidSeq3(src)
  <2>1. PICK c : c = ReadB3(src)  OBVIOUS
  <2>2. IsChar(src, c, 3) /\ Fits(2, c) /\ Fits(4, c)  BY <1>2, <1>5, <2>1, SequenceFits, Zenon
  <2>3. WriteSame(c, 3, "copy_utf8_inner") /\ isAscii' = isAscii  BY <1>5, <2>1, Zenon
  <2>4. Fits(ucs, c)  BY <2>2, Zenon
  <2>. QED  BY <1>1, <1>3, <2>2, <2>3, <2>4, SameKeeps, Zenon
<1>6. CASE ~ (Byte(src) < 128) /\ ~ IsValidSeq3(src) /\ IsValidSeq2(src)
  <2>1. PICK c : c = ReadB2(src)  OBVIOUS
  <2>2. IsChar(src, c, 2) /\ Fits(2, c) /\ Fits(4, c)  BY <1>2, <1>6, <2>1, SequenceFits, Zenon
  <2>3. WriteSame(c, 2, "copy_utf8_inner") /\ isAscii' = isAscii  BY <1>6, <2>1, Zenon
  <2>4. Fits(ucs, c)  BY <2>2, Zenon
  <2>. QED  BY <1>1, <1>3, <2>2, <2>3, <2>4, SameKeeps, Zenon
<1>7. CASE ~ (Byte(src) < 128) /\ ~ IsValidSeq3(src) /\ ~ IsValidSeq2(src) /\ IsValidSeq4(src)
  <2>1. PICK c : c = ReadB4(src)  OBVIOUS
  <2>2. IsChar(src, c, 4) /\ ~ IsBasic(c) /\ Fits(4, c)  BY <1>2, <1>7, <2>1, SequenceFits, Zenon
  <2>3. \/ ucs = 2 /\ WidenUcs2(c, 4, "copy_utf8_inner")
        \/ ucs = 4 /\ WriteSame(c, 4, "copy_utf8_inner") /\ isAscii' = isAscii
    BY <1>7, <2>1, Zenon
  <2>4. CASE ucs = 2 /\ WidenUcs2(c, 4, "copy_utf8_inner")
    BY <1>1, <1>3, <2>2, <2>4, Ucs2Keeps, Zenon
  <2>5. CASE ucs = 4 /\ WriteSame(c, 4, "copy_utf8_inner") /\ isAscii' = isAscii
    <3>1. Fits(ucs, c)  BY <2>2, <2>5, Zenon
    <3>. QED  BY <1>1, <1>3, <2>2, <2>5, <3>1, SameKeeps, Zenon
  <2>. QED  BY <2>3, <2>4, <2>5, Zenon
<1>8. CASE ~ (Byte(src) < 128) /\ ~ IsValidSeq3(src) /\ ~ IsValidSeq2(src) /\ ~ IsValidSeq4(src)
  <2>1. Fail  BY <1>8, Zenon
  <2>. QED  BY <1>1, <1>8, <2>1, NoSequenceKeeps, Zenon
<1>. QED  BY <1>4, <1>5, <1>6, <1>7, <1>8, Zenon

LEMMA CopyUtf8Ucs2Keeps == ASSUME IInv, CopyUtf8Ucs2 PROVE IInv'
<1>1. pc \in {"copy_utf8", "copy_utf8_inner"} /\ ucs = 2  BY Zenon DEF CopyUtf8Ucs2
<1>2. Byte(src) < 128 => Jump(IF pc = "copy_utf8" THEN "copy_escape" ELSE "copy_ascii")
  BY Zenon DEF CopyUtf8Ucs2
<1>3. ~ (Byte(src) < 128) =>
        IF IsValidSeq3(src) THEN WriteSame(ReadB3(src), 3, "copy_utf8_inner") /\ isAscii' = isAscii
        ELSE IF IsValidSeq2(src) THEN WriteSame(ReadB2(src), 2, "copy_utf8_inner") /\ isAscii' = isAscii
        ELSE IF IsValidSeq4(src)
          THEN \/ ucs = 2 /\ WidenUcs2(ReadB4(src), 4, "copy_utf8_inner")
               \/ ucs = 4 /\ WriteSame(ReadB4(src), 4, "copy_utf8_inner") /\ isAscii' = isAscii
        ELSE Fail
  BY Zenon DEF CopyUtf8Ucs2
<1>. QED  BY <1>1, <1>2, <1>3, CopyUtf8WideKeeps, Zenon

LEMMA CopyUtf8Ucs4Keeps == ASSUME IInv, CopyUtf8Ucs4 PROVE IInv'
<1>1. pc \in {"copy_utf8", "copy_utf8_inner"} /\ ucs = 4  BY Zenon DEF CopyUtf8Ucs4
<1>2. Byte(src) < 128 => Jump(IF pc = "copy_utf8" THEN "copy_escape" ELSE "copy_ascii")
  BY Zenon DEF CopyUtf8Ucs4
<1>3. ~ (Byte(src) < 128) =>
        IF IsValidSeq3(src) THEN WriteSame(ReadB3(src), 3, "copy_utf8_inner") /\ isAscii' = isAscii
        ELSE IF IsValidSeq2(src) THEN WriteSame(ReadB2(src), 2, "copy_utf8_inner") /\ isAscii' = isAscii
        ELSE IF IsValidSeq4(src)
          THEN \/ ucs = 2 /\ WidenUcs2(ReadB4(src), 4, "copy_utf8_inner")
               \/ ucs = 4 /\ WriteSame(ReadB4(src), 4, "copy_utf8_inner") /\ isAscii' = isAscii
        ELSE Fail
  BY Zenon DEF CopyUtf8Ucs4
<1>. QED  BY <1>1, <1>2, <1>3, CopyUtf8WideKeeps, Zenon

-----------------------------------------------------------------------------
(* The end of the string.                                                  *)

\* What holds once the quote is read.
LEMMA Finishing ==
  ASSUME IInv, pc = "read_finalize"
  PROVE  /\ InputOK /\ Shape(ucs, dst, lenUcs1, lenUcs2) /\ BufferOK(mem)
         /\ \E t \in Seq(Nat) : /\ TextOf(t, mem, ucs, lenUcs1, lenUcs2, dst) /\ KindIn(t, ucs, isAscii)
                                /\ Spelled = {t}
         /\ reach \in Nat /\ reach <= Capacity
<1>1. pc \in Working  BY DEF Working
<1>2. State(pc, ucs, src, dst, lenUcs1, lenUcs2, isAscii, mem)  BY <1>1, Zenon DEF IInv, StateInv
<1>3. PICK t : /\ TextOf(t, mem, ucs, lenUcs1, lenUcs2, dst) /\ KindIn(t, ucs, isAscii)
               /\ Progress(pc, src, dst, t)
  BY <1>2, Zenon DEF State
<1>4. t \in Seq(Nat) /\ Spelled = {t}  BY <1>3, Zenon DEF TextOf, Progress
<1>5. Shape(ucs, dst, lenUcs1, lenUcs2) /\ BufferOK(mem)  BY <1>2, Zenon DEF State
<1>6. InputOK /\ reach \in Nat /\ reach <= Capacity  BY DEF IInv, StoresInBuffer
<1>. QED  BY <1>3, <1>4, <1>5, <1>6, Zenon

LEMMA WidenedKeeps ==
  ASSUME IInv, pc = "read_finalize", NEW e,
         \/ lenUcs2 > 0 /\ e = lenUcs1 + lenUcs2 - 1 /\ lenUcs1' = lenUcs1 /\ lenUcs2' = lenUcs2 - 1
         \/ /\ ucs > 1 /\ lenUcs2 = 0 /\ lenUcs1 > 0
            /\ e = lenUcs1 - 1 /\ lenUcs1' = lenUcs1 - 1 /\ lenUcs2' = lenUcs2,
         mem' = Put(mem, ucs, e, Unit(WidthIn(ucs, lenUcs1, lenUcs2, e), e)),
         UNCHANGED <<input, junk, pc, ucs, src, dst, isAscii, reach>>
  PROVE  IInv'
<1>1. PICK j1, j2 : j1 = lenUcs1' /\ j2 = lenUcs2'  OBVIOUS
<1>2. PICK t \in Seq(Nat) : /\ TextOf(t, mem, ucs, lenUcs1, lenUcs2, dst) /\ KindIn(t, ucs, isAscii)
                            /\ Spelled = {t}
  BY Finishing, Zenon
<1>3. InputOK /\ Shape(ucs, dst, lenUcs1, lenUcs2) /\ BufferOK(mem) /\ reach \in Nat /\ reach <= Capacity
  BY Finishing, Zenon
<1>4. mem' = Put(mem, ucs, e, UnitOf(mem, WidthIn(ucs, lenUcs1, lenUcs2, e), e))  BY Zenon DEF Unit
<1>5. \/ lenUcs2 > 0 /\ e = lenUcs1 + lenUcs2 - 1 /\ j1 = lenUcs1 /\ j2 = lenUcs2 - 1
      \/ ucs > 1 /\ lenUcs2 = 0 /\ lenUcs1 > 0 /\ e = lenUcs1 - 1 /\ j1 = lenUcs1 - 1 /\ j2 = lenUcs2
  BY <1>1, Zenon
<1>6. /\ BufferOK(Put(mem, ucs, e, UnitOf(mem, WidthIn(ucs, lenUcs1, lenUcs2, e), e)))
      /\ TextOf(t, Put(mem, ucs, e, UnitOf(mem, WidthIn(ucs, lenUcs1, lenUcs2, e), e)), ucs, j1, j2, dst)
      /\ Shape(ucs, dst, j1, j2)
  BY <1>2, <1>3, <1>5, TextWidened
<1>7. BufferOK(mem') /\ TextOf(t, mem', ucs, j1, j2, dst) /\ Shape(ucs, dst, j1, j2)  BY <1>4, <1>6, Zenon
<1>8. /\ "read_finalize" \notin Scanning /\ "read_finalize" # "skip_ascii"
      /\ "read_finalize" \notin {"copy_utf8", "copy_escape"} /\ "read_finalize" # "copy_escape"
  BY DEF Scanning
<1>9. Progress("read_finalize", src, dst, t)  BY <1>2, <1>8, Zenon DEF Progress
<1>10. State("read_finalize", ucs, src, dst, j1, j2, isAscii, mem')
  BY <1>2, <1>7, <1>8, <1>9, Zenon DEF State
<1>11. pc' = "read_finalize" /\ UNCHANGED <<ucs, src, dst, isAscii, reach>> /\ SameInput  BY DEF SameInput
<1>12. State(pc', ucs', src', dst', lenUcs1', lenUcs2', isAscii', mem')  BY <1>1, <1>10, <1>11, Zenon
<1>13. reach' \in Nat /\ reach' <= Capacity /\ pc' \in Working  BY <1>3, <1>11, Zenon DEF Working
<1>. QED  BY <1>11, <1>12, <1>13, Kept, Zenon

LEMMA WidenUcs2BackKeeps == ASSUME IInv, WidenUcs2Back PROVE IInv'
<1>1. /\ pc = "read_finalize" /\ lenUcs2 > 0 /\ Widened(Unit(2, lenUcs1 + lenUcs2 - 1))
      /\ lenUcs2' = lenUcs2 - 1 /\ lenUcs1' = lenUcs1
  BY DEF WidenUcs2Back
<1>2. PICK e : e = lenUcs1 + lenUcs2 - 1  OBVIOUS
<1>3. WidthIn(ucs, lenUcs1, lenUcs2, e) = 2
  <2>1. Shape(ucs, dst, lenUcs1, lenUcs2)  BY <1>1, Finishing, Zenon
  <2>2. lenUcs1 \in Nat /\ lenUcs2 \in Nat /\ (ucs # 4 => lenUcs2 = 0)  BY <2>1 DEF Shape
  <2>3. ucs # 1 /\ ~ (e < lenUcs1) /\ e < lenUcs1 + lenUcs2  BY <1>1, <1>2, <2>2
  <2>. QED  BY <2>3, Zenon DEF WidthIn
<1>4. /\ mem' = Put(mem, ucs, e, Unit(WidthIn(ucs, lenUcs1, lenUcs2, e), e))
      /\ UNCHANGED <<input, junk, pc, ucs, src, dst, isAscii, reach>>
  BY <1>1, <1>2, <1>3, Zenon DEF Widened
<1>. QED  BY <1>1, <1>2, <1>4, WidenedKeeps, Zenon

LEMMA WidenUcs1BackKeeps == ASSUME IInv, WidenUcs1Back PROVE IInv'
<1>1. /\ pc = "read_finalize" /\ ucs > 1 /\ lenUcs2 = 0 /\ lenUcs1 > 0 /\ Widened(Unit(1, lenUcs1 - 1))
      /\ lenUcs1' = lenUcs1 - 1 /\ lenUcs2' = lenUcs2
  BY DEF WidenUcs1Back
<1>2. PICK e : e = lenUcs1 - 1  OBVIOUS
<1>3. WidthIn(ucs, lenUcs1, lenUcs2, e) = 1 /\ lenUcs1 + lenUcs2 - 1 = e
  <2>1. Shape(ucs, dst, lenUcs1, lenUcs2)  BY <1>1, Finishing, Zenon
  <2>2. lenUcs1 \in Nat /\ lenUcs2 \in Nat  BY <2>1 DEF Shape
  <2>3. e < lenUcs1 /\ lenUcs1 + lenUcs2 - 1 = e  BY <1>1, <1>2, <2>2
  <2>. QED  BY <2>3, Zenon DEF WidthIn
<1>4. /\ mem' = Put(mem, ucs, e, Unit(WidthIn(ucs, lenUcs1, lenUcs2, e), e))
      /\ UNCHANGED <<input, junk, pc, ucs, src, dst, isAscii, reach>>
  BY <1>1, <1>2, <1>3, Zenon DEF Widened
<1>. QED  BY <1>1, <1>2, <1>4, WidenedKeeps, Zenon

LEMMA MakeStringKeeps == ASSUME IInv, MakeString PROVE IInv'
<1>1. pc = "read_finalize" /\ (ucs = 1 \/ lenUcs1 + lenUcs2 = 0)  BY DEF MakeString
<1>2. PICK t \in Seq(Nat) : /\ TextOf(t, mem, ucs, lenUcs1, lenUcs2, dst) /\ KindIn(t, ucs, isAscii)
                            /\ Spelled = {t}
  BY <1>1, Finishing, Zenon
<1>3. Shape(ucs, dst, lenUcs1, lenUcs2)  BY <1>1, Finishing, Zenon
<1>4. ucs \in {1, 2, 4} /\ dst \in Nat /\ lenUcs1 \in Nat /\ lenUcs2 \in Nat  BY <1>3 DEF Shape
<1>5. \A i \in 0 .. dst - 1 : WidthIn(ucs, lenUcs1, lenUcs2, i) = ucs
  <2>1. TAKE i \in 0 .. dst - 1
  <2>2. CASE ucs = 1  BY <2>2 DEF WidthIn
  <2>3. CASE ucs # 1
    <3>1. ~ (i < lenUcs1) /\ ~ (i < lenUcs1 + lenUcs2)  BY <1>1, <1>4, <2>3
    <3>. QED  BY <2>3, <3>1, Zenon DEF WidthIn
  <2>. QED  BY <2>2, <2>3
<1>6. /\ Len(t) = dst
      /\ \A i \in 0 .. dst - 1 : t[i + 1] = Unit(ucs, i)
  BY <1>2, <1>5, Zenon DEF TextOf, Unit
<1>7. t = [i \in 1 .. dst |-> Unit(ucs, i - 1)]
  <2>1. t = [i \in 1 .. dst |-> t[i]]  BY <1>6
  <2>2. ASSUME NEW i \in 1 .. dst PROVE t[i] = Unit(ucs, i - 1)
    <3>1. i - 1 \in 0 .. dst - 1 /\ (i - 1) + 1 = i  BY <1>4
    <3>. QED  BY <1>6, <3>1, Zenon
  <2>. QED  BY <2>1, <2>2, Zenon
<1>8. PICK k : k = IF ucs = 1 /\ isAscii THEN 0 ELSE ucs  OBVIOUS
<1>9. result' = [kind |-> k, units |-> t]  BY <1>7, <1>8, Zenon DEF MakeString
<1>10. KindFor(k, t)
  <2>1. CASE ucs = 1 /\ isAscii
    <3>1. k = 0 /\ Ascii(t)  BY <1>2, <1>8, <2>1, Zenon DEF KindIn
    <3>. QED  BY <3>1, Zenon DEF KindFor
  <2>2. CASE ucs = 1 /\ ~ isAscii
    <3>1. k = 1 /\ Latin(t) /\ ~ Ascii(t)  BY <1>2, <1>8, <2>2, Zenon DEF KindIn
    <3>. QED  BY <3>1, Zenon DEF KindFor
  <2>3. CASE ucs = 2
    <3>1. k = 2  BY <1>8, <2>3
    <3>2. Basic(t) /\ ~ Latin(t)  BY <1>2, <2>3, Zenon DEF KindIn
    <3>. QED  BY <3>1, <3>2, Zenon DEF KindFor
  <2>4. CASE ucs = 4
    <3>1. k = 4  BY <1>8, <2>4
    <3>2. ~ Basic(t)  BY <1>2, <2>4, Zenon DEF KindIn
    <3>. QED  BY <3>1, <3>2, Zenon DEF KindFor
  <2>. QED  BY <1>4, <2>1, <2>2, <2>3, <2>4
<1>11. SameInput /\ pc' = "returned" /\ UNCHANGED <<dst, lenUcs1, lenUcs2, reach>>
  BY DEF MakeString, SameInput, Goto
<1>. QED  BY <1>2, <1>9, <1>10, <1>11, ReturnKeeps

-----------------------------------------------------------------------------
(* The theorems.                                                           *)

LEMMA InitKeeps == ASSUME Init PROVE IInv
<1>1. /\ InputOK /\ pc = "skip_ascii" /\ ucs = 1 /\ src = 1 /\ dst = 0 /\ lenUcs1 = 0 /\ lenUcs2 = 0
      /\ isAscii = TRUE /\ mem = [b \in 0 .. Capacity - 1 |-> junk] /\ reach = 0
  BY DEF Init, InputOK
<1>2. PICK l \in Nat : l = Len(input)  BY <1>1, LenIs, Zenon
<1>3. BufferOK(mem)
  <2>1. junk \in Octets  BY <1>1, JunkAssumption DEF InputOK
  <2>. QED  BY <1>1, <2>1 DEF BufferOK
<1>4. Shape(ucs, dst, lenUcs1, lenUcs2)  BY <1>1, <1>2 DEF Shape
<1>5. PICK t \in Seq(Nat) : t = <<>> /\ Len(t) = 0
  <2>1. <<>> \in Seq(Nat) /\ Len(<<>>) = 0  OBVIOUS
  <2>. QED  BY <2>1, Zenon
<1>6. TextOf(t, mem, ucs, lenUcs1, lenUcs2, dst)
  <2>1. dst = 0 /\ \A i \in 0 .. dst - 1 : FALSE  BY <1>1
  <2>. QED  BY <1>5, <2>1, Zenon DEF TextOf
<1>7. KindIn(t, ucs, isAscii)
  <2>1. Ascii(t) /\ Latin(t)  BY <1>5, BelowNone, Zenon DEF Ascii, Latin
  <2>2. 1 # 2 /\ 1 # 4 /\ isAscii \in BOOLEAN  BY <1>1
  <2>. QED  BY <1>1, <2>1, <2>2, Zenon DEF KindIn
<1>8. Progress(pc, src, dst, t)
  <2>1. src \in 1 .. Len(input) + 1 /\ dst < src  BY <1>1, <1>2
  <2>2. From[1] \in SUBSET Readings  BY <1>1, <2>1, FromType, Zenon
  <2>3. Prefixed(t, From[src]) = Spelled  BY <1>1, <1>5, <2>2, PrefixedByNone, SpelledIs, Zenon
  <2>4. pc # "read_finalize" /\ pc \notin {"copy_utf8", "copy_escape"} /\ pc # "copy_escape"  BY <1>1
  <2>. QED  BY <1>1, <2>1, <2>3, <2>4, Zenon DEF Progress
<1>9. StateInv  BY <1>1, <1>3, <1>4, <1>6, <1>7, <1>8, Zenon DEF StateInv, State
<1>10. pc \in Working \cup {"returned", "failed"} /\ pc # "returned" /\ pc # "failed"
  BY <1>1 DEF Working, Scanning
<1>11. ReadsExactly /\ LeastKind  BY <1>10, Zenon DEF ReadsExactly, LeastKind
<1>12. reach \in Nat /\ StoresInBuffer  BY <1>1, <1>2 DEF StoresInBuffer, Capacity
<1>. QED  BY <1>1, <1>9, <1>10, <1>11, <1>12, Zenon DEF IInv

LEMMA StutterKeeps == ASSUME IInv, UNCHANGED vars PROVE IInv'
<1>1. UNCHANGED <<input, junk, pc, ucs, src, dst, lenUcs1, lenUcs2, isAscii, mem, reach, result>>
  BY Zenon DEF vars
<1>2. CASE pc \in Working
  <2>1. /\ SameInput /\ pc' = pc /\ reach' = reach
        /\ UNCHANGED <<ucs, src, dst, lenUcs1, lenUcs2, isAscii, mem>>
    BY <1>1 DEF SameInput
  <2>2. State(pc, ucs, src, dst, lenUcs1, lenUcs2, isAscii, mem)  BY <1>2, Zenon DEF IInv, StateInv
  <2>3. State(pc', ucs', src', dst', lenUcs1', lenUcs2', isAscii', mem')  BY <2>1, <2>2, Zenon
  <2>4. reach' \in Nat /\ reach' <= Capacity /\ pc' \in Working
    BY <1>2, <2>1, Zenon DEF IInv, StoresInBuffer
  <2>. QED  BY <2>1, <2>3, <2>4, Kept, Zenon
<1>3. CASE pc \notin Working
  <2>1. InputOK' /\ (pc \in Working \cup {"returned", "failed"})' /\ (reach \in Nat)'
    BY <1>1 DEF IInv, InputOK, Working, Scanning
  <2>2. StateInv'
    <3>1. pc' \notin Working  BY <1>1, <1>3, Zenon
    <3>. QED  BY <3>1, Zenon DEF StateInv, Working, Scanning
  <2>3. ReadsExactly'
    <3>1. Spelled' = Spelled /\ pc' = pc /\ result' = result  BY <1>1, SpelledStays, Zenon
    <3>. QED  BY <3>1, Zenon DEF IInv, ReadsExactly
  <2>4. LeastKind'  BY <1>1, SMT DEF IInv, LeastKind, Below, Places
  <2>5. StoresInBuffer'  BY <1>1 DEF IInv, StoresInBuffer, Capacity
  <2>. QED  BY <2>1, <2>2, <2>3, <2>4, <2>5, Zenon DEF IInv
<1>. QED  BY <1>2, <1>3, Zenon

LEMMA StepKeeps == ASSUME IInv, [Next]_vars PROVE IInv'
<1>1. CASE FastAscii \/ SkipAscii  BY <1>1, FastAsciiKeeps, SkipAsciiKeeps, Zenon
<1>2. CASE CopyEscapeUcs1 \/ CopyEscapeUcs2 \/ CopyEscapeUcs4
  BY <1>2, CopyEscapeUcs1Keeps, CopyEscapeUcs2Keeps, CopyEscapeUcs4Keeps, Zenon
<1>3. CASE CopyAsciiUcs1 \/ CopyAsciiUcs2 \/ CopyAsciiUcs4
  BY <1>3, CopyAsciiUcs1Keeps, CopyAsciiUcs2Keeps, CopyAsciiUcs4Keeps, Zenon
<1>4. CASE CopyUtf8Ucs1 \/ CopyUtf8Ucs2 \/ CopyUtf8Ucs4
  BY <1>4, CopyUtf8Ucs1Keeps, CopyUtf8Ucs2Keeps, CopyUtf8Ucs4Keeps, Zenon
<1>5. CASE WidenUcs2Back \/ WidenUcs1Back \/ MakeString
  BY <1>5, WidenUcs2BackKeeps, WidenUcs1BackKeeps, MakeStringKeeps, Zenon
<1>6. CASE UNCHANGED vars  BY <1>6, StutterKeeps, Zenon
<1>. QED  BY <1>1, <1>2, <1>3, <1>4, <1>5, <1>6, Zenon DEF Next

LEMMA Invariant == Spec => []IInv
<1>1. Init => IInv  BY InitKeeps
<1>2. IInv /\ [Next]_vars => IInv'  BY StepKeeps
<1>. QED  BY <1>1, <1>2, PTL DEF Spec

\* read_bytes fails on every input that is no string of UTF-8, and of every
\* other returns exactly the characters that the input spells, whatever lies
\* behind the document and however long the string is.
THEOREM BytesAreRead == Spec => []ReadsExactly
<1>1. IInv => ReadsExactly  BY Zenon DEF IInv
<1>. QED  BY <1>1, Invariant, PTL

\* The str that make_string is given has the least kind its characters allow,
\* through every widening and every escape.
THEOREM KindIsRight == Spec => []LeastKind
<1>1. IInv => LeastKind  BY Zenon DEF IInv
<1>. QED  BY <1>1, Invariant, PTL

\* No store of read_bytes leaves the temporary buffer of four bytes for each
\* byte of the document, and its parts lie one after the other.
THEOREM BufferHoldsAll == Spec => []StoresInBuffer
<1>1. IInv => StoresInBuffer  BY Zenon DEF IInv
<1>. QED  BY <1>1, Invariant, PTL
=====
