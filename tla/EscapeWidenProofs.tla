-------------------------- MODULE EscapeWidenProofs --------------------------
(***************************************************************************)
(* Theorems about EscapeWiden: for every length of the string and of the   *)
(* vectors, and every order of characters and escapes in which no part of  *)
(* width 2 is closed, the parts of the buffer hold the text; whatever the  *)
(* order, the str has its least kind.                                      *)
(***************************************************************************)
EXTENDS EscapeWiden, SequenceTheorems, TLAPS

-----------------------------------------------------------------------------
(* The inductive invariant.                                                *)

\* Character i is whole at its place in the buffer.
Held(i) ==
  \A b \in Nat :
    (i - 1) * WidthOf(i) <= b /\ b < i * WidthOf(i) => b \in Bytes /\ temp[b] = i

\* Where the writer is and what each part can hold.
Layout ==
  /\ u8size <= Len(text)
  /\ width = 0 => \A i \in 1 .. Len(text) : text[i] <= copy
  /\ width > 0 =>
       /\ Width(copy) <= width
       /\ writer = Len(text) * width
       /\ \A i \in 1 .. Len(text) : text[i] <= width /\ Held(i)

\* What the flags say of the text, in the copy for ASCII text.
KnownOfAscii ==
  /\ maxvec = 0 /\ maxEscape = 0
  /\ width = 1 => (isAscii <=> \A i \in 1 .. Len(text) : text[i] = 0)

\* What they say in the others.
KnownOfWide ==
  /\ \A i \in 1 .. Len(text) : text[i] <= Largest
  /\ Largest # 0 => \E i \in 1 .. Len(text) : text[i] = Largest

Known ==
  /\ copy = 0 => KnownOfAscii
  /\ copy # 0 => KnownOfWide
  /\ width > Width(copy) => \E i \in 1 .. Len(text) : text[i] = width

\* What is left of that once a part of width 2 is closed.
Strayed ==
  /\ width = 4 /\ copy # 4
  /\ \E i \in 1 .. Len(text) : text[i] = 4

IInv == /\ TypeOK
        /\ pc = "crashed" => u16size # 0
        /\ u16size = 0 => Layout /\ Known
        /\ u16size # 0 => Strayed
        /\ ResultHasText /\ LeastKind

-----------------------------------------------------------------------------
(* Numbers and sequences.                                                  *)

LEMMA WidthType == \A k \in Kinds : Width(k) \in {1, 2, 4} /\ k <= Width(k)
  BY DEF Kinds, Width

LEMMA LargerType ==
  ASSUME NEW a \in Kinds, NEW b \in Kinds
  PROVE  /\ Larger(a, b) \in Kinds
         /\ a <= Larger(a, b) /\ b <= Larger(a, b)
         /\ Larger(a, b) \in {a, b}
  BY DEF Kinds, Larger

LEMMA LargerGrows ==
  ASSUME NEW e \in Kinds, NEW v \in Kinds, NEW w \in Kinds, v <= w
  PROVE  /\ Larger(e, v) \in Kinds /\ Larger(e, w) \in Kinds
         /\ Larger(e, v) <= Larger(e, w) /\ w <= Larger(e, w)
         /\ Larger(e, v) # Larger(e, w) => Larger(e, w) = w
  BY DEF Kinds, Larger

LEMMA PartForType ==
  ASSUME copy \in Kinds, NEW k \in Kinds
  PROVE  /\ PartFor(k) \in {1, 2, 4}
         /\ Width(copy) <= PartFor(k) /\ k <= PartFor(k)
         /\ PartFor(k) > Width(copy) => k = PartFor(k)
  BY DEF Kinds, PartFor, Width, Larger

LEMMA Division ==
  ASSUME NEW w \in {1, 2, 4}, NEW n \in Nat
  PROVE  /\ n * w \in Nat
         /\ (n * w) \div w = n
         /\ n * w + w = (n + 1) * w
  <1>1. CASE w = 1  BY <1>1
  <1>2. CASE w = 2  BY <1>2
  <1>3. CASE w = 4  BY <1>3
  <1>. QED  BY <1>1, <1>2, <1>3

\* The places of wider parts are not before those of narrower ones.
LEMMA Monotone ==
  ASSUME NEW v \in {1, 2, 4}, NEW w \in {1, 2, 4}, v <= w,
         NEW i \in Nat, NEW n \in Nat, i <= n
  PROVE  i * v <= n * w
  <1>1. CASE v = 1 /\ w = 1  BY <1>1
  <1>2. CASE v = 1 /\ w = 2  BY <1>2
  <1>3. CASE v = 1 /\ w = 4  BY <1>3
  <1>4. CASE v = 2 /\ w = 2  BY <1>4
  <1>5. CASE v = 2 /\ w = 4  BY <1>5
  <1>6. CASE v = 4 /\ w = 4  BY <1>6
  <1>. QED  BY <1>1, <1>2, <1>3, <1>4, <1>5, <1>6

\* The text after a vector.
LEMMA Joined ==
  ASSUME NEW s \in Seq(Kinds), NEW n \in Nat, NEW ks \in [1 .. n -> Kinds]
  PROVE  /\ s \o ks \in Seq(Kinds)
         /\ Len(s \o ks) = Len(s) + n
         /\ \A i \in 1 .. Len(s) : (s \o ks)[i] = s[i]
         /\ \A i \in Len(s) + 1 .. Len(s) + n : (s \o ks)[i] = ks[i - Len(s)]
  <1>1. ks \in Seq(Kinds)  BY SeqDef
  <1>2. Len(ks) = n
    <2>1. Len(ks) \in Nat /\ 1 .. Len(ks) = 1 .. n  BY <1>1, LenProperties
    <2>2. ASSUME Len(ks) < n PROVE FALSE
      <3>1. n \in 1 .. n /\ n \notin 1 .. Len(ks)  BY <2>1, <2>2
      <3>. QED  BY <2>1, <3>1
    <2>3. ASSUME n < Len(ks) PROVE FALSE
      <3>1. Len(ks) \in 1 .. Len(ks) /\ Len(ks) \notin 1 .. n  BY <2>1, <2>3
      <3>. QED  BY <2>1, <3>1
    <2>. QED  BY <2>1, <2>2, <2>3
  <1>3. /\ s \o ks \in Seq(Kinds) /\ Len(s \o ks) = Len(s) + n /\ Len(s) \in Nat
        /\ \A i \in 1 .. Len(s) + n :
             (s \o ks)[i] = IF i <= Len(s) THEN s[i] ELSE ks[i - Len(s)]
    BY <1>1, <1>2, ConcatProperties, LenProperties
  <1>. QED  BY <1>3

\* The text after an escape.
LEMMA Longer ==
  ASSUME NEW s \in Seq(Kinds), NEW k \in Kinds
  PROVE  /\ Append(s, k) \in Seq(Kinds)
         /\ Len(Append(s, k)) = Len(s) + 1
         /\ \A i \in 1 .. Len(s) : Append(s, k)[i] = s[i]
         /\ Append(s, k)[Len(s) + 1] = k
  BY AppendProperties

-----------------------------------------------------------------------------
(* Stores.                                                                 *)

\* The unit of a byte.
LEMMA UnitOfByte ==
  ASSUME NEW w \in {1, 2, 4}, NEW i \in Nat, NEW k \in Nat, 1 <= i, i <= k,
         NEW b \in Nat, (k - 1) * w <= b, b < k * w
  PROVE  /\ b >= (i - 1) * w
         /\ i + ((b - (i - 1) * w) \div w) = k
  <1>1. CASE w = 1  BY <1>1
  <1>2. CASE w = 2  BY <1>2
  <1>3. CASE w = 4  BY <1>3
  <1>. QED  BY <1>1, <1>2, <1>3

LEMMA StoredType ==
  ASSUME TypeOK, NEW s \in Seq(Kinds), Len(s) <= MaxText,
         NEW p \in Int, NEW i \in Nat, NEW n \in Nat, NEW w \in {1, 2, 4}
  PROVE  Stored(s, p, i, n, w) \in [Bytes -> 0 .. MaxText]
  <1>. SUFFICES ASSUME NEW b \in Bytes, b >= p, i + ((b - p) \div w) <= Len(s)
                PROVE  Truncated(s, i + ((b - p) \div w), w) \in 0 .. MaxText
    BY BoundsAssumption DEF Stored, TypeOK
  <1>1. b - p \in Nat  BY BoundsAssumption DEF Bytes
  <1>2. (b - p) \div w \in Nat  BY <1>1
  <1>3. Len(s) \in Nat /\ MaxText \in Nat  BY BoundsAssumption
  <1>. QED  BY <1>2, <1>3 DEF Truncated

\* Where byte b of unit k of a store of n units, from number i on, is.
UnitPlace(b, k, i, n, w) ==
  /\ b \in Bytes
  /\ b >= (i - 1) * w /\ b < (i - 1) * w + n * w
  /\ i + ((b - (i - 1) * w) \div w) = k

ByteOfUnit(b, k, w) == (k - 1) * w <= b /\ b < k * w

LEMMA UnitInStore ==
  ASSUME NEW w \in {1, 2, 4}, NEW i \in Nat, 1 <= i, NEW n \in Nat,
         NEW k \in Nat, i <= k, k < i + n, k <= MaxText,
         NEW b \in Nat, ByteOfUnit(b, k, w)
  PROVE  UnitPlace(b, k, i, n, w)
  <1>0. (k - 1) * w <= b /\ b < k * w  BY DEF ByteOfUnit
  <1>1. b >= (i - 1) * w /\ i + ((b - (i - 1) * w) \div w) = k  BY <1>0, UnitOfByte
  <1>2. k * w <= MaxText * 4  BY Monotone, BoundsAssumption
  <1>3. b \in Bytes  BY <1>0, <1>2, BoundsAssumption DEF Bytes
  <1>4. b < (i - 1) * w + n * w
    <2>1. CASE w = 1  BY <1>0, <2>1
    <2>2. CASE w = 2  BY <1>0, <2>2
    <2>3. CASE w = 4  BY <1>0, <2>3
    <2>. QED  BY <2>1, <2>2, <2>3
  <1>. QED  BY <1>1, <1>3, <1>4 DEF UnitPlace

\* A store leaves the characters before it as they are.
LEMMA StoredBefore ==
  ASSUME NEW s, NEW p \in Nat, NEW i, NEW n, NEW w, NEW b \in Bytes, b < p
  PROVE  Stored(s, p, i, n, w)[b] = temp[b]
  <1>. ~(b >= p)  BY BoundsAssumption DEF Bytes
  <1>. QED  BY DEF Stored

-----------------------------------------------------------------------------
(* What the stores of an action keep.                                      *)

\* The characters of a text that is longer after a step than before.
LongerBy(m) ==
  /\ text' \in Seq(Kinds) /\ Len(text') <= MaxText
  /\ m \in Nat /\ Len(text') = Len(text) + m
  /\ \A i \in 1 .. Len(text) : text'[i] = text[i]

\* A store behind the text so far keeps each of its characters.
LEMMA OldHeld ==
  ASSUME TypeOK, Layout, width > 0, NEW w \in {1, 2, 4}, width <= w,
         NEW s, NEW j, NEW n, temp' = Stored(s, Len(text) * w, j, n, w),
         NEW i \in 1 .. Len(text), WidthOf(i)' = WidthOf(i)
  PROVE  Held(i)'
  <1>1. Held(i)  BY DEF Layout
  <1>2. i \in Nat /\ Len(text) \in Nat /\ i <= Len(text)  BY DEF TypeOK
  <1>3. WidthOf(i) \in {1, 2, 4} /\ WidthOf(i) <= w
    BY DEF TypeOK, WidthOf, Kinds
  <1>4. i * WidthOf(i) <= Len(text) * w  BY <1>2, <1>3, Monotone
  <1>5. Len(text) * w \in Nat /\ i * WidthOf(i) \in Nat  BY <1>2, <1>3, Division
  <1>6. ASSUME NEW b \in Nat, (i - 1) * WidthOf(i) <= b, b < i * WidthOf(i)
        PROVE  b \in Bytes /\ temp'[b] = i
    <2>1. b \in Bytes /\ temp[b] = i  BY <1>1, <1>6 DEF Held
    <2>2. b < Len(text) * w  BY <1>4, <1>5, <1>6
    <2>. QED  BY <2>1, <2>2, <1>5, StoredBefore
  <1>. QED  BY <1>6, WidthOf(i)' = WidthOf(i) DEF Held, Bytes

\* What is stored from character j on is whole, as far as it fits.
LEMMA NewHeld ==
  ASSUME NEW m, LongerBy(m), NEW w \in {1, 2, 4},
         NEW j \in Nat, 1 <= j, NEW n \in Nat,
         temp' = Stored(text', (j - 1) * w, j, n, w),
         NEW i \in j .. Len(text'), i < j + n, text'[i] <= w, WidthOf(i)' = w
  PROVE  Held(i)'
  <1>1. ASSUME NEW b \in Nat, (i - 1) * w <= b, b < i * w
        PROVE  b \in Bytes /\ temp'[b] = i
    <2>1. text' \in Seq(Kinds) /\ Len(text') <= MaxText  BY DEF LongerBy
    <2>2. /\ i \in Nat /\ j <= i /\ i <= Len(text') /\ i <= MaxText
          /\ i < j + n /\ 1 <= j
          /\ (i - 1) * w <= b /\ b < i * w
      BY <1>1, <2>1, BoundsAssumption
    <2>3. UnitPlace(b, i, j, n, w)  BY <1>1, <2>2, UnitInStore DEF ByteOfUnit
    <2>. QED  BY <2>2, <2>3 DEF UnitPlace, Stored, Truncated
  <1>. QED  BY <1>1 DEF Held, Bytes

-----------------------------------------------------------------------------
(* Reading.                                                                *)

\* The larger of what maxvec was and the characters of a vector.
LEMMA MaxExists ==
  ASSUME NEW v \in Kinds, NEW n \in Nat, NEW ks \in [1 .. n -> Kinds]
  PROVE  \E m \in Kinds :
           /\ m >= v /\ \A i \in 1 .. n : m >= ks[i]
           /\ m = v \/ \E i \in 1 .. n : m = ks[i]
  <1>0. \A i \in 1 .. n : ks[i] \in {0, 1, 2, 4}  BY DEF Kinds
  <1>. DEFINE Has(k) == v = k \/ \E i \in 1 .. n : k = ks[i]
  <1>1. CASE Has(4)  BY <1>0, <1>1 DEF Kinds
  <1>2. CASE ~Has(4) /\ Has(2)  BY <1>0, <1>2 DEF Kinds
  <1>3. CASE ~Has(4) /\ ~Has(2) /\ Has(1)  BY <1>0, <1>3 DEF Kinds
  <1>4. CASE ~Has(4) /\ ~Has(2) /\ ~Has(1)  BY <1>0, <1>4 DEF Kinds
  <1>. QED  BY <1>1, <1>2, <1>3, <1>4

\* A step that goes on reading, from a state in which the invariant holds.
LEMMA CopyRawKeeps ==
  ASSUME IInv, CopyRaw, u16size = 0
  PROVE  IInv'
  <1>1. /\ TypeOK /\ Layout /\ Known /\ pc = "reading" /\ pc' = "reading"
        /\ copy \in Kinds /\ Len(text) \in Nat
    BY CopiesAssumption DEF IInv, TypeOK, CopyRaw
  <1>0. PICK n \in 1 .. Batch : \E ks \in [1 .. n -> {k \in Kinds : k <= copy}] :
          /\ Len(text) + n <= MaxText
          /\ text' = text \o ks
          /\ IF width = 0 THEN UNCHANGED <<temp, writer>>
             ELSE /\ temp' = Stored(text', writer, Len(text) + 1, Batch, width)
                  /\ writer' = writer + n * width
          /\ maxvec' = IF copy = 0 THEN maxvec
                       ELSE CHOOSE m \in Kinds :
                              /\ m >= maxvec /\ \A i \in 1 .. n : m >= ks[i]
                              /\ m = maxvec \/ \E i \in 1 .. n : m = ks[i]
    BY DEF CopyRaw
  <1>2. PICK ks \in [1 .. n -> {k \in Kinds : k <= copy}] :
          /\ Len(text) + n <= MaxText
          /\ text' = text \o ks
          /\ IF width = 0 THEN UNCHANGED <<temp, writer>>
             ELSE /\ temp' = Stored(text', writer, Len(text) + 1, Batch, width)
                  /\ writer' = writer + n * width
          /\ maxvec' = IF copy = 0 THEN maxvec
                       ELSE CHOOSE m \in Kinds :
                              /\ m >= maxvec /\ \A i \in 1 .. n : m >= ks[i]
                              /\ m = maxvec \/ \E i \in 1 .. n : m = ks[i]
    BY <1>0
  <1>3. n \in Nat /\ n <= Batch /\ ks \in [1 .. n -> Kinds]
        /\ \A i \in 1 .. n : ks[i] \in Kinds /\ ks[i] <= copy
    BY <1>2, BoundsAssumption
  <1>4. /\ LongerBy(n)
        /\ \A i \in Len(text) + 1 .. Len(text) + n : text'[i] = ks[i - Len(text)]
    BY <1>1, <1>2, <1>3, Joined DEF LongerBy, TypeOK
  <1>5. \A i \in Len(text) + 1 .. Len(text) + n : text'[i] \in Kinds /\ text'[i] <= copy
    <2>1. ASSUME NEW i \in Len(text) + 1 .. Len(text) + n  PROVE i - Len(text) \in 1 .. n
      BY <1>1, <1>3
    <2>. QED  BY <1>3, <1>4, <2>1
  <1>6. /\ maxvec' \in Kinds
        /\ copy = 0 => maxvec' = maxvec
        /\ copy # 0 =>
             /\ maxvec' >= maxvec /\ \A i \in 1 .. n : maxvec' >= ks[i]
             /\ maxvec' = maxvec \/ \E i \in 1 .. n : maxvec' = ks[i]
    <2>1. maxvec \in Kinds  BY <1>1 DEF TypeOK
    <2>2. CASE copy = 0  BY <1>2, <2>1, <2>2
    <2>3. CASE copy # 0  BY <1>2, <1>3, <2>1, <2>3, MaxExists
    <2>. QED  BY <2>2, <2>3
  <1>7. UNCHANGED <<copy, pc, width, u8size, u16size, maxEscape, isAscii, result>>  BY DEF CopyRaw
  <1>8. TypeOK'
    <2>1. width > 0 => temp' \in [Bytes -> 0 .. MaxText] /\ writer' \in Nat
      <3>1. ASSUME width > 0  PROVE width \in {1, 2, 4} /\ writer \in Nat /\ n * width \in Nat
        <4>1. width \in {1, 2, 4} /\ writer = Len(text) * width
          BY <1>1, <3>1 DEF TypeOK, Kinds, Layout
        <4>. QED  BY <1>1, <1>3, <4>1, Division
      <3>2. text' \in Seq(Kinds) /\ Len(text') <= MaxText /\ Len(text) + 1 \in Nat
        BY <1>1, <1>4 DEF LongerBy
      <3>3. ASSUME width > 0
            PROVE Stored(text', writer, Len(text) + 1, Batch, width) \in [Bytes -> 0 .. MaxText]
        <4>1. writer \in Int /\ Batch \in Nat  BY <1>1, BoundsAssumption DEF TypeOK
        <4>. QED  BY <1>1, <3>1, <3>2, <3>3, <4>1, StoredType
      <3>. QED  BY <1>1, <1>2, <3>1, <3>3 DEF TypeOK, Kinds
    <2>2. width = 0 => temp' = temp /\ writer' = writer  BY <1>2
    <2>3. width \in Nat  BY <1>1 DEF TypeOK, Kinds
    <2>. QED  BY <1>1, <1>4, <1>6, <1>7, <2>1, <2>2, <2>3 DEF TypeOK, LongerBy, Bytes
  <1>9. Layout'
    <2>1. u8size' <= Len(text')  BY <1>1, <1>3, <1>4, <1>7 DEF Layout, LongerBy, TypeOK
    <2>2. ASSUME width = 0  PROVE \A i \in 1 .. Len(text') : text'[i] <= copy
      BY <1>1, <1>4, <1>5, <2>2 DEF Layout, LongerBy
    <2>3. ASSUME width > 0
          PROVE  /\ Width(copy) <= width /\ writer' = Len(text') * width
                 /\ \A i \in 1 .. Len(text') : text'[i] <= width /\ Held(i)'
      <3>1. /\ width \in {1, 2, 4} /\ Width(copy) <= width /\ copy <= width
            /\ writer = Len(text) * width
        BY <1>1, <2>3, WidthType DEF Layout, TypeOK, Kinds
      <3>2. writer' = Len(text') * width
        <4>1. CASE width = 1  BY <1>1, <1>2, <1>3, <1>4, <3>1, <4>1 DEF LongerBy
        <4>2. CASE width = 2  BY <1>1, <1>2, <1>3, <1>4, <3>1, <4>2 DEF LongerBy
        <4>3. CASE width = 4  BY <1>1, <1>2, <1>3, <1>4, <3>1, <4>3 DEF LongerBy
        <4>. QED  BY <3>1, <4>1, <4>2, <4>3
      <3>3. temp' = Stored(text', Len(text) * width, Len(text) + 1, Batch, width)
        BY <1>2, <2>3, <3>1
      <3>4. \A i : WidthOf(i)' = WidthOf(i)  BY <1>7 DEF WidthOf
      <3>5. ASSUME NEW i \in 1 .. Len(text)  PROVE text'[i] <= width /\ Held(i)'
        <4>1. text'[i] = text[i] /\ text[i] <= width  BY <1>1, <1>4, <2>3, <3>5 DEF LongerBy, Layout
        <4>2. WidthOf(i)' = WidthOf(i)  BY <3>4
        <4>3. Held(i)'  BY <1>1, <2>3, <3>1, <3>3, <3>5, <4>2, OldHeld
        <4>. QED  BY <4>1, <4>3
      <3>6. ASSUME NEW i \in Len(text) + 1 .. Len(text')
            PROVE text'[i] <= width /\ Held(i)'
        <4>1. text'[i] <= width
          <5>1. i \in Len(text) + 1 .. Len(text) + n  BY <1>4, <3>6 DEF LongerBy
          <5>2. text'[i] \in Kinds /\ text'[i] <= copy  BY <1>5, <5>1
          <5>. QED  BY <1>1, <3>1, <5>2 DEF Kinds
        <4>2. i < Len(text) + 1 + Batch  BY <1>1, <1>3, <1>4, <3>6, BoundsAssumption DEF LongerBy
        <4>3. WidthOf(i) = width
          BY <1>1, <3>6 DEF WidthOf, Layout, TypeOK
        <4>4. (Len(text) + 1) - 1 = Len(text)  BY <1>1
        <4>5. WidthOf(i)' = width  BY <3>4, <4>3
        <4>6. Len(text) + 1 \in Nat /\ 1 <= Len(text) + 1 /\ Batch \in Nat
          BY <1>1, BoundsAssumption
        <4>7. temp' = Stored(text', ((Len(text) + 1) - 1) * width, Len(text) + 1, Batch, width)
          BY <3>3, <4>4
        <4>8. Held(i)'  BY <1>4, <3>1, <3>6, <4>1, <4>2, <4>5, <4>6, <4>7, NewHeld
        <4>. QED  BY <4>1, <4>8
      <3>. QED  BY <1>1, <1>4, <3>1, <3>2, <3>5, <3>6 DEF LongerBy
    <2>. QED  BY <1>7, <2>1, <2>2, <2>3 DEF Layout
  <1>10. Known'
    <2>1. ASSUME copy = 0  PROVE KnownOfAscii'
      <3>1. maxvec' = 0 /\ maxEscape' = 0  BY <1>1, <1>6, <1>7, <2>1 DEF Known, KnownOfAscii
      <3>2. \A i \in Len(text) + 1 .. Len(text') : text'[i] = 0
        <4>1. ASSUME NEW i \in Len(text) + 1 .. Len(text')  PROVE text'[i] = 0
          <5>1. i \in Len(text) + 1 .. Len(text) + n  BY <1>4, <4>1 DEF LongerBy
          <5>2. text'[i] \in Kinds /\ text'[i] <= 0  BY <1>5, <2>1, <5>1
          <5>. QED  BY <5>2 DEF Kinds
        <4>. QED  BY <4>1
      <3>3. (\A i \in 1 .. Len(text') : text'[i] = 0) <=> (\A i \in 1 .. Len(text) : text[i] = 0)
        <4>1. /\ Len(text) \in Nat /\ Len(text') \in Nat /\ Len(text) <= Len(text')
              /\ \A i \in 1 .. Len(text) : text'[i] = text[i]
          BY <1>1, <1>4 DEF LongerBy
        <4>2. \A i \in 1 .. Len(text') : i \in 1 .. Len(text) \/ i \in Len(text) + 1 .. Len(text')
          BY <4>1
        <4>3. \A i \in 1 .. Len(text) : i \in 1 .. Len(text')  BY <4>1
        <4>. QED  BY <3>2, <4>1, <4>2, <4>3, Zenon
      <3>. QED  BY <1>1, <1>7, <2>1, <3>1, <3>3 DEF Known, KnownOfAscii
    <2>2. ASSUME copy # 0  PROVE KnownOfWide'
      <3>1. maxvec \in Kinds /\ maxEscape \in Kinds /\ maxEscape' = maxEscape
        BY <1>1, <1>7 DEF TypeOK
      <3>2. /\ \A i \in 1 .. Len(text) : text[i] \in Kinds /\ text[i] <= Largest
            /\ Largest # 0 => \E i \in 1 .. Len(text) : text[i] = Largest
        BY <1>1, <2>2 DEF Known, KnownOfWide, TypeOK
      <3>5. /\ Largest \in Kinds /\ Largest' \in Kinds
            /\ Largest <= Largest' /\ maxvec' <= Largest'
            /\ Largest # Largest' => Largest' = maxvec'
        <4>1. maxvec' \in Kinds /\ maxvec <= maxvec'  BY <1>6, <2>2, <3>1 DEF Kinds
        <4>2. /\ Larger(maxEscape, maxvec) \in Kinds /\ Larger(maxEscape, maxvec') \in Kinds
              /\ Larger(maxEscape, maxvec) <= Larger(maxEscape, maxvec')
              /\ maxvec' <= Larger(maxEscape, maxvec')
              /\ Larger(maxEscape, maxvec) # Larger(maxEscape, maxvec') =>
                   Larger(maxEscape, maxvec') = maxvec'
          BY <4>1, <3>1, LargerGrows
        <4>. QED  BY <4>2, <3>1 DEF Largest
      <3>3. ASSUME NEW i \in 1 .. Len(text')  PROVE text'[i] <= Largest'
        <4>1. CASE i <= Len(text)
          <5>1. text'[i] = text[i] /\ text[i] \in Kinds /\ text[i] <= Largest
            BY <1>1, <1>4, <3>2, <3>3, <4>1 DEF LongerBy
          <5>2. Largest <= Largest' /\ Largest \in Kinds /\ Largest' \in Kinds
            BY <3>5
          <5>. QED  BY <5>1, <5>2 DEF Kinds
        <4>2. CASE i > Len(text)
          <5>1. text'[i] = ks[i - Len(text)] /\ i - Len(text) \in 1 .. n
            BY <1>1, <1>3, <1>4, <3>3, <4>2 DEF LongerBy
          <5>2. maxvec' >= text'[i] /\ text'[i] \in Kinds  BY <1>3, <1>6, <2>2, <5>1
          <5>3. maxvec' <= Largest' /\ Largest' \in Kinds
            BY <3>5
          <5>. QED  BY <1>6, <5>2, <5>3 DEF Kinds
        <4>. QED  BY <1>1, <3>3, <4>1, <4>2
      <3>4. ASSUME Largest' # 0  PROVE \E i \in 1 .. Len(text') : text'[i] = Largest'
        <4>1. CASE Largest' = Largest
          <5>1. PICK i \in 1 .. Len(text) : text[i] = Largest  BY <3>2, <3>4, <4>1
          <5>2. i \in 1 .. Len(text') /\ text'[i] = text[i]  BY <1>1, <1>3, <1>4, <5>1 DEF LongerBy
          <5>. QED  BY <4>1, <5>1, <5>2
        <4>2. CASE Largest' # Largest
          <5>1. Largest' = maxvec' /\ maxvec' # maxvec  BY <3>1, <3>5, <4>2 DEF Largest
          <5>2. PICK i \in 1 .. n : maxvec' = ks[i]  BY <1>6, <2>2, <5>1
          <5>3. /\ Len(text) + i \in Len(text) + 1 .. Len(text) + n
                /\ Len(text) + i \in 1 .. Len(text')
                /\ (Len(text) + i) - Len(text) = i
            BY <1>1, <1>3, <1>4, <5>2 DEF LongerBy
          <5>. QED  BY <1>4, <5>1, <5>2, <5>3
        <4>. QED  BY <4>1, <4>2
      <3>. QED  BY <3>3, <3>4 DEF KnownOfWide
    <2>3. ASSUME width > Width(copy)  PROVE \E i \in 1 .. Len(text') : text'[i] = width
      <3>1. PICK i \in 1 .. Len(text) : text[i] = width  BY <1>1, <2>3 DEF Known
      <3>2. i \in 1 .. Len(text') /\ text'[i] = text[i]  BY <1>1, <1>3, <1>4, <3>1 DEF LongerBy
      <3>. QED  BY <3>1, <3>2
    <2>. QED  BY <1>7, <2>1, <2>2, <2>3 DEF Known
  <1>. QED  BY <1>1, <1>7, <1>8, <1>9, <1>10 DEF IInv, ResultHasText, LeastKind

\* What an escape has the code know of the text, whether it is the first or not.
LEMMA EscapeKnown ==
  ASSUME TypeOK, Layout, Known, copy \in Kinds,
         NEW k \in Kinds, NEW p, NEW w \in {1, 2, 4}, PutEscape(k, p, w),
         LongerBy(1), text'[Len(text) + 1] = k,
         width <= w, k <= w, w > Width(copy) => w = k \/ w = width
  PROVE  Known'
  <1>1. /\ copy' = copy /\ maxvec' = maxvec /\ width' = w
        /\ maxEscape' = Tracked(k) /\ isAscii' = AsciiStill(k)
    BY DEF PutEscape
  <1>2. /\ Len(text) \in Nat /\ Len(text) + 1 \in 1 .. Len(text')
        /\ \A i \in 1 .. Len(text) : i \in 1 .. Len(text') /\ text'[i] = text[i]
        /\ \A i \in 1 .. Len(text') : i \in 1 .. Len(text) \/ i = Len(text) + 1
        /\ \A i \in 1 .. Len(text) : text[i] \in Kinds
    BY DEF LongerBy, TypeOK
  <1>3. ASSUME copy = 0  PROVE KnownOfAscii'
    <2>1. maxvec' = 0 /\ maxEscape' = 0  BY <1>1, <1>3 DEF Known, KnownOfAscii, Tracked
    <2>2. ASSUME w = 1  PROVE isAscii' <=> \A i \in 1 .. Len(text') : text'[i] = 0
      <3>1. isAscii' <=> (width = 0 \/ isAscii) /\ k = 0
        BY <1>1, <1>3, <2>2 DEF AsciiStill, TypeOK
      <3>2. (width = 0 \/ isAscii) <=> \A i \in 1 .. Len(text) : text[i] = 0
        <4>1. CASE width = 0
          BY <1>2, <1>3, <4>1 DEF Layout, Kinds
        <4>2. CASE width = 1  BY <1>3, <4>2 DEF Known, KnownOfAscii
        <4>. QED  BY <2>2, <4>1, <4>2 DEF TypeOK, Kinds
      <3>. QED  BY <1>2, <3>1, <3>2, text'[Len(text) + 1] = k
    <2>. QED  BY <1>1, <2>1, <2>2 DEF KnownOfAscii
  <1>4. ASSUME copy # 0  PROVE KnownOfWide'
    <2>1. /\ maxEscape \in Kinds /\ maxvec \in Kinds
          /\ Largest = Larger(maxEscape, maxvec)
          /\ Largest' = Larger(Larger(maxEscape, k), maxvec)
      BY <1>1, <1>4 DEF TypeOK, Largest, Tracked
    <2>2. /\ Largest \in Kinds /\ Largest' \in Kinds
          /\ Largest <= Largest' /\ k <= Largest'
          /\ Largest' = Largest \/ Largest' = k
      BY <2>1 DEF Larger, Kinds
    <2>3. /\ \A i \in 1 .. Len(text) : text[i] <= Largest
          /\ Largest # 0 => \E i \in 1 .. Len(text) : text[i] = Largest
      BY <1>4 DEF Known, KnownOfWide
    <2>4. ASSUME NEW i \in 1 .. Len(text')  PROVE text'[i] <= Largest'
      <3>1. CASE i = Len(text) + 1  BY <2>2, <3>1
      <3>2. CASE i \in 1 .. Len(text)
        <4>1. text'[i] = text[i] /\ text[i] \in Kinds /\ text[i] <= Largest
          BY <1>2, <2>3, <3>2
        <4>. QED  BY <2>2, <4>1 DEF Kinds
      <3>. QED  BY <1>2, <2>4, <3>1, <3>2
    <2>5. ASSUME Largest' # 0  PROVE \E i \in 1 .. Len(text') : text'[i] = Largest'
      <3>1. CASE Largest' = k  BY <1>2, <3>1
      <3>2. CASE Largest' = Largest  BY <1>2, <2>3, <2>5, <3>2
      <3>. QED  BY <2>2, <3>1, <3>2
    <2>. QED  BY <2>4, <2>5 DEF KnownOfWide
  <1>5. ASSUME w > Width(copy)  PROVE \E i \in 1 .. Len(text') : text'[i] = w
    <2>1. CASE w = k  BY <1>2, <2>1
    <2>2. CASE w = width
      <3>1. PICK i \in 1 .. Len(text) : text[i] = width  BY <1>5, <2>2 DEF Known
      <3>. QED  BY <1>2, <2>2, <3>1
    <2>. QED  BY <1>5, <2>1, <2>2
  <1>. QED  BY <1>1, <1>3, <1>4, <1>5 DEF Known

\* The text after an escape, and its type.
LEMMA EscapeText ==
  ASSUME TypeOK, Len(text) < MaxText, NEW k \in Kinds, text' = Append(text, k)
  PROVE  /\ LongerBy(1) /\ text'[Len(text) + 1] = k
         /\ Len(text) \in Nat /\ Len(text') = Len(text) + 1
  <1>1. text \in Seq(Kinds)  BY DEF TypeOK
  <1>2. /\ Append(text, k) \in Seq(Kinds)
        /\ Len(Append(text, k)) = Len(text) + 1
        /\ \A i \in 1 .. Len(text) : Append(text, k)[i] = text[i]
        /\ Append(text, k)[Len(text) + 1] = k
    BY <1>1, Longer
  <1>3. Len(text) \in Nat  BY <1>1
  <1>. QED  BY <1>2, <1>3, BoundsAssumption DEF LongerBy

\* What an escape leaves of the type, whether it is the first or not.
LEMMA EscapeType ==
  ASSUME TypeOK, NEW k \in Kinds, NEW p \in Int, NEW w \in {1, 2, 4},
         PutEscape(k, p, w), LongerBy(1),
         u8size' \in Nat, u8size' > 0 => w > 1, u16size' \in Int
  PROVE  TypeOK'
  <1>1. maxEscape' \in Kinds  BY LargerType DEF PutEscape, Tracked, TypeOK
  <1>2. isAscii' \in BOOLEAN  BY DEF PutEscape, AsciiStill, TypeOK
  <1>3. writer' \in Int  BY DEF PutEscape
  <1>6. temp' \in [Bytes -> 0 .. MaxText]
    <2>1. text' \in Seq(Kinds) /\ Len(text') <= MaxText /\ Len(text') \in Nat
      BY DEF LongerBy
    <2>4. 0 \in Int /\ 1 \in Nat  OBVIOUS
    <2>2. Stored(text', 0, 1, Len(text'), w) \in [Bytes -> 0 .. MaxText]
      BY <2>1, <2>4, StoredType
    <2>3. Stored(text', p, Len(text'), 1, w) \in [Bytes -> 0 .. MaxText]
      BY <2>1, <2>4, StoredType
    <2>. QED  BY <2>2, <2>3 DEF PutEscape
  <1>4. width' = w /\ width' \in Kinds  BY DEF PutEscape, Kinds
  <1>5. UNCHANGED <<copy, pc, maxvec, result>>  BY DEF PutEscape
  <1>. QED  BY <1>1, <1>2, <1>3, <1>4, <1>5, <1>6 DEF TypeOK, LongerBy, Bytes

LEMMA FirstEscapeKeeps ==
  ASSUME IInv, NEW k \in Kinds, FirstEscape(k)
  PROVE  IInv'
  <1>0. u16size = 0  BY DEF IInv, FirstEscape, Strayed
  <1>1. /\ TypeOK /\ Layout /\ Known /\ pc = "reading" /\ width = 0
        /\ copy \in Kinds /\ Len(text) < MaxText /\ u8size = 0 /\ u8size' = 0
        /\ u16size' = 0
        /\ PutEscape(k, Len(text) * PartFor(k), PartFor(k))
    BY <1>0, CopiesAssumption DEF IInv, TypeOK, FirstEscape, Offset
  <1>. DEFINE w == PartFor(k)
  <1>2. w \in {1, 2, 4} /\ Width(copy) <= w /\ k <= w /\ (w > Width(copy) => w = k)
    BY <1>1, PartForType
  <1>3. /\ width' = w /\ text' = Append(text, k) /\ writer' = Len(text) * w + w
        /\ pc' = "reading" /\ copy' = copy
        /\ temp' = Stored(text', 0, 1, Len(text'), w)
    BY <1>1 DEF PutEscape
  <1>4. /\ LongerBy(1) /\ text'[Len(text) + 1] = k
        /\ Len(text) \in Nat /\ Len(text') = Len(text) + 1
    BY <1>1, <1>3, EscapeText
  <1>. HIDE DEF w
  <1>5. Len(text) * w \in Int  BY <1>2, <1>4, Division
  <1>6. TypeOK'  BY <1>1, <1>2, <1>4, <1>5, EscapeType DEF w
  <1>7. Layout'
    <2>1. writer' = Len(text') * w
      <3>1. CASE w = 1  BY <1>3, <1>4, <3>1
      <3>2. CASE w = 2  BY <1>3, <1>4, <3>2
      <3>3. CASE w = 4  BY <1>3, <1>4, <3>3
      <3>. QED  BY <1>2, <3>1, <3>2, <3>3
    <2>2. ASSUME NEW i \in 1 .. Len(text')  PROVE text'[i] <= w /\ Held(i)'
      <3>1. text'[i] <= w
        <4>1. CASE i = Len(text) + 1  BY <1>2, <1>4, <4>1
        <4>2. CASE i \in 1 .. Len(text)
          <5>1. text'[i] = text[i] /\ text[i] <= copy /\ text[i] \in Kinds
            BY <1>1, <1>4, <4>2 DEF LongerBy, Layout, TypeOK
          <5>2. copy <= Width(copy)  BY <1>1, WidthType
          <5>. QED  BY <1>1, <1>2, <5>1, <5>2, WidthType DEF Kinds
        <4>. QED  BY <1>4, <2>2, <4>1, <4>2
      <3>2. WidthOf(i)' = w  BY <1>1, <1>3, <2>2, <1>4 DEF WidthOf
      <3>3. (1 - 1) * w = 0  BY <1>2
      <3>4. /\ i < 1 + Len(text') /\ Len(text') \in Nat /\ 1 \in Nat /\ 1 <= 1
            /\ temp' = Stored(text', (1 - 1) * w, 1, Len(text'), w)
        BY <1>3, <1>4, <2>2, <3>3
      <3>5. Held(i)'  BY <1>2, <1>4, <2>2, <3>1, <3>2, <3>4, NewHeld
      <3>. QED  BY <3>1, <3>5
    <2>3. u8size' <= Len(text') /\ width' # 0  BY <1>1, <1>2, <1>3, <1>4
    <2>. QED  BY <1>2, <1>3, <2>1, <2>2, <2>3 DEF Layout
  <1>8. Known'  BY <1>1, <1>2, <1>4, EscapeKnown DEF w
  <1>. QED  BY <1>1, <1>3, <1>6, <1>7, <1>8 DEF IInv, ResultHasText, LeastKind

\* An escape that leaves the part of width 2 open, or comes where there is none.
LEMMA NextEscapeKeeps ==
  ASSUME IInv, NEW k \in Kinds, NEW a \in Aways, NextEscape(k, a),
         u16size = 0, ~(width = 2 /\ k = 4)
  PROVE  IInv'
  <1>1. /\ TypeOK /\ Layout /\ Known /\ pc = "reading" /\ width \in {1, 2, 4}
        /\ copy \in Kinds /\ Len(text) < MaxText /\ (width # 2 \/ k < 4)
    BY CopiesAssumption DEF IInv, TypeOK, NextEscape, Kinds
  <1>. DEFINE w == Larger(width, Width(k))
  <1>2. /\ w \in {1, 2, 4} /\ width <= w /\ Width(copy) <= w /\ k <= w
        /\ w > Width(copy) => w = k \/ w = width
        /\ width = 2 => w = 2
    BY <1>1 DEF Larger, Width, Kinds, Layout
  <1>3. writer \div width = Len(text) /\ Len(text) \in Nat
    <2>1. Len(text) \in Nat /\ writer = Len(text) * width  BY <1>1 DEF Layout, TypeOK
    <2>. QED  BY <1>1, <2>1, Division
  <1>13. ~(width = 2 /\ Closes(w))  BY <1>2 DEF Closes
  <1>14. Origin(w, a) = 0  BY <1>13 DEF Origin
  <1>15. Counted(w, a) = Len(text)
    <2>1. writer + 0 = writer  BY <1>1 DEF TypeOK
    <2>. QED  BY <1>3, <1>14, <2>1 DEF Counted
  <1>16. Len(text) * w \in Nat /\ Len(text) * w - 0 = Len(text) * w  BY <1>2, <1>3, Division
  <1>4. /\ PutEscape(k, Len(text) * w, w)
        /\ u8size' = IF width = 1 /\ Closes(w) THEN Len(text) ELSE u8size
        /\ u16size' = 0
    BY <1>13, <1>14, <1>15, <1>16 DEF NextEscape, Offset
  <1>17. temp' = Stored(text', Len(text) * w, Len(text'), 1, w)
    BY <1>1, <1>4 DEF PutEscape
  <1>5. /\ width' = w /\ text' = Append(text, k) /\ writer' = Len(text) * w + w
        /\ pc' = "reading" /\ copy' = copy
    BY <1>1, <1>4 DEF PutEscape
  <1>6. /\ LongerBy(1) /\ text'[Len(text) + 1] = k /\ Len(text') = Len(text) + 1
    BY <1>1, <1>5, EscapeText
  <1>. HIDE DEF w
  <1>7. Len(text) * w \in Nat /\ Len(text') \in Nat  BY <1>2, <1>3, <1>6, Division
  <1>9. /\ u8size' \in Nat /\ u8size' <= Len(text)
        /\ u8size' > 0 => w > 1
        /\ \A i \in 1 .. Len(text) : WidthOf(i)' = WidthOf(i)
        /\ \A i \in Nat : i > Len(text) => WidthOf(i)' = w
    <2>1. CASE width = 1 /\ w > 1
      <3>1. u8size' = Len(text)  BY <1>4, <2>1 DEF Closes
      <3>. QED  BY <1>3, <1>5, <1>6, <2>1, <3>1 DEF WidthOf
    <2>2. CASE w = width
      <3>1. u8size' = u8size  BY <1>4, <2>2 DEF Closes
      <3>2. u8size <= Len(text) /\ u8size \in Nat /\ (u8size > 0 => width > 1)
        BY <1>1 DEF Layout, TypeOK
      <3>. QED  BY <1>3, <1>5, <1>6, <2>2, <3>1, <3>2 DEF WidthOf
    <2>3. CASE width = 4  BY <1>2, <2>2, <2>3
    <2>4. CASE width = 2  BY <1>2, <2>2, <2>4
    <2>5. CASE width = 1 /\ w = 1  BY <2>2, <2>5
    <2>. QED  BY <1>1, <1>2, <2>1, <2>3, <2>4, <2>5
  <1>10. TypeOK'  BY <1>1, <1>2, <1>4, <1>6, <1>9, <1>16, EscapeType
  <1>11. Layout'
    <2>1. writer' = Len(text') * w
      <3>1. CASE w = 1  BY <1>3, <1>5, <1>6, <3>1
      <3>2. CASE w = 2  BY <1>3, <1>5, <1>6, <3>2
      <3>3. CASE w = 4  BY <1>3, <1>5, <1>6, <3>3
      <3>. QED  BY <1>2, <3>1, <3>2, <3>3
    <2>2. ASSUME NEW i \in 1 .. Len(text)  PROVE text'[i] <= w /\ Held(i)'
      <3>1. text'[i] = text[i] /\ text[i] <= width /\ text[i] \in Kinds
        BY <1>1, <1>6, <2>2 DEF LongerBy, Layout, TypeOK
      <3>2. text'[i] <= w  BY <1>1, <1>2, <3>1 DEF Kinds
      <3>3. WidthOf(i)' = WidthOf(i)  BY <1>9, <2>2
      <3>4. Held(i)'  BY <1>1, <1>2, <1>17, <2>2, <3>3, OldHeld
      <3>. QED  BY <3>2, <3>4
    <2>3. ASSUME NEW i \in 1 .. Len(text'), i = Len(text')
          PROVE text'[i] <= w /\ Held(i)'
      <3>1. text'[i] <= w  BY <1>2, <1>6, <2>3
      <3>2. /\ i \in Nat /\ i - 1 = Len(text) /\ 1 <= i /\ i > Len(text)
            /\ i \in i .. Len(text') /\ i < i + 1 /\ 1 \in Nat
        BY <1>3, <1>6, <2>3
      <3>3. temp' = Stored(text', (i - 1) * w, i, 1, w)  BY <1>17, <2>3, <3>2
      <3>4. WidthOf(i)' = w  BY <1>9, <3>2
      <3>5. Held(i)'  BY <1>2, <1>6, <3>1, <3>2, <3>3, <3>4, NewHeld
      <3>. QED  BY <3>1, <3>5
    <2>4. \A i \in 1 .. Len(text') : i \in 1 .. Len(text) \/ i = Len(text')
      BY <1>3, <1>6
    <2>5. \A i \in 1 .. Len(text') : text'[i] <= w /\ Held(i)'  BY <2>2, <2>3, <2>4
    <2>6. u8size' <= Len(text') /\ width' # 0  BY <1>2, <1>3, <1>5, <1>6, <1>9
    <2>. QED  BY <1>2, <1>5, <2>1, <2>5, <2>6 DEF Layout
  <1>12. Known'  BY <1>1, <1>2, <1>4, <1>6, EscapeKnown
  <1>. QED  BY <1>4, <1>5, <1>10, <1>11, <1>12 DEF IInv, ResultHasText, LeastKind

-----------------------------------------------------------------------------
(* A part of width 2 that is closed.                                       *)

\* An escape after which the code counts from the pointer, or has before.
LEMMA StrayEscapeKeeps ==
  ASSUME IInv, NEW k \in Kinds, NEW a \in Aways, NextEscape(k, a),
         u16size # 0 \/ (width = 2 /\ k = 4)
  PROVE  IInv'
  <1>1. /\ TypeOK /\ pc = "reading" /\ width \in {2, 4} /\ copy # 4
        /\ Len(text) < MaxText /\ writer \in Int /\ a \in Int
        /\ Len(text) \in Nat /\ MaxText \in Nat
    <2>1. TypeOK /\ pc = "reading" /\ Len(text) < MaxText  BY DEF IInv, NextEscape
    <2>2. writer \in Int /\ Len(text) \in Nat /\ copy \in Kinds
      BY <2>1, CopiesAssumption DEF TypeOK
    <2>3. ASSUME u16size # 0  PROVE width \in {2, 4} /\ copy # 4
      BY <2>3 DEF IInv, Strayed
    <2>4. ASSUME u16size = 0  PROVE width \in {2, 4} /\ copy # 4
      <3>1. width = 2 /\ Width(copy) <= 2  BY <2>4 DEF IInv, Layout
      <3>. QED  BY <2>2, <3>1 DEF Width, Kinds
    <2>. QED  BY <2>1, <2>2, <2>3, <2>4, AwaysAssumption, BoundsAssumption
  <1>2. Larger(width, Width(k)) = 4
    BY <1>1 DEF IInv, Strayed, Larger, Width, Kinds
  <1>. DEFINE n == Counted(4, a)
  <1>3. n \in Int /\ Origin(4, a) \in Int
    <2>1. Origin(4, a) \in Int  BY <1>1 DEF Origin
    <2>2. CASE width = 2  BY <1>1, <2>1, <2>2 DEF Counted
    <2>3. CASE width = 4  BY <1>1, <2>1, <2>3 DEF Counted
    <2>. QED  BY <1>1, <2>1, <2>2, <2>3
  <1>4. /\ PutEscape(k, Offset(n, 4) - Origin(4, a), 4)
        /\ u8size' = u8size
        /\ u16size' = IF width = 2 /\ Closes(4) THEN n - u8size ELSE u16size
    BY <1>1, <1>2 DEF NextEscape
  <1>5. /\ LongerBy(1) /\ text'[Len(text) + 1] = k /\ Len(text') = Len(text) + 1
    BY <1>1, <1>4, EscapeText DEF PutEscape
  <1>6. Offset(n, 4) - Origin(4, a) \in Int  BY <1>3 DEF Offset
  <1>7. u8size \in Nat /\ u16size \in Int  BY <1>1 DEF TypeOK
  <1>. HIDE DEF n
  <1>8. TypeOK'
    <2>1. u16size' \in Int  BY <1>3, <1>4, <1>7
    <2>2. u8size' \in Nat /\ 4 > 1 /\ 4 \in {1, 2, 4}  BY <1>4, <1>7
    <2>. QED  BY <1>1, <1>4, <1>5, <1>6, <2>1, <2>2, EscapeType
  <1>9. Strayed'
    <2>1. width' = 4 /\ copy' # 4  BY <1>1, <1>4 DEF PutEscape
    <2>2. CASE k = 4
      <3>1. Len(text) + 1 \in 1 .. Len(text')  BY <1>1, <1>5
      <3>. QED  BY <1>5, <2>1, <2>2, <3>1 DEF Strayed
    <2>3. CASE k # 4
      <3>1. PICK i \in 1 .. Len(text) : text[i] = 4  BY <2>3 DEF IInv, Strayed
      <3>2. i \in 1 .. Len(text') /\ text'[i] = text[i]  BY <1>1, <1>5, <3>1 DEF LongerBy
      <3>. QED  BY <2>1, <3>1, <3>2 DEF Strayed
    <2>. QED  BY <2>2, <2>3
  <1>10. u16size' # 0
    <2>1. CASE u16size # 0  BY <1>4, <2>1 DEF IInv, Strayed
    <2>2. CASE u16size = 0
      <3>1. width = 2 /\ writer = Len(text) * 2 /\ u8size <= Len(text)
        BY <2>2 DEF IInv, Layout
      <3>2. n = Len(text) + 2 * a  BY <1>1, <3>1 DEF n, Counted, Origin, Closes
      <3>3. a > 0 \/ a < -MaxText  BY AwaysAssumption
      <3>4. n - u8size # 0  BY <1>1, <1>7, <3>1, <3>2, <3>3
      <3>. QED  BY <1>4, <3>1, <3>4 DEF Closes
    <2>. QED  BY <2>1, <2>2
  <1>11. pc' = "reading"  BY <1>1, <1>4 DEF PutEscape
  <1>. QED  BY <1>8, <1>9, <1>10, <1>11 DEF IInv, ResultHasText, LeastKind

LEMMA StrayCopyKeeps ==
  ASSUME IInv, CopyRaw, u16size # 0
  PROVE  IInv'
  <1>1. TypeOK /\ Strayed /\ pc = "reading" /\ Len(text) \in Nat
    BY DEF IInv, TypeOK, CopyRaw
  <1>2. PICK n \in 1 .. Batch : \E ks \in [1 .. n -> {k \in Kinds : k <= copy}] :
          /\ Len(text) + n <= MaxText
          /\ text' = text \o ks
          /\ IF width = 0 THEN UNCHANGED <<temp, writer>>
             ELSE /\ temp' = Stored(text', writer, Len(text) + 1, Batch, width)
                  /\ writer' = writer + n * width
          /\ maxvec' = IF copy = 0 THEN maxvec
                       ELSE CHOOSE m \in Kinds :
                              /\ m >= maxvec /\ \A i \in 1 .. n : m >= ks[i]
                              /\ m = maxvec \/ \E i \in 1 .. n : m = ks[i]
    BY DEF CopyRaw
  <1>3. PICK ks \in [1 .. n -> {k \in Kinds : k <= copy}] :
          /\ Len(text) + n <= MaxText
          /\ text' = text \o ks
          /\ IF width = 0 THEN UNCHANGED <<temp, writer>>
             ELSE /\ temp' = Stored(text', writer, Len(text) + 1, Batch, width)
                  /\ writer' = writer + n * width
          /\ maxvec' = IF copy = 0 THEN maxvec
                       ELSE CHOOSE m \in Kinds :
                              /\ m >= maxvec /\ \A i \in 1 .. n : m >= ks[i]
                              /\ m = maxvec \/ \E i \in 1 .. n : m = ks[i]
    BY <1>2
  <1>4. n \in Nat /\ ks \in [1 .. n -> Kinds]  BY <1>3, BoundsAssumption
  <1>5. LongerBy(n)  BY <1>1, <1>3, <1>4, Joined DEF LongerBy, TypeOK
  <1>6. maxvec' \in Kinds
    <2>1. maxvec \in Kinds  BY <1>1 DEF TypeOK
    <2>2. CASE copy = 0  BY <1>3, <2>1, <2>2
    <2>3. CASE copy # 0  BY <1>3, <1>4, <2>1, <2>3, MaxExists
    <2>. QED  BY <2>2, <2>3
  <1>7. UNCHANGED <<copy, pc, width, u8size, u16size, maxEscape, isAscii, result>>
    BY DEF CopyRaw
  <1>8. temp' \in [Bytes -> 0 .. MaxText] /\ writer' \in Int
    <2>1. width = 4 /\ writer \in Int  BY <1>1 DEF Strayed, TypeOK
    <2>2. temp' = Stored(text', writer, Len(text) + 1, Batch, 4) /\ writer' = writer + n * 4
      BY <1>3, <2>1
    <2>3. text' \in Seq(Kinds) /\ Len(text') <= MaxText  BY <1>5 DEF LongerBy
    <2>4. Stored(text', writer, Len(text) + 1, Batch, 4) \in [Bytes -> 0 .. MaxText]
      <3>1. Len(text) + 1 \in Nat /\ Batch \in Nat /\ 4 \in {1, 2, 4}
        BY <1>1, BoundsAssumption
      <3>. QED  BY <1>1, <2>1, <2>3, <3>1, StoredType
    <2>. QED  BY <1>4, <2>1, <2>2, <2>4
  <1>9. TypeOK'  BY <1>1, <1>5, <1>6, <1>7, <1>8 DEF TypeOK, LongerBy, Bytes
  <1>10. Strayed'
    <2>1. PICK i \in 1 .. Len(text) : text[i] = 4  BY <1>1 DEF Strayed
    <2>2. i \in 1 .. Len(text') /\ text'[i] = text[i]  BY <1>1, <1>4, <1>5, <2>1 DEF LongerBy
    <2>. QED  BY <1>1, <1>7, <2>1, <2>2 DEF Strayed
  <1>. QED  BY <1>1, <1>7, <1>9, <1>10 DEF IInv, ResultHasText, LeastKind

\* The str is then of kind 4, whatever its units are.
LEMMA StrayCloseKeeps ==
  ASSUME IInv, Close, u16size # 0
  PROVE  IInv'
  <1>1. TypeOK /\ Strayed /\ pc = "reading" /\ writer >= 0 /\ copy \in Kinds
    BY CopiesAssumption DEF IInv, TypeOK, Close
  <1>2. /\ pc' = "returned"
        /\ UNCHANGED <<copy, text, width, temp, writer, u8size, u16size, maxEscape, maxvec,
                       isAscii>>
    BY DEF Close
  <1>3. width = 4 /\ ResultKind = 4  BY <1>1 DEF Strayed, ResultKind, Kinds
  <1>4. writer \in Nat /\ writer \div 4 \in Nat /\ MaxText \in Nat
    BY <1>1, BoundsAssumption DEF TypeOK
  <1>5. result' = [kind |-> 4, units |-> [i \in 1 .. writer \div 4 |-> Unit(i)]]
    BY <1>3 DEF Close
  <1>6. ASSUME NEW p \in Int, NEW w \in {1, 2, 4}
        PROVE  ReadUnit(p, w) \in 0 .. MaxText
    <2>1. p \in p .. p + w - 1  OBVIOUS
    <2>2. p \in Bytes => temp[p] \in 0 .. MaxText  BY <1>1 DEF TypeOK
    <2>. QED  BY <1>4, <2>1, <2>2 DEF ReadUnit
  <1>7. ASSUME NEW i \in 1 .. writer \div 4  PROVE Unit(i) \in 0 .. MaxText
    <2>1. i - 1 \in Int /\ (i - 1) * 2 \in Int /\ (i - 1) * 4 \in Int  BY <1>4
    <2>2. /\ ReadUnit(i - 1, 1) \in 0 .. MaxText
          /\ ReadUnit((i - 1) * 2, 2) \in 0 .. MaxText
          /\ ReadUnit((i - 1) * 4, 4) \in 0 .. MaxText
      BY <1>6, <2>1
    <2>3. Truncated(text, ReadUnit((i - 1) * 4, 4), Width(ResultKind)) \in 0 .. MaxText
      BY <1>4, <2>2 DEF Truncated
    <2>. QED  BY <1>3, <1>4, <2>2, <2>3 DEF Unit
  <1>8. TypeOK'
    <2>1. [i \in 1 .. writer \div 4 |-> Unit(i)] \in Seq(0 .. MaxText)
      BY <1>4, <1>7, SeqDef
    <2>2. result'.kind \in Kinds /\ result'.units \in Seq(0 .. MaxText)
      BY <1>5, <2>1 DEF Kinds
    <2>. QED  BY <1>1, <1>2, <2>2 DEF TypeOK, Bytes
  <1>9. Strayed'  BY <1>1, <1>2 DEF Strayed
  <1>10. LeastKind'
    <2>1. result'.kind = 4  BY <1>5
    <2>2. \A i \in 1 .. Len(text) : text[i] <= 4  BY <1>1 DEF TypeOK, Kinds
    <2>. QED  BY <1>1, <1>2, <2>1, <2>2 DEF LeastKind, Strayed
  <1>. QED  BY <1>2, <1>8, <1>9, <1>10 DEF IInv, ResultHasText

-----------------------------------------------------------------------------
(* The closing quote.                                                      *)

\* What is whole in the buffer is read whole.
LEMMA HeldIsRead ==
  ASSUME TypeOK, Layout, width > 0, NEW i \in 1 .. Len(text)
  PROVE  ReadUnit((i - 1) * WidthOf(i), WidthOf(i)) = i
  <1>1. Held(i) /\ i \in Nat /\ 1 <= i  BY DEF Layout, TypeOK
  <1>2. WidthOf(i) \in {1, 2, 4}  BY DEF TypeOK, WidthOf, Kinds
  <1>. DEFINE w == WidthOf(i)
              p == (i - 1) * w
  <1>3. \A b \in p .. p + w - 1 : b \in Nat /\ (i - 1) * w <= b /\ b < i * w
    <2>1. CASE w = 1  BY <1>1, <2>1
    <2>2. CASE w = 2  BY <1>1, <2>2
    <2>3. CASE w = 4  BY <1>1, <2>3
    <2>. QED  BY <1>2, <2>1, <2>2, <2>3
  <1>4. p \in p .. p + w - 1
    <2>1. CASE w = 1  BY <1>1, <2>1
    <2>2. CASE w = 2  BY <1>1, <2>2
    <2>3. CASE w = 4  BY <1>1, <2>3
    <2>. QED  BY <1>2, <2>1, <2>2, <2>3
  <1>5. \A b \in p .. p + w - 1 : b \in Bytes /\ temp[b] = i  BY <1>1, <1>3 DEF Held
  <1>. QED  BY <1>4, <1>5 DEF ReadUnit

\* The kind of the str is that of its widest character.
LEMMA KindOfText ==
  ASSUME TypeOK, Layout, Known, copy \in Kinds
  PROVE  /\ ResultKind \in Kinds
         /\ \A i \in 1 .. Len(text) : text[i] <= ResultKind
         /\ ResultKind # 0 => \E i \in 1 .. Len(text) : text[i] = ResultKind
  <1>1. \A i \in 1 .. Len(text) : text[i] \in Kinds  BY DEF TypeOK
  <1>2. width \in Kinds /\ maxEscape \in Kinds /\ maxvec \in Kinds  BY DEF TypeOK
  <1>3. CASE copy = 0 /\ width = 0
    BY <1>1, <1>3 DEF ResultKind, Layout, Kinds
  <1>4. CASE copy = 0 /\ width = 1
    <2>1. \A i \in 1 .. Len(text) : text[i] <= 1  BY <1>4 DEF Layout
    <2>2. isAscii <=> \A i \in 1 .. Len(text) : text[i] = 0  BY <1>4 DEF Known, KnownOfAscii
    <2>3. ResultKind = IF isAscii THEN 0 ELSE 1  BY <1>4 DEF ResultKind
    <2>4. CASE isAscii  BY <2>2, <2>3, <2>4 DEF Kinds
    <2>5. CASE ~isAscii
      <3>1. PICK i \in 1 .. Len(text) : text[i] # 0  BY <2>2, <2>5
      <3>2. text[i] = 1  BY <1>1, <2>1, <3>1 DEF Kinds
      <3>. QED  BY <2>1, <2>3, <2>5, <3>2 DEF Kinds
    <2>. QED  BY <2>4, <2>5
  <1>5. CASE width \notin {0, copy} /\ ~(copy = 0 /\ width = 1)
    <2>1. ResultKind = width  BY <1>5 DEF ResultKind
    <2>2. width > Width(copy) /\ width > 0  BY <1>2, <1>5 DEF Layout, Kinds, Width
    <2>. QED  BY <1>2, <2>1, <2>2 DEF Layout, Known
  <1>6. CASE copy # 0 /\ width \in {0, copy}
    <2>1. ResultKind = Largest  BY <1>6 DEF ResultKind
    <2>2. Largest \in Kinds  BY <1>2, LargerType DEF Largest
    <2>. QED  BY <1>6, <2>1, <2>2 DEF Known, KnownOfWide
  <1>. QED  BY <1>2, <1>3, <1>4, <1>5, <1>6 DEF Kinds

\* Each unit of the str is the character, or is lost with the memcpy by size.
LEMMA UnitIsCharacter ==
  ASSUME TypeOK, Layout, Known, copy \in Kinds, u16size = 0, NEW i \in 1 .. Len(text)
  PROVE  /\ Unit(i) \in {0, i}
         /\ copy # 0 \/ width <= 1 => Unit(i) = i
  <1>1. i \in Nat /\ 1 <= i /\ i <= Len(text) /\ Len(text) \in Nat  BY DEF TypeOK
  <1>2. Truncated(text, i, Width(ResultKind)) = i
    <2>1. ResultKind \in Kinds /\ text[i] <= ResultKind /\ text[i] \in Kinds
      BY KindOfText DEF TypeOK
    <2>2. Width(ResultKind) \in {1, 2, 4} /\ ResultKind <= Width(ResultKind)
      BY <2>1, WidthType
    <2>3. text[i] <= Width(ResultKind)  BY <2>1, <2>2 DEF Kinds
    <2>. QED  BY <2>3 DEF Truncated
  <1>6. u8size + u16size = u8size  BY DEF TypeOK
  <1>3. CASE width = 0  BY <1>2, <1>3 DEF Unit
  <1>4. CASE width > 0 /\ i <= u8size
    <2>1. WidthOf(i) = 1  BY <1>4 DEF WidthOf
    <2>2. ReadUnit((i - 1) * 1, 1) = i  BY <1>4, <2>1, HeldIsRead
    <2>3. (i - 1) * 1 = i - 1  BY <1>1
    <2>. QED  BY <1>4, <2>2, <2>3 DEF Unit
  <1>5. CASE width > 0 /\ ~(i <= u8size)
    <2>1. WidthOf(i) = width  BY <1>5 DEF WidthOf
    <2>2. ReadUnit((i - 1) * width, width) = i  BY <1>5, <2>1, HeldIsRead
    <2>3. ~(copy = 0 /\ ~CopiedBySize(i)) => Unit(i) = i
      BY <1>1, <1>2, <1>5, <1>6, <2>2 DEF Unit
    <2>4. copy = 0 /\ ~CopiedBySize(i) => Unit(i) = 0
      BY <1>5, <1>6 DEF Unit
    <2>5. ASSUME width = 1  PROVE CopiedBySize(i)
      <3>1. u8size = 0 /\ writer = Len(text) * 1  BY <1>5, <2>5 DEF TypeOK, Layout
      <3>. QED  BY <1>1, <2>5, <3>1 DEF CopiedBySize
    <2>. QED  BY <1>5, <2>3, <2>4, <2>5 DEF TypeOK, Kinds
  <1>. QED  BY <1>3, <1>4, <1>5 DEF TypeOK, Kinds

LEMMA CloseKeeps ==
  ASSUME IInv, Close, u16size = 0
  PROVE  IInv'
  <1>1. TypeOK /\ Layout /\ Known /\ pc = "reading" /\ copy \in Kinds
    BY CopiesAssumption DEF IInv, TypeOK, Close
  <1>2. /\ pc' = "returned"
        /\ UNCHANGED <<copy, text, width, temp, writer, u8size, u16size, maxEscape, maxvec,
                       isAscii>>
    BY DEF Close
  <1>3. Len(text) \in Nat /\ Len(text) <= MaxText  BY <1>1 DEF TypeOK
  <1>4. (IF width = 0 THEN Len(text) ELSE writer \div width) = Len(text)
    BY <1>1, <1>3, Division DEF Layout, TypeOK, Kinds
  <1>5. result' = [kind |-> ResultKind, units |-> [i \in 1 .. Len(text) |-> Unit(i)]]
    BY <1>4 DEF Close
  <1>6. /\ ResultKind \in Kinds
        /\ \A i \in 1 .. Len(text) : text[i] <= ResultKind
        /\ ResultKind # 0 => \E i \in 1 .. Len(text) : text[i] = ResultKind
    BY <1>1, KindOfText
  <1>7. \A i \in 1 .. Len(text) :
          Unit(i) \in {0, i} /\ (copy # 0 \/ width <= 1 => Unit(i) = i)
    BY <1>1, UnitIsCharacter
  <1>8. TypeOK'
    <2>1. \A i \in 1 .. Len(text) : Unit(i) \in 0 .. MaxText
      BY <1>3, <1>7, BoundsAssumption
    <2>2. [i \in 1 .. Len(text) |-> Unit(i)] \in Seq(0 .. MaxText)  BY <1>3, <2>1, SeqDef
    <2>3. result'.kind \in Kinds /\ result'.units \in Seq(0 .. MaxText)
      BY <1>5, <1>6, <2>2
    <2>. QED  BY <1>1, <1>2, <2>3 DEF TypeOK, Bytes
  <1>9. Layout' /\ Known'
    BY <1>1, <1>2
       DEF Layout, Known, KnownOfAscii, KnownOfWide, Largest, Held, WidthOf, Bytes
  <1>10. ResultHasText'
    <2>1. ASSUME copy # 0 \/ width <= 1  PROVE IsText(result'.units)
      <3>1. result'.units = [i \in 1 .. Len(text) |-> Unit(i)]  BY <1>5
      <3>. QED  BY <1>7, <2>1, <3>1 DEF IsText
    <2>. QED  BY <1>2, <2>1 DEF ResultHasText, IsText
  <1>11. LeastKind'
    <2>1. result'.kind = ResultKind  BY <1>5
    <2>. QED  BY <1>2, <1>6, <2>1 DEF LeastKind
  <1>. QED  BY <1>2, <1>8, <1>9, <1>10, <1>11 DEF IInv

-----------------------------------------------------------------------------
(* The invariant.                                                          *)

LEMMA InitHolds ==
  ASSUME Init
  PROVE  IInv
  <1>1. text = <<>> /\ Len(text) = 0 /\ text \in Seq(Kinds)  BY DEF Init
  <1>2. \A i \in 1 .. Len(text) : FALSE  BY <1>1
  <1>3. temp \in [Bytes -> 0 .. MaxText]  BY BoundsAssumption DEF Init
  <1>4. TypeOK
    <2>1. /\ result.kind = 0 /\ result.units \in Seq(0 .. MaxText)
          /\ Len(text) <= MaxText
      BY <1>1, BoundsAssumption DEF Init
    <2>2. 0 \in Kinds  BY DEF Kinds
    <2>3. isAscii \in BOOLEAN  BY DEF Init
    <2>5. ~(u8size > 0)  BY DEF Init
    <2>4. copy \in Copies /\ pc = "reading" /\ width \in Kinds /\ writer \in Nat
          /\ u8size \in Nat /\ u16size = 0 /\ maxEscape \in Kinds /\ maxvec \in Kinds
      BY <2>2 DEF Init
    <2>. QED  BY <1>1, <1>3, <2>1, <2>2, <2>3, <2>4, <2>5 DEF TypeOK
  <1>5. Layout  BY <1>1, <1>2 DEF Init, Layout
  <1>6. ~(width > Width(copy))
    BY CopiesAssumption DEF Init, Width, Kinds
  <1>7. Largest = 0  BY DEF Init, Largest, Larger
  <1>8. Known
    BY <1>2, <1>6, <1>7 DEF Init, Known, KnownOfAscii, KnownOfWide
  <1>. QED  BY <1>4, <1>5, <1>8 DEF IInv, ResultHasText, LeastKind, Init

\* Nothing but pc changes.
LEMMA StopKeeps ==
  ASSUME IInv, Invalid \/ MakeFails \/ Faults
  PROVE  IInv'
  <1>1. /\ pc' \in {"failed", "crashed"} /\ (pc' = "crashed" => u16size # 0)
        /\ UNCHANGED <<copy, text, width, temp, writer, u8size, u16size, maxEscape, maxvec,
                       isAscii, result>>
    BY DEF Invalid, MakeFails, Faults
  <1>2. TypeOK'  BY <1>1 DEF IInv, TypeOK, Bytes
  <1>3. u16size' = 0 => Layout' /\ Known'
    BY <1>1
       DEF IInv, Layout, Known, KnownOfAscii, KnownOfWide, Largest, Held, WidthOf, Bytes
  <1>4. u16size' # 0 => Strayed'  BY <1>1 DEF IInv, Strayed
  <1>. QED  BY <1>1, <1>2, <1>3, <1>4 DEF IInv, ResultHasText, LeastKind

LEMMA StutterKeeps ==
  ASSUME IInv, UNCHANGED vars
  PROVE  IInv'
  <1>1. UNCHANGED <<copy, pc, text, width, temp, writer, u8size, u16size, maxEscape, maxvec,
                    isAscii, result>>
    BY DEF vars
  <1>2. TypeOK'  BY <1>1 DEF IInv, TypeOK, Bytes
  <1>3. u16size' = 0 => Layout' /\ Known'
    BY <1>1
       DEF IInv, Layout, Known, KnownOfAscii, KnownOfWide, Largest, Held, WidthOf, Bytes
  <1>4. u16size' # 0 => Strayed'  BY <1>1 DEF IInv, Strayed
  <1>5. ResultHasText' /\ LeastKind'  BY <1>1 DEF IInv, ResultHasText, LeastKind, IsText
  <1>. QED  BY <1>1, <1>2, <1>3, <1>4, <1>5 DEF IInv

LEMMA StepHolds ==
  ASSUME IInv, [Next]_vars
  PROVE  IInv'
  <1>1. CASE CopyRaw  BY <1>1, CopyRawKeeps, StrayCopyKeeps
  <1>2. ASSUME NEW k \in Kinds, FirstEscape(k)  PROVE IInv'  BY <1>2, FirstEscapeKeeps
  <1>3. ASSUME NEW k \in Kinds, NEW a \in Aways, NextEscape(k, a)  PROVE IInv'
    BY <1>3, NextEscapeKeeps, StrayEscapeKeeps
  <1>5. CASE Invalid \/ MakeFails \/ Faults  BY <1>5, StopKeeps
  <1>6. CASE Close  BY <1>6, CloseKeeps, StrayCloseKeeps
  <1>7. CASE Returned \/ UNCHANGED vars  BY <1>7, StutterKeeps DEF Returned
  <1>. QED  BY <1>1, <1>2, <1>3, <1>5, <1>6, <1>7 DEF Next

\* While decode_str reads and has closed no part of width 2, the parts of the buffer
\* and the flags are as Layout and Known say, and what it returns is the text; once it
\* has closed one, it writes at width 4 because of the character that closed it.
THEOREM Invariant == Spec => []IInv
  <1>1. Init => IInv  BY InitHolds
  <1>2. IInv /\ [Next]_vars => IInv'  BY StepHolds
  <1>. QED  BY <1>1, <1>2, PTL DEF Spec

-----------------------------------------------------------------------------
(* The theorems.                                                           *)

\* The variables of decode_str keep their types, whatever the string and the
\* vectors, and only a wider part closes the part of width 1.
THEOREM TypeCorrect == Spec => []TypeOK
  <1>1. IInv => TypeOK  BY DEF IInv
  <1>. QED  BY <1>1, Invariant, PTL

\* As long as no part of width 2 is closed, what process_escape_* wrote of each
\* character is whole at the place its part of the buffer gives it, whatever the order
\* of the escapes before and after the wider parts are begun.
THEOREM PartsCorrect == Spec => []PartsHoldText
  <1>1. ASSUME IInv  PROVE PartsHoldText
    <2>1. ASSUME width > 0, u16size = 0, NEW i \in 1 .. Len(text)
          PROVE ReadUnit(Offset(i - 1, WidthOf(i)), WidthOf(i)) = i
      <3>1. TypeOK /\ Layout  BY <1>1, <2>1 DEF IInv
      <3>2. ReadUnit((i - 1) * WidthOf(i), WidthOf(i)) = i  BY <2>1, <3>1, HeldIsRead
      <3>. QED  BY <3>2 DEF Offset
    <2>. QED  BY <2>1 DEF PartsHoldText
  <1>2. IInv => PartsHoldText  BY <1>1
  <1>. QED  BY <1>2, Invariant, PTL

\* The str that decode_str returns, having closed no part of width 2, is the text: in
\* every copy of the code but that for ASCII text, and in that one when the characters
\* fit a byte.
THEOREM ResultCorrect == Spec => []ResultHasText
  <1>1. IInv => ResultHasText  BY DEF IInv
  <1>. QED  BY <1>1, Invariant, PTL

\* The str that decode_str returns has the least kind that holds its characters: also
\* when a part of width 2 was closed, and its units may be lost.
THEOREM KindCorrect == Spec => []LeastKind
  <1>1. IInv => LeastKind  BY DEF IInv
  <1>. QED  BY <1>1, Invariant, PTL
==============================================================================
