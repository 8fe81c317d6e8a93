-------------------------- MODULE EncodeWidenProofs --------------------------
(***************************************************************************)
(* Theorems about EncodeWiden: for every size of the headers, of the       *)
(* block, of the vectors and of the tokens, the text is whole in memory at *)
(* every step.                                                             *)
(***************************************************************************)
EXTENDS EncodeWiden, SequenceTheorems, TLAPS

-----------------------------------------------------------------------------
(* The inductive invariant.                                                *)

\* How many characters are in the parts that were closed.
Closed == count[0] + count[1] + count[2]

\* Where the writer is, what the parts hold and what is left to widen.
Layout ==
  /\ \A p \in Parts : p >= level => count[p] = 0
  /\ Closed <= len
  /\ pc \in {"writing", "string"} => writer = Place(level, len + 1)
  /\ pc = "writing" => writer <= Size /\ (level > 0 => Closed < len)
  /\ pc = "string" => Closed = len
  /\ pc = "widening" =>
       /\ FittingSize <= Size
       /\ todo \in {<<>>, <<0>>, <<1, 0>>, <<2, 1, 0>>}
       /\ todo # <<>> => Head(todo) < level /\ left <= count[Head(todo)]
       /\ todo = <<>> => left = 0
  /\ pc = "returned" => todo = <<>>

IInv == TypeOK /\ Layout /\ TextHeld

-----------------------------------------------------------------------------
(* Places.                                                                 *)

LEMMA WidthType == \A l \in Levels : Width(l) \in {1, 2, 4} /\ Start(l) \in Nat
  BY HeaderAssumption DEF Levels, Width, Start

LEMMA PlaceType ==
  ASSUME NEW l \in Levels, NEW k \in Nat, k >= 1
  PROVE  /\ Place(l, k) \in Nat
         /\ Place(l, k + 1) = Place(l, k) + Width(l)
  <1>1. Start(l) \in Nat /\ k - 1 \in Nat /\ (k + 1) - 1 = (k - 1) + 1
    BY WidthType
  <1>2. CASE Width(l) = 1  BY <1>1, <1>2 DEF Place
  <1>3. CASE Width(l) = 2  BY <1>1, <1>3 DEF Place
  <1>4. CASE Width(l) = 4  BY <1>1, <1>4 DEF Place
  <1>. QED  BY <1>2, <1>3, <1>4, WidthType

\* A character ends before a later one of the same level, or of a wider one,
\* begins.
LEMMA Earlier ==
  ASSUME NEW q \in Levels, NEW l \in Levels, q <= l,
         NEW k \in Nat, NEW j \in Nat, 1 <= k, k < j
  PROVE  Place(q, k + 1) <= Place(l, j)
  <1>1. Start(q) <= Start(l) /\ Start(q) \in Nat /\ Start(l) \in Nat
    BY HeaderAssumption DEF Levels, Start
  <1>2. Place(q, k + 1) = Start(q) + k * Width(q) /\ Place(l, j) = Start(l) + (j - 1) * Width(l)
    BY DEF Place
  <1>3. k * Width(q) <= (j - 1) * Width(l)
    <2>1. CASE q \in {0, 1} /\ l \in {0, 1}  BY <2>1 DEF Width
    <2>2. CASE q \in {0, 1} /\ l = 2  BY <2>2 DEF Width
    <2>3. CASE q \in {0, 1} /\ l = 4  BY <2>3 DEF Width
    <2>4. CASE q = 2 /\ l = 2  BY <2>4 DEF Width
    <2>5. CASE q = 2 /\ l = 4  BY <2>5 DEF Width
    <2>6. CASE q = 4 /\ l = 4  BY <2>6 DEF Width
    <2>. QED  BY <2>1, <2>2, <2>3, <2>4, <2>5, <2>6 DEF Levels
  <1>4. k * Width(q) \in Nat /\ (j - 1) * Width(l) \in Nat
    <2>1. Width(q) \in Nat /\ Width(l) \in Nat /\ j - 1 \in Nat
      BY WidthType
    <2>. QED  BY <2>1
  <1>. QED  BY <1>1, <1>2, <1>3, <1>4

\* The bytes of character k, in a run of characters that begins with f.
LEMMA UnitIndex ==
  ASSUME NEW l \in Levels, NEW f \in Nat, NEW k \in Nat, 1 <= f, f <= k,
         NEW o \in Bytes(l, k, k)
  PROVE  /\ o \in Nat
         /\ Place(l, f) <= o
         /\ f + ((o - Place(l, f)) \div Width(l)) = k
  <1>0. /\ Place(l, k) \in Nat /\ Place(l, f) \in Nat /\ o \in Nat
        /\ Place(l, k) <= o /\ o < Place(l, k) + Width(l)
    BY PlaceType, WidthType DEF Bytes
  <1>1. /\ Place(l, f) = Start(l) + (f - 1) * Width(l)
        /\ Place(l, k) = Start(l) + (k - 1) * Width(l)
        /\ Start(l) \in Nat
    BY WidthType DEF Place
  <1>2. CASE Width(l) = 1  BY <1>0, <1>1, <1>2
  <1>3. CASE Width(l) = 2  BY <1>0, <1>1, <1>3
  <1>4. CASE Width(l) = 4  BY <1>0, <1>1, <1>4
  <1>. QED  BY <1>2, <1>3, <1>4, WidthType

-----------------------------------------------------------------------------
(* Levels.                                                                 *)

\* The level a character was written at is that of its part, or the level of
\* the text when it is behind all parts.
LEMMA WrittenType ==
  ASSUME TypeOK, Layout, NEW k \in Nat, k >= 1
  PROVE  /\ WrittenAt(k) \in Levels /\ WrittenAt(k) <= level
         /\ Closed \in Nat
         /\ k > Closed => WrittenAt(k) = level
         /\ \A p \in Parts :
              /\ Offset(p) \in Nat
              /\ k > Offset(p) /\ k <= Offset(p) + count[p] => WrittenAt(k) = p
              /\ k <= Offset(p) => WrittenAt(k) <= p
  <1>1. /\ count[0] \in Nat /\ count[1] \in Nat /\ count[2] \in Nat
        /\ level \in {0, 1, 2, 4}
        /\ 0 >= level => count[0] = 0
        /\ 1 >= level => count[1] = 0
        /\ 2 >= level => count[2] = 0
    BY DEF TypeOK, Layout, Parts, Levels
  <1>2. Offset(0) = 0 /\ Offset(1) = count[0] /\ Offset(2) = count[0] + count[1]
    BY <1>1 DEF Offset
  <1>3. CASE k <= count[0]
    <2>1. WrittenAt(k) = 0
      BY <1>3 DEF WrittenAt
    <2>. QED  BY <1>1, <1>2, <1>3, <2>1 DEF Parts, Levels, Closed
  <1>4. CASE k > count[0] /\ k <= count[0] + count[1]
    <2>1. WrittenAt(k) = 1
      BY <1>1, <1>4 DEF WrittenAt
    <2>. QED  BY <1>1, <1>2, <1>4, <2>1 DEF Parts, Levels, Closed
  <1>5. CASE k > count[0] + count[1] /\ k <= count[0] + count[1] + count[2]
    <2>1. WrittenAt(k) = 2
      BY <1>1, <1>5 DEF WrittenAt
    <2>. QED  BY <1>1, <1>2, <1>5, <2>1 DEF Parts, Levels, Closed
  <1>6. CASE k > count[0] + count[1] + count[2]
    <2>1. WrittenAt(k) = level
      BY <1>1, <1>6 DEF WrittenAt
    <2>. QED  BY <1>1, <1>2, <1>6, <2>1 DEF Parts, Levels, Closed
  <1>. QED  BY <1>1, <1>3, <1>4, <1>5, <1>6

LEMMA LevelNowType ==
  ASSUME TypeOK, Layout, NEW k \in Nat, k >= 1
  PROVE  LevelNow(k) \in Levels /\ LevelNow(k) <= level
  <1>1. level \in Levels /\ level <= level
    BY DEF TypeOK, Levels
  <1>. QED  BY <1>1, WrittenType DEF LevelNow

\* While the text is written, characters are at the level they were written at.
LEMMA WritingLevel ==
  ASSUME pc \notin {"widening", "returned"}, NEW k
  PROVE  LevelNow(k) = WrittenAt(k)
  BY DEF LevelNow

\* A function that is defined on 1 .. s is a sequence.
LEMMA BlockType ==
  ASSUME NEW s \in Nat, NEW S, NEW m \in [1 .. s -> S]
  PROVE  m \in Seq(S) /\ Len(m) = s
  <1>1. m \in Seq(S)
    BY SeqDef
  <1>. QED  BY <1>1, LenProperties

LEMMA MemType ==
  ASSUME TypeOK
  PROVE  Size \in Nat /\ mem \in [1 .. Size -> 0 .. MaxText] /\ DOMAIN mem = 1 .. Size
  BY LenProperties, ElementOfSeq DEF TypeOK, Size

-----------------------------------------------------------------------------
(* Writing.                                                                *)

LEMMA InitInvariant == Init => IInv
  <1>. SUFFICES ASSUME Init  PROVE IInv
    OBVIOUS
  <1>1. InitSize \in Nat /\ AsciiStart \in Nat /\ MaxText \in Nat /\ AsciiStart < InitSize
    BY SizesAssumption, HeaderAssumption, TokenAssumption
  <1>2. mem \in Seq(0 .. MaxText) /\ Len(mem) = InitSize
    <2>1. mem \in [1 .. InitSize -> 0 .. MaxText]
      BY <1>1 DEF Init
    <2>. QED  BY <1>1, <2>1, BlockType
  <1>3. TypeOK
    <2>1. todo \in Seq(Parts)
      BY DEF Init
    <2>. QED  BY <1>1, <1>2, <2>1 DEF Init, TypeOK, Levels, Parts
  <1>4. Layout
    <2>1. Place(0, 0 + 1) = AsciiStart
      BY <1>1 DEF Place, Start, Width
    <2>2. Closed = 0
      BY DEF Init, Closed, Parts
    <2>. QED  BY <1>1, <1>2, <2>1, <2>2 DEF Init, Layout, Size, Parts
  <1>5. TextHeld
    BY DEF Init, TextHeld
  <1>. QED  BY <1>3, <1>4, <1>5 DEF IInv

\* A token goes where the writer is, or where the comma before it was; what
\* was written before stays.
LEMMA TokenStep ==
  ASSUME IInv, pc \in {"writing", "string"},
         NEW back \in {0, 1}, back <= len, back = 1 => pc = "writing",
         NEW n \in Nat, n > back, AppendToken(back, n)
  PROVE  IInv'
  <1>. DEFINE w == writer - back * Width(level)
              from == len - back
              u == Width(level)
  <1>1. /\ level \in Levels /\ u \in {1, 2, 4} /\ len \in Nat /\ from \in Nat
        /\ level' = level /\ count' = count /\ len' = from + n /\ len' \in 0 .. MaxText
        /\ todo' = todo /\ left' = left /\ lead' = lead /\ pc' = "writing"
        /\ writer' = w + n * u
    BY WidthType DEF IInv, TypeOK, AppendToken
  <1>2. w = Place(level, from + 1) /\ w \in Nat
    <2>1. writer = Place(level, len + 1) /\ Place(level, len + 1) \in Nat
      BY <1>1, PlaceType DEF IInv, Layout
    <2>2. CASE back = 0
      BY <1>1, <2>1, <2>2
    <2>3. CASE back = 1
      <3>1. len >= 1 /\ Place(level, len + 1) = Place(level, len) + Width(level) /\ Place(level, len) \in Nat
        BY <1>1, <2>3, PlaceType
      <3>. QED  BY <1>1, <2>1, <2>3, <3>1
    <2>. QED  BY <2>2, <2>3
  <1>3. writer' = Place(level, len' + 1)
    <2>1. Place(level, len' + 1) = Start(level) + (from + n) * u /\ w = Start(level) + from * u
      BY <1>1, <1>2 DEF Place
    <2>2. Start(level) \in Nat
      BY <1>1, WidthType
    <2>3. CASE u = 1  BY <1>1, <2>1, <2>2, <2>3
    <2>4. CASE u = 2  BY <1>1, <2>1, <2>2, <2>4
    <2>5. CASE u = 4  BY <1>1, <2>1, <2>2, <2>5
    <2>. QED  BY <1>1, <2>3, <2>4, <2>5
  <1>4. PICK spare \in 0 .. MaxSpare : \E s \in Reserved(w, n + spare), x \in 0 .. spare :
          mem' = Stored(s, w, from, n, x)
    BY DEF AppendToken
  <1>5. PICK s \in Reserved(w, n + spare), x \in 0 .. spare : mem' = Stored(s, w, from, n, x)
    BY <1>4
  <1>6. s \in Nat /\ Size <= s /\ w + n * u <= s
    <2>1. Size \in Nat
      BY MemType DEF IInv
    <2>2. spare \in Nat
      BY TokenAssumption
    <2>3. n * u \in Nat /\ (n + spare) * u \in Nat /\ n * u <= (n + spare) * u
      <3>1. CASE u = 1  BY <2>2, <3>1
      <3>2. CASE u = 2  BY <2>2, <3>2
      <3>3. CASE u = 4  BY <2>2, <3>3
      <3>. QED  BY <1>1, <3>1, <3>2, <3>3
    <2>4. CASE w + (n + spare) * u <= Size
      BY <1>2, <1>5, <2>1, <2>3, <2>4 DEF Reserved
    <2>5. CASE ~(w + (n + spare) * u <= Size)
      <3>1. s \in Sizes /\ w + (n + spare) * u <= s
        BY <1>5, <2>5 DEF Reserved, Enough
      <3>. QED  BY <1>2, <2>1, <2>3, <2>5, <3>1, SizesAssumption
    <2>. QED  BY <2>4, <2>5
  <1>7. /\ mem' = [i \in 1 .. s |->
                    IF i > w /\ i <= w + n * u THEN from + 1 + ((i - 1 - w) \div u)
                    ELSE IF i > w + n * u /\ i <= w + (n + x) * u THEN 0
                    ELSE IF i <= Size THEN mem[i] ELSE 0]
    BY <1>5, <1>6, MemType DEF Stored, Resized, IInv, Size
  <1>8. \A i \in 1 .. s : i > w /\ i <= w + n * u =>
          from + 1 + ((i - 1 - w) \div u) \in 0 .. MaxText
    <2>. SUFFICES ASSUME NEW i \in 1 .. s, i > w, i <= w + n * u
                  PROVE  from + 1 + ((i - 1 - w) \div u) \in 0 .. MaxText
      OBVIOUS
    <2>1. from + n <= MaxText /\ MaxText \in Nat
      BY <1>1, TokenAssumption
    <2>2. CASE u = 1  BY <1>1, <1>2, <2>1, <2>2
    <2>3. CASE u = 2  BY <1>1, <1>2, <2>1, <2>3
    <2>4. CASE u = 4  BY <1>1, <1>2, <2>1, <2>4
    <2>. QED  BY <1>1, <2>2, <2>3, <2>4
  <1>9. mem' \in Seq(0 .. MaxText) /\ Len(mem') = s /\ Size' = s
    <2>1. \A i \in 1 .. Size : mem[i] \in 0 .. MaxText
      BY MemType DEF IInv
    <2>2. mem' \in [1 .. s -> 0 .. MaxText]
      BY <1>6, <1>7, <1>8, <2>1, TokenAssumption, MemType DEF IInv
    <2>. QED  BY <1>6, <2>2, BlockType DEF Size
  <1>10. TypeOK'
    <2>1. writer' \in Nat
      BY <1>1, <1>3, PlaceType
    <2>. QED  BY <1>1, <1>9, <2>1 DEF IInv, TypeOK
  <1>11. Closed <= from /\ Closed \in Nat
    <2>1. Closed \in Nat /\ Closed <= len
      BY WrittenType DEF IInv, Layout
    <2>2. CASE back = 0
      BY <1>1, <2>1, <2>2
    <2>3. CASE back = 1 /\ level > 0
      BY <1>1, <2>1, <2>3 DEF IInv, Layout
    <2>4. CASE back = 1 /\ level = 0
      <3>1. Closed = 0
        BY <2>4 DEF IInv, Layout, Closed, Parts
      <3>. QED  BY <1>1, <3>1
    <2>. QED  BY <1>1, <2>2, <2>3, <2>4 DEF Levels
  <1>12. Layout'
    <2>1. Closed' = Closed /\ Closed < len'
      BY <1>1, <1>11 DEF Closed
    <2>2. writer' <= Size'
      BY <1>1, <1>6, <1>9
    <2>3. \A p \in Parts : p >= level' => count'[p] = 0
      BY <1>1 DEF IInv, Layout
    <2>. QED  BY <1>1, <1>3, <1>11, <2>1, <2>2, <2>3 DEF Layout
  <1>13. TextHeld'
    <2>. SUFFICES ASSUME NEW k \in 1 .. len', NEW o \in Bytes(LevelNow(k)', k, k)
                  PROVE  o < s /\ mem'[o + 1] = k
      BY <1>1, <1>9 DEF TextHeld, At, Bytes, Place, Start, Width
    <2>1. LevelNow(k)' = WrittenAt(k)
      BY <1>1 DEF LevelNow, WrittenAt
    <2>2. k \in Nat /\ k >= 1 /\ len' \in Nat
      BY <1>1
    <2>3. CASE k <= from
      <3>1. LevelNow(k) = WrittenAt(k) /\ k \in 1 .. len
        BY <1>1, <2>2, <2>3, WritingLevel
      <3>2. o < Size /\ mem[o + 1] = k
        BY <2>1, <3>1 DEF IInv, TextHeld, At
      <3>3. WrittenAt(k) \in Levels /\ WrittenAt(k) <= level
        BY <2>2, WrittenType DEF IInv
      <3>4. Place(WrittenAt(k), k + 1) <= w
        BY <1>1, <1>2, <2>2, <2>3, <3>3, Earlier
      <3>5. o \in Nat /\ o < w
        <4>1. Place(WrittenAt(k), k) \in Nat /\ Place(WrittenAt(k), k + 1) \in Nat
          BY <2>2, <3>3, PlaceType
        <4>. QED  BY <1>2, <2>1, <3>4, <4>1 DEF Bytes
      <3>6. o + 1 \in 1 .. s /\ ~(o + 1 > w) /\ o + 1 <= Size /\ ~(o + 1 > w + n * u)
        <4>1. n * u \in Nat
          BY <1>1
        <4>. QED  BY <1>2, <1>6, <3>2, <3>5, <4>1, MemType DEF IInv
      <3>7. mem'[o + 1] = mem[o + 1]
        BY <1>7, <3>6
      <3>. QED  BY <1>6, <3>2, <3>5, <3>6, <3>7
    <2>4. CASE k > from
      <3>1. WrittenAt(k) = level
        BY <1>1, <1>11, <2>2, <2>4, WrittenType DEF IInv
      <3>2. o \in Nat /\ w <= o /\ from + 1 + ((o - w) \div u) = k
        BY <1>1, <1>2, <2>1, <2>2, <2>4, <3>1, UnitIndex
      <3>3. o < w + n * u
        <4>1. Place(level, k + 1) <= Place(level, len' + 1)
          <5>1. CASE k = len'  BY <1>1, <2>2, <5>1, PlaceType
          <5>2. CASE k < len'
            <6>1. Place(level, k + 1) <= Place(level, len')
              <7>1. level <= level
                BY <1>1 DEF Levels
              <7>. QED  BY <1>1, <2>2, <5>2, <7>1, Earlier
            <6>2. Place(level, len' + 1) = Place(level, len') + Width(level) /\ Place(level, len') \in Nat
              BY <1>1, <2>2, PlaceType
            <6>3. Place(level, k + 1) \in Nat
              BY <1>1, <2>2, PlaceType
            <6>. QED  BY <1>1, <6>1, <6>2, <6>3
          <5>. QED  BY <2>2, <5>1, <5>2
        <4>2. Place(level, k) \in Nat /\ Place(level, k + 1) \in Nat /\ Place(level, len' + 1) \in Nat
          BY <1>1, <2>2, PlaceType
        <4>. QED  BY <1>1, <1>3, <2>1, <3>1, <3>2, <4>1, <4>2 DEF Bytes
      <3>4. o + 1 \in 1 .. s /\ o + 1 > w /\ o + 1 <= w + n * u /\ (o + 1) - 1 - w = o - w
        <4>1. n * u \in Nat
          BY <1>1
        <4>. QED  BY <1>2, <1>6, <3>2, <3>3, <4>1
      <3>5. mem'[o + 1] = from + 1 + ((o - w) \div u)
        BY <1>7, <3>4
      <3>. QED  BY <1>2, <1>6, <3>2, <3>4, <3>5
    <2>. QED  BY <1>1, <2>2, <2>3, <2>4
  <1>. QED  BY <1>10, <1>12, <1>13 DEF IInv

\* memorize_*: the text stays where it is, and what was its last part is
\* closed.
LEMMA MemorizeStep ==
  ASSUME IInv, NEW l \in Levels, Memorize(l)
  PROVE  IInv'
  <1>1. /\ pc = "writing" /\ pc' = "string" /\ level' = l /\ level < l
        /\ mem' = mem /\ len' = len /\ todo' = todo /\ left' = left /\ lead' = lead
        /\ level \in {0, 1, 2} /\ l \in {1, 2, 4} /\ len \in Nat
    BY DEF IInv, TypeOK, Memorize, Levels
  <1>2. (writer - Start(level)) \div Width(level) = len
    <2>1. writer = Start(level) + len * Width(level) /\ Start(level) \in Nat
      BY <1>1, WidthType DEF IInv, Layout, Place, Levels
    <2>2. CASE Width(level) = 1  BY <1>1, <2>1, <2>2
    <2>3. CASE Width(level) = 2  BY <1>1, <2>1, <2>3
    <2>. QED  BY <1>1, <2>2, <2>3 DEF Width
  <1>3. /\ count' = [count EXCEPT ![level] = len - Offset(level)]
        /\ writer' = Start(l) + len * Width(l)
    BY <1>2 DEF Memorize
  <1>4. /\ count \in [Parts -> Nat]
        /\ Closed <= len
        /\ \A p \in Parts : p >= level => count[p] = 0
        /\ count[0] \in Nat /\ count[1] \in Nat /\ count[2] \in Nat
    BY DEF IInv, TypeOK, Layout, Parts
  <1>5. /\ Offset(level) = Closed /\ len - Offset(level) \in Nat
        /\ count' \in [Parts -> Nat]
        /\ \A p \in Parts : count'[p] = IF p = level THEN len - Closed ELSE count[p]
    <2>1. Offset(level) = Closed
      <3>1. CASE level = 0  BY <1>4, <3>1 DEF Offset, Closed, Parts
      <3>2. CASE level = 1  BY <1>4, <3>2 DEF Offset, Closed, Parts
      <3>3. CASE level = 2  BY <1>4, <3>3 DEF Offset, Closed, Parts
      <3>. QED  BY <1>1, <3>1, <3>2, <3>3
    <2>2. len - Offset(level) \in Nat
      BY <1>1, <1>4, <2>1 DEF Closed
    <2>. QED  BY <1>3, <1>4, <2>1, <2>2
  <1>6. Closed' = len /\ \A p \in Parts : p >= l => count'[p] = 0
    <2>1. /\ count'[0] = IF 0 = level THEN len - Closed ELSE count[0]
          /\ count'[1] = IF 1 = level THEN len - Closed ELSE count[1]
          /\ count'[2] = IF 2 = level THEN len - Closed ELSE count[2]
      BY <1>5 DEF Parts
    <2>2. Closed' = count'[0] + count'[1] + count'[2] /\ Closed = count[0] + count[1] + count[2]
      BY DEF Closed
    <2>3. /\ 0 >= level => count[0] = 0
          /\ 1 >= level => count[1] = 0
          /\ 2 >= level => count[2] = 0
      BY <1>4 DEF Parts
    <2>4. Closed' = len
      <3>1. CASE level = 0  BY <1>1, <1>4, <2>1, <2>2, <2>3, <3>1
      <3>2. CASE level = 1  BY <1>1, <1>4, <2>1, <2>2, <2>3, <3>2
      <3>3. CASE level = 2  BY <1>1, <1>4, <2>1, <2>2, <2>3, <3>3
      <3>. QED  BY <1>1, <3>1, <3>2, <3>3
    <2>5. \A p \in Parts : p >= l => p >= level /\ p # level
      BY <1>1 DEF Parts
    <2>. QED  BY <1>4, <1>5, <2>4, <2>5
  <1>7. writer' = Place(l, len + 1) /\ writer' \in Nat
    <2>1. len + 1 \in Nat /\ len + 1 >= 1 /\ (len + 1) - 1 = len
      BY <1>1
    <2>2. writer' = Place(l, len + 1)
      BY <1>3, <2>1 DEF Place
    <2>. QED  BY <2>1, <2>2, PlaceType
  <1>8. TypeOK'
    BY <1>1, <1>5, <1>7 DEF IInv, TypeOK
  <1>9. Layout'
    BY <1>1, <1>6, <1>7 DEF Layout
  <1>10. \A k \in 1 .. len : WrittenAt(k)' = WrittenAt(k)
    <2>. SUFFICES ASSUME NEW k \in 1 .. len  PROVE WrittenAt(k)' = WrittenAt(k)
      OBVIOUS
    <2>1. k \in Nat /\ k <= Closed'
      BY <1>1, <1>6
    <2>2. /\ count'[0] = IF 0 = level THEN len - Closed ELSE count[0]
          /\ count'[1] = IF 1 = level THEN len - Closed ELSE count[1]
          /\ count'[2] = IF 2 = level THEN len - Closed ELSE count[2]
      BY <1>5 DEF Parts
    <2>3. /\ 0 >= level => count[0] = 0
          /\ 1 >= level => count[1] = 0
          /\ 2 >= level => count[2] = 0
      BY <1>4 DEF Parts
    <2>4. Closed = count[0] + count[1] + count[2]
      BY DEF Closed
    <2>5. CASE level = 0  BY <1>1, <1>4, <2>1, <2>2, <2>3, <2>4, <2>5 DEF WrittenAt
    <2>6. CASE level = 1  BY <1>1, <1>4, <2>1, <2>2, <2>3, <2>4, <2>6 DEF WrittenAt
    <2>7. CASE level = 2  BY <1>1, <1>4, <2>1, <2>2, <2>3, <2>4, <2>7 DEF WrittenAt
    <2>. QED  BY <1>1, <2>5, <2>6, <2>7
  <1>11. TextHeld'
    <2>. SUFFICES ASSUME NEW k \in 1 .. len, NEW o \in Bytes(LevelNow(k)', k, k)
                  PROVE  o < Size /\ At(o) = k
      BY <1>1 DEF TextHeld, At, Bytes, Place, Start, Width, Size
    <2>1. LevelNow(k)' = WrittenAt(k)' /\ LevelNow(k) = WrittenAt(k)
      BY <1>1 DEF LevelNow
    <2>. QED  BY <1>1, <1>10, <2>1 DEF IInv, TextHeld
  <1>. QED  BY <1>8, <1>9, <1>11 DEF IInv

-----------------------------------------------------------------------------
(* Widening.                                                               *)

LEMMA TodoLists ==
  /\ <<>> \in Seq(Parts)
  /\ <<0>> \in Seq(Parts) /\ <<0>> # <<>> /\ Head(<<0>>) = 0 /\ Tail(<<0>>) = <<>>
  /\ <<1, 0>> \in Seq(Parts) /\ <<1, 0>> # <<>> /\ Head(<<1, 0>>) = 1 /\ Tail(<<1, 0>>) = <<0>>
  /\ <<2, 1, 0>> \in Seq(Parts) /\ <<2, 1, 0>> # <<>>
  /\ Head(<<2, 1, 0>>) = 2 /\ Tail(<<2, 1, 0>>) = <<1, 0>>
  <1>1. <<>> \in Seq(Parts)
    OBVIOUS
  <1>2. <<0>> \in Seq(Parts) /\ <<0>> # <<>> /\ Head(<<0>>) = 0 /\ Tail(<<0>>) = <<>>
    BY DEF Parts
  <1>3. <<1, 0>> \in Seq(Parts) /\ <<1, 0>> # <<>> /\ Head(<<1, 0>>) = 1
    BY DEF Parts
  <1>4. Tail(<<1, 0>>) = <<0>>
    OBVIOUS
  <1>5. <<2, 1, 0>> \in Seq(Parts) /\ <<2, 1, 0>> # <<>> /\ Head(<<2, 1, 0>>) = 2
    BY DEF Parts
  <1>6. Tail(<<2, 1, 0>>) = <<1, 0>>
    OBVIOUS
  <1>. QED  BY <1>1, <1>2, <1>3, <1>4, <1>5, <1>6

\* Entering the parts below the level of the text: what is behind the first
\* of them is at that level already.
LEMMA SuccessStep ==
  ASSUME IInv, Success
  PROVE  IInv'
  <1>1. /\ pc = "writing" /\ pc' = "widening" /\ mem' = mem /\ level' = level /\ count' = count
        /\ len > 0 /\ len' = len - 1 /\ len \in Nat /\ len' \in Nat /\ len' \in 0 .. MaxText
        /\ level \in Levels /\ writer' = writer - Width(level)
        /\ todo' = PartsBelow(level)
        /\ left' = IF PartsBelow(level) = <<>> THEN 0 ELSE count[Head(PartsBelow(level))]
        /\ lead' \in {a \in 0 .. (VectorBytes \div Width(level)) - 1 : a <= left'}
    BY TokenAssumption DEF IInv, TypeOK, Success, Enter
  <1>2. /\ count[0] \in Nat /\ count[1] \in Nat /\ count[2] \in Nat
        /\ \A p \in Parts : p >= level => count[p] = 0
        /\ Closed <= len' /\ Closed = count[0] + count[1] + count[2]
    <2>1. count[0] \in Nat /\ count[1] \in Nat /\ count[2] \in Nat
      BY DEF IInv, TypeOK, Parts
    <2>2. \A p \in Parts : p >= level => count[p] = 0
      BY DEF IInv, Layout
    <2>3. CASE level = 0
      BY <1>1, <2>1, <2>2, <2>3 DEF Closed, Parts
    <2>4. CASE level > 0
      BY <1>1, <2>1, <2>2, <2>4 DEF IInv, Layout, Closed
    <2>. QED  BY <1>1, <2>1, <2>2, <2>3, <2>4 DEF Closed, Levels
  <1>3. /\ level = 0 => PartsBelow(level) = <<>>
        /\ level = 1 => PartsBelow(level) = <<0>>
        /\ level = 2 => PartsBelow(level) = <<1, 0>>
        /\ level = 4 => PartsBelow(level) = <<2, 1, 0>>
    BY DEF PartsBelow
  <1>4. /\ level = 0 => todo' = <<>> /\ left' = 0
        /\ level = 1 => todo' = <<0>> /\ Head(todo') = 0 /\ left' = count[0]
        /\ level = 2 => todo' = <<1, 0>> /\ Head(todo') = 1 /\ left' = count[1]
        /\ level = 4 => todo' = <<2, 1, 0>> /\ Head(todo') = 2 /\ left' = count[2]
    <2>1. level = 0 => todo' = <<>> /\ left' = 0
      BY <1>1, <1>3
    <2>2. level = 1 => todo' = <<0>> /\ Head(todo') = 0 /\ left' = count[0]
      BY <1>1, <1>3, TodoLists
    <2>3. level = 2 => todo' = <<1, 0>> /\ Head(todo') = 1 /\ left' = count[1]
      BY <1>1, <1>3, TodoLists
    <2>4. level = 4 => todo' = <<2, 1, 0>> /\ Head(todo') = 2 /\ left' = count[2]
      BY <1>1, <1>3, TodoLists
    <2>. QED  BY <2>1, <2>2, <2>3, <2>4
  <1>5. todo' \in Seq(Parts) /\ left' \in Nat /\ lead' \in Nat /\ lead' <= left'
    <2>1. todo' \in Seq(Parts)
      BY <1>1, <1>4, TodoLists DEF Levels
    <2>2. left' \in Nat
      BY <1>1, <1>2, <1>4 DEF Levels
    <2>. QED  BY <1>1, <2>1, <2>2
  <1>6. Place(level, len + 1) = Place(level, len) + Width(level) /\ Place(level, len) \in Nat
        /\ Width(level) \in Nat
    <2>1. len \in Nat /\ len >= 1 /\ level \in Levels
      BY <1>1
    <2>2. Width(level) \in Nat
      BY <2>1, WidthType
    <2>. QED  BY <2>1, <2>2, PlaceType
  <1>7. writer' = Place(level, len' + 1) /\ writer' \in Nat
    BY <1>1, <1>6 DEF IInv, Layout
  <1>8. TypeOK'
    BY <1>1, <1>5, <1>7 DEF IInv, TypeOK
  <1>9. Layout'
    <2>1. FittingSize' = Place(level, len + 1)
      BY <1>1 DEF FittingSize, Place, Start, Width
    <2>2. FittingSize' <= Size'
      BY <1>1, <2>1 DEF IInv, Layout, Size
    <2>3. todo' \in {<<>>, <<0>>, <<1, 0>>, <<2, 1, 0>>}
      BY <1>1, <1>4 DEF Levels
    <2>4. todo' # <<>> => Head(todo') < level' /\ left' <= count'[Head(todo')]
      BY <1>1, <1>2, <1>4 DEF Levels
    <2>5. Closed' <= len' /\ \A p \in Parts : p >= level' => count'[p] = 0
      BY <1>1, <1>2 DEF Closed
    <2>6. todo' = <<>> => left' = 0
      BY <1>1
    <2>. QED  BY <1>1, <2>2, <2>3, <2>4, <2>5, <2>6 DEF Layout
  <1>10. TextHeld'
    <2>. SUFFICES ASSUME NEW k \in 1 .. len', NEW o \in Bytes(LevelNow(k)', k, k)
                  PROVE  o < Size /\ At(o) = k
      BY <1>1 DEF TextHeld, At, Bytes, Place, Start, Width, Size
    <2>1. k \in Nat /\ k \in 1 .. len /\ k >= 1
      BY <1>1
    <2>2. LevelNow(k) = WrittenAt(k) /\ WrittenAt(k)' = WrittenAt(k)
      BY <1>1 DEF LevelNow, WrittenAt
    <2>. DEFINE Threshold(h) == Offset(h) + left'
    <2>3. PICK h : h = Head(todo')
      OBVIOUS
    <2>4. LevelNow(k)' = IF todo' = <<>> \/ k > Threshold(h) THEN level ELSE WrittenAt(k)
      <3>1. LevelNow(k)' = IF todo' = <<>> \/ k > Offset(Head(todo))' + left'
                             THEN level ELSE WrittenAt(k)
        BY <1>1, <2>2 DEF LevelNow
      <3>2. Offset(Head(todo))' = Offset(h)
        BY <1>1, <2>3 DEF Offset
      <3>. QED  BY <3>1, <3>2
    <2>5. ASSUME todo' = <<>> \/ k > Threshold(h)
          PROVE  k > Closed
      <3>1. /\ 0 >= level => count[0] = 0
            /\ 1 >= level => count[1] = 0
            /\ 2 >= level => count[2] = 0
        BY <1>2 DEF Parts
      <3>2. CASE level = 0
        BY <1>2, <2>1, <3>1, <3>2
      <3>3. CASE level = 1
        <4>0. h = 0
          BY <1>4, <2>3, <3>3
        <4>1. Offset(h) = 0
          BY <1>2, <4>0 DEF Offset
        <4>2. todo' # <<>> /\ left' = count[0]
          BY <1>4, <3>3, TodoLists
        <4>3. k > count[0] /\ count[1] = 0 /\ count[2] = 0
          BY <1>2, <2>1, <2>5, <3>1, <3>3, <4>1, <4>2
        <4>. QED  BY <1>2, <2>1, <4>3
      <3>4. CASE level = 2
        <4>1. Offset(h) = count[0]
          BY <1>2, <1>4, <2>3, <3>4 DEF Offset
        <4>. QED  BY <1>2, <1>4, <2>1, <2>5, <3>1, <3>4, <4>1, TodoLists
      <3>5. CASE level = 4
        <4>1. Offset(h) = count[0] + count[1]
          BY <1>2, <1>4, <2>3, <3>5 DEF Offset
        <4>. QED  BY <1>2, <1>4, <2>1, <2>5, <3>1, <3>5, <4>1, TodoLists
      <3>. QED  BY <1>1, <3>2, <3>3, <3>4, <3>5 DEF Levels
    <2>6. LevelNow(k)' = LevelNow(k)
      BY <2>1, <2>2, <2>4, <2>5, WrittenType DEF IInv
    <2>. QED  BY <1>1, <2>1, <2>6 DEF IInv, TextHeld
  <1>. QED  BY <1>8, <1>9, <1>10 DEF IInv

\* Runs of characters: the bytes of those from f to g are the bytes of each
\* of them, and no other character's.
LEMMA ByteType ==
  ASSUME NEW l \in Levels, NEW k \in Nat, k >= 1, NEW o \in Bytes(l, k, k)
  PROVE  o \in Nat /\ Place(l, k) <= o /\ o < Place(l, k + 1)
         /\ Place(l, k) \in Nat /\ Place(l, k + 1) \in Nat
  <1>1. Place(l, k) \in Nat /\ Place(l, k + 1) \in Nat
    BY PlaceType, WidthType
  <1>. QED  BY <1>1 DEF Bytes

LEMMA RunEnd ==
  ASSUME NEW l \in Levels, NEW k \in Nat, NEW g \in Nat, 1 <= k, k <= g
  PROVE  Place(l, k + 1) <= Place(l, g + 1) /\ Place(l, k + 1) \in Nat /\ Place(l, g + 1) \in Nat
  <1>1. Place(l, k + 1) \in Nat /\ Place(l, g + 1) \in Nat
    <2>1. k + 1 \in Nat /\ k + 1 >= 1 /\ g + 1 \in Nat /\ g + 1 >= 1
      OBVIOUS
    <2>. QED  BY <2>1, PlaceType
  <1>2. l <= l /\ g + 1 \in Nat /\ k < g + 1
    BY DEF Levels
  <1>3. Place(l, k + 1) <= Place(l, g + 1)
    BY <1>2, Earlier
  <1>. QED  BY <1>1, <1>3

LEMMA InRun ==
  ASSUME NEW l \in Levels, NEW f \in Nat, NEW k \in Nat, NEW g \in Nat, 1 <= f, f <= k, k <= g,
         NEW o \in Bytes(l, k, k)
  PROVE  o \in Bytes(l, f, g)
  <1>1. o \in Nat /\ o < Place(l, k + 1) /\ Place(l, k + 1) \in Nat
    BY ByteType
  <1>2. Place(l, f) <= o /\ Place(l, f) \in Nat
    BY UnitIndex, PlaceType
  <1>3. Place(l, k + 1) <= Place(l, g + 1) /\ Place(l, g + 1) \in Nat
    BY RunEnd
  <1>. QED  BY <1>1, <1>2, <1>3 DEF Bytes

LEMMA OutsideRun ==
  ASSUME NEW l \in Levels, NEW q \in Levels, q <= l,
         NEW f \in Nat, NEW k \in Nat, NEW g \in Nat, 1 <= f, f <= g, 1 <= k,
         k < f \/ (k > g /\ q = l),
         NEW o \in Bytes(q, k, k)
  PROVE  o \notin Bytes(l, f, g)
  <1>1. o \in Nat /\ Place(q, k) <= o /\ o < Place(q, k + 1)
        /\ Place(q, k) \in Nat /\ Place(q, k + 1) \in Nat
    BY ByteType
  <1>2. CASE k < f
    <2>1. Place(q, k + 1) <= Place(l, f) /\ Place(l, f) \in Nat
      BY <1>2, Earlier, PlaceType
    <2>. QED  BY <1>1, <2>1 DEF Bytes
  <1>3. CASE k > g /\ q = l
    <2>1. Place(l, g + 1) <= Place(l, k)
      BY <1>3, Earlier
    <2>2. Place(l, g + 1) \in Nat
      BY RunEnd
    <2>. QED  BY <1>1, <1>3, <2>1, <2>2 DEF Bytes
  <1>. QED  BY <1>2, <1>3

LEMMA RunUnit ==
  ASSUME NEW l \in Levels, NEW f \in Nat, NEW g \in Nat, 1 <= f, f <= g,
         NEW o \in Bytes(l, f, g)
  PROVE  \E k \in Nat : f <= k /\ k <= g /\ o \in Bytes(l, k, k)
  <1>. PICK u \in {1, 2, 4} : u = Width(l)
    BY WidthType
  <1>. DEFINE d == o - Place(l, f)
              k == f + (d \div u)
  <1>1. /\ Place(l, f) = Start(l) + (f - 1) * u
        /\ Place(l, g + 1) = Start(l) + g * u
    <2>1. (g + 1) - 1 = g
      OBVIOUS
    <2>. QED  BY <2>1 DEF Place
  <1>2. Start(l) \in Nat /\ Place(l, f) \in Nat /\ Place(l, g + 1) \in Nat
    BY WidthType, PlaceType, RunEnd
  <1>3. o \in Nat /\ Place(l, f) <= o /\ o < Place(l, g + 1)
    BY <1>2 DEF Bytes
  <1>4. /\ k \in Nat /\ f <= k /\ k <= g
        /\ Start(l) + (k - 1) * u <= o /\ o < Start(l) + k * u
        /\ Start(l) + (k - 1) * u \in Nat /\ Start(l) + k * u \in Nat
    <2>1. CASE u = 1  BY <1>1, <1>2, <1>3, <2>1
    <2>2. CASE u = 2  BY <1>1, <1>2, <1>3, <2>2
    <2>3. CASE u = 4  BY <1>1, <1>2, <1>3, <2>3
    <2>. QED  BY <2>1, <2>2, <2>3
  <1>. HIDE DEF k
  <1>5. Place(l, k) = Start(l) + (k - 1) * u /\ Place(l, k + 1) = Start(l) + k * u
    <2>1. (k + 1) - 1 = k
      BY <1>4
    <2>. QED  BY <2>1 DEF Place
  <1>6. o \in Bytes(l, k, k)
    BY <1>3, <1>4, <1>5 DEF Bytes
  <1>. QED  BY <1>4, <1>6

\* The characters of a part are in the text.
LEMMA PartInText ==
  ASSUME TypeOK, Layout, NEW p \in Parts
  PROVE  /\ p \in Levels /\ count[p] \in Nat /\ len \in Nat
         /\ Offset(p) \in Nat /\ Offset(p) + count[p] <= len
  <1>1. /\ count[0] \in Nat /\ count[1] \in Nat /\ count[2] \in Nat /\ len \in Nat
        /\ count[0] + count[1] + count[2] <= len
    BY TokenAssumption DEF TypeOK, Layout, Parts, Closed
  <1>2. Offset(0) = 0 /\ Offset(1) = count[0] /\ Offset(2) = count[0] + count[1]
    BY <1>1 DEF Offset
  <1>3. CASE p = 0  BY <1>1, <1>2, <1>3 DEF Levels
  <1>4. CASE p = 1  BY <1>1, <1>2, <1>4 DEF Levels
  <1>5. CASE p = 2  BY <1>1, <1>2, <1>5 DEF Levels
  <1>. QED  BY <1>3, <1>4, <1>5 DEF Parts

\* A character that is read where it was written.
LEMMA ReadWritten ==
  ASSUME NEW p \in Levels, NEW k \in Nat, k >= 1,
         \A o \in Bytes(p, k, k) : At(o) = k
  PROVE  ReadUnit(Place(p, k), Width(p)) = k
  <1>1. Place(p, k) \in Nat /\ Place(p, k + 1) = Place(p, k) + Width(p) /\ Width(p) \in {1, 2, 4}
    BY PlaceType, WidthType
  <1>2. \A b \in 0 .. Width(p) - 1 : Place(p, k) + b \in Bytes(p, k, k)
    <2>1. CASE Width(p) = 1  BY <1>1, <2>1 DEF Bytes
    <2>2. CASE Width(p) = 2  BY <1>1, <2>2 DEF Bytes
    <2>3. CASE Width(p) = 4  BY <1>1, <2>3 DEF Bytes
    <2>. QED  BY <1>1, <2>1, <2>2, <2>3
  <1>3. Place(p, k) \in Bytes(p, k, k)
    <2>1. CASE Width(p) = 1  BY <1>1, <2>1 DEF Bytes
    <2>2. CASE Width(p) = 2  BY <1>1, <2>2 DEF Bytes
    <2>3. CASE Width(p) = 4  BY <1>1, <2>3 DEF Bytes
    <2>. QED  BY <1>1, <2>1, <2>2, <2>3
  <1>. QED  BY <1>2, <1>3 DEF ReadUnit

\* What a move of the characters from first to last, the end of what the
\* part p still has to widen, makes of memory: these are at the level of the
\* text then, and no other character was touched.
LEMMA MovedChars ==
  ASSUME IInv, pc = "widening", todo # <<>>,
         NEW p \in Parts, p = Head(todo),
         NEW last \in Nat, last = Offset(p) + left,
         NEW first \in Nat, Offset(p) < first, first <= last
  PROVE  /\ Moved(p, first, last) \in Seq(0 .. MaxText)
         /\ Len(Moved(p, first, last)) = Size
         /\ \A k \in 1 .. len :
              \A o \in Bytes(IF first <= k /\ k <= last THEN level ELSE LevelNow(k), k, k) :
                o < Size /\ Moved(p, first, last)[o + 1] = k
  <1>. DEFINE source(i) ==
                ReadUnit(Place(p, first + ((i - 1 - Place(level, first)) \div Width(level))),
                         Width(p))
  <1>1. TypeOK /\ Layout /\ TextHeld
    BY DEF IInv
  <1>2. /\ level \in Levels /\ len \in Nat /\ len <= MaxText /\ left \in Nat /\ MaxText \in Nat
    BY <1>1, TokenAssumption DEF TypeOK
  <1>3. /\ p \in Levels /\ p < level /\ left <= count[p] /\ count[p] \in Nat
        /\ Offset(p) \in Nat /\ Offset(p) + count[p] <= len
    <2>1. p < level /\ left <= count[p]
      BY <1>1 DEF Layout
    <2>. QED  BY <1>1, <2>1, PartInText
  <1>4. 1 <= first /\ last <= len /\ last <= Offset(p) + count[p]
    BY <1>2, <1>3
  <1>5. Size \in Nat /\ DOMAIN mem = 1 .. Size /\ \A i \in 1 .. Size : mem[i] \in 0 .. MaxText
    BY <1>1, MemType
  <1>6. Place(level, len + 2) = FittingSize /\ FittingSize <= Size
    <2>1. (len + 2) - 1 = len + 1
      BY <1>2
    <2>2. Place(level, len + 2) = FittingSize
      BY <2>1 DEF FittingSize, Place
    <2>. QED  BY <1>1, <2>2 DEF Layout
  <1>. HIDE DEF source
  <1>7. Moved(p, first, last) =
          [i \in 1 .. Size |->
            IF i - 1 \in Bytes(level, first, last) THEN source(i) ELSE mem[i]]
    BY DEF Moved, source
  \* A character that is moved is read where it was written.
  <1>8. ASSUME NEW k \in Nat, first <= k, k <= last, NEW o \in Bytes(level, k, k)
        PROVE  /\ o \in Nat /\ o < Size /\ o \in Bytes(level, first, last)
               /\ source(o + 1) = k
    <2>1. k >= 1 /\ k > Offset(p) /\ k <= Offset(p) + count[p] /\ k \in 1 .. len
      BY <1>2, <1>3, <1>4, <1>8
    <2>2. LevelNow(k) = p
      <3>1. WrittenAt(k) = p
        BY <1>1, <2>1, WrittenType
      <3>2. ~(k > Offset(Head(todo)) + left)
        BY <1>2, <1>3, <1>8
      <3>. QED  BY <3>1, <3>2 DEF LevelNow
    <2>3. \A b \in Bytes(p, k, k) : At(b) = k
      BY <1>1, <2>1, <2>2 DEF TextHeld
    <2>4. ReadUnit(Place(p, k), Width(p)) = k
      BY <1>3, <2>1, <2>3, ReadWritten
    <2>5. o \in Nat /\ first + ((o - Place(level, first)) \div Width(level)) = k
      BY <1>2, <1>4, <1>8, UnitIndex
    <2>6. source(o + 1) = k
      <3>1. (o + 1) - 1 = o
        BY <2>5
      <3>. QED  BY <2>4, <2>5, <3>1 DEF source
    <2>7. o \in Bytes(level, first, last)
      BY <1>2, <1>4, <1>8, InRun
    <2>8. o < Size
      <3>1. o < Place(level, k + 1) /\ Place(level, k + 1) \in Nat
        BY <1>2, <2>1, ByteType
      <3>2. Place(level, k + 1) <= Place(level, len + 2) /\ Place(level, len + 2) \in Nat
        <4>1. k <= len + 1 /\ len + 1 \in Nat /\ (len + 1) + 1 = len + 2
          BY <1>2, <2>1
        <4>. QED  BY <1>2, <2>1, <4>1, RunEnd
      <3>. QED  BY <1>5, <1>6, <2>5, <3>1, <3>2
    <2>. QED  BY <2>5, <2>6, <2>7, <2>8
  <1>9. ASSUME NEW k \in 1 .. len, NEW o \in Bytes(level, k, k), first <= k, k <= last
        PROVE  o < Size /\ Moved(p, first, last)[o + 1] = k
    <2>1. k \in Nat
      BY <1>2
    <2>2. o \in Nat /\ o < Size /\ o \in Bytes(level, first, last) /\ source(o + 1) = k
      BY <1>8, <1>9, <2>1
    <2>3. o + 1 \in 1 .. Size /\ (o + 1) - 1 = o
      BY <1>5, <2>2
    <2>. QED  BY <1>7, <2>2, <2>3
  <1>10. ASSUME NEW k \in 1 .. len, NEW o \in Bytes(LevelNow(k), k, k),
                ~(first <= k /\ k <= last)
         PROVE  o < Size /\ Moved(p, first, last)[o + 1] = k
    <2>1. o < Size /\ At(o) = k
      BY <1>1 DEF TextHeld
    <2>2. k \in Nat /\ k >= 1
      BY <1>2
    <2>3. LevelNow(k) \in Levels /\ LevelNow(k) <= level
      BY <1>1, <2>2, LevelNowType
    <2>4. o \in Nat
      BY <2>2, <2>3, ByteType
    <2>5. k < first \/ (k > last /\ LevelNow(k) = level)
      <3>1. CASE k > last
        BY <3>1 DEF LevelNow
      <3>. QED  BY <1>10, <2>2, <3>1
    <2>6. o \notin Bytes(level, first, last)
      BY <1>2, <1>4, <2>2, <2>3, <2>5, OutsideRun
    <2>7. o + 1 \in 1 .. Size /\ (o + 1) - 1 = o
      BY <1>5, <2>1, <2>4
    <2>8. Moved(p, first, last)[o + 1] = mem[o + 1]
      BY <1>7, <2>6, <2>7
    <2>. QED  BY <2>1, <2>8 DEF At
  <1>11. Moved(p, first, last) \in Seq(0 .. MaxText) /\ Len(Moved(p, first, last)) = Size
    <2>1. ASSUME NEW i \in 1 .. Size, i - 1 \in Bytes(level, first, last)
          PROVE  source(i) \in 0 .. MaxText
      <3>1. PICK k \in Nat : first <= k /\ k <= last /\ i - 1 \in Bytes(level, k, k)
        BY <1>2, <1>4, <2>1, RunUnit
      <3>2. source((i - 1) + 1) = k /\ (i - 1) + 1 = i
        BY <1>5, <1>8, <3>1
      <3>. QED  BY <1>2, <1>4, <3>1, <3>2
    <2>2. Moved(p, first, last) \in [1 .. Size -> 0 .. MaxText]
      <3>1. \A i \in 1 .. Size :
              (IF i - 1 \in Bytes(level, first, last) THEN source(i) ELSE mem[i]) \in 0 .. MaxText
        BY <1>5, <2>1
      <3>. QED  BY <1>7, <3>1
    <2>. QED  BY <1>5, <2>2, BlockType
  <1>. QED  BY <1>9, <1>10, <1>11

\* One piece of a part, of n characters.
LEMMA MoveStep ==
  ASSUME IInv, pc = "widening", todo # <<>>, NEW n \in Nat, n >= 1, n <= left,
         Move(n), lead' \in Nat, lead' <= left - n
  PROVE  IInv'
  <1>1. /\ TypeOK /\ Layout /\ TextHeld
        /\ pc' = pc /\ writer' = writer /\ level' = level /\ count' = count /\ len' = len
        /\ todo' = todo /\ left' = left - n /\ left \in Nat /\ left' \in Nat /\ level \in Levels
    BY DEF IInv, TypeOK, Move
  <1>2. PICK p \in Parts : p = Head(todo)
    BY <1>1, TodoLists DEF Layout, Parts
  <1>3. Offset(p) \in Nat
    BY <1>1, PartInText
  <1>4. PICK last \in Nat : last = Offset(p) + left
    BY <1>1, <1>3
  <1>5. PICK first \in Nat : first = last - n + 1
    BY <1>1, <1>3, <1>4
  <1>6. Offset(p) < first /\ first <= last
    BY <1>1, <1>3, <1>4, <1>5
  <1>7. mem' = Moved(p, first, last)
    BY <1>2, <1>4, <1>5 DEF Move
  <1>8. /\ mem' \in Seq(0 .. MaxText) /\ Len(mem') = Size
        /\ \A k \in 1 .. len :
             \A o \in Bytes(IF first <= k /\ k <= last THEN level ELSE LevelNow(k), k, k) :
               o < Size /\ mem'[o + 1] = k
    BY <1>2, <1>4, <1>6, <1>7, MovedChars
  <1>9. Size' = Size
    BY <1>8 DEF Size
  <1>10. TypeOK'
    BY <1>1, <1>8 DEF TypeOK
  <1>11. Layout'
    <2>1. Closed' = Closed /\ FittingSize' = FittingSize
      BY <1>1 DEF Closed, FittingSize, Start, Width
    <2>2. /\ \A q \in Parts : q >= level => count[q] = 0
          /\ Closed <= len /\ FittingSize <= Size
          /\ todo \in {<<>>, <<0>>, <<1, 0>>, <<2, 1, 0>>}
          /\ p < level /\ left <= count[p]
      BY <1>1, <1>2 DEF Layout
    <2>3. left - n <= count[p]
      BY <1>1, <1>2, <2>2, PartInText
    <2>4. Head(todo') < level' /\ left' <= count'[Head(todo')]
      BY <1>1, <1>2, <2>2, <2>3
    <2>. QED  BY <1>1, <1>9, <2>1, <2>2, <2>4 DEF Layout
  <1>12. TextHeld'
    <2>. SUFFICES ASSUME NEW k \in 1 .. len, NEW o \in Bytes(LevelNow(k)', k, k)
                  PROVE  o < Size /\ mem'[o + 1] = k
      BY <1>1, <1>9 DEF TextHeld, At, Bytes, Place, Start, Width
    <2>1. LevelNow(k)' = IF k > Offset(p) + left' THEN level ELSE WrittenAt(k)
      BY <1>1, <1>2 DEF LevelNow, WrittenAt, Offset
    <2>2. LevelNow(k) = IF k > Offset(p) + left THEN level ELSE WrittenAt(k)
      BY <1>2 DEF LevelNow
    <2>3. LevelNow(k)' = IF first <= k /\ k <= last THEN level ELSE LevelNow(k)
      <3>1. k > Offset(p) + left' <=> first <= k
        BY <1>1, <1>3, <1>4, <1>5
      <3>2. k > Offset(p) + left <=> ~(k <= last)
        BY <1>1, <1>3, <1>4
      <3>. QED  BY <1>6, <2>1, <2>2, <3>1, <3>2
    <2>. QED  BY <1>8, <2>3
  <1>. QED  BY <1>10, <1>11, <1>12 DEF IInv

\* MovePiece: neither the piece before the alignment nor a vector is longer
\* than what is left of the part.
LEMMA MovePieceStep ==
  ASSUME IInv, MovePiece
  PROVE  IInv'
  <1>1. /\ pc = "widening" /\ left > 0 /\ left \in Nat /\ lead \in Nat /\ lead <= left
        /\ TypeOK /\ Layout
    BY DEF IInv, TypeOK, MovePiece
  <1>2. PICK n \in {1, 2, 4, 8, 16, 32, 64} :
          /\ \/ /\ lead > 0 /\ IsLowBit(n, lead)
                /\ lead' = lead - n
             \/ /\ lead = 0 /\ lead' = 0
                /\ LET batch == VectorBytes \div Width(Head(todo))
                   IN  IF left >= batch THEN n = batch ELSE IsLowBit(n, left)
          /\ Move(n)
    BY DEF MovePiece
  <1>3. \A x \in Nat : x > 0 /\ IsLowBit(n, x) => n <= x
    <2>1. \A x \in Nat : x < n => x % (2 * n) = x
      BY SMTT(30)
    <2>. QED  BY <2>1 DEF IsLowBit
  <1>4. todo # <<>>
    BY <1>1 DEF Layout, TypeOK
  <1>5. n <= left /\ lead' \in Nat /\ lead' <= left - n
    <2>1. CASE lead > 0 /\ IsLowBit(n, lead) /\ lead' = lead - n
      BY <1>1, <1>3, <2>1
    <2>2. CASE /\ lead = 0 /\ lead' = 0
               /\ LET batch == VectorBytes \div Width(Head(todo))
                  IN  IF left >= batch THEN n = batch ELSE IsLowBit(n, left)
      <3>1. CASE left >= VectorBytes \div Width(Head(todo))
        BY <1>1, <2>2, <3>1
      <3>2. CASE IsLowBit(n, left)
        BY <1>1, <1>3, <2>2, <3>2
      <3>. QED  BY <2>2, <3>1, <3>2
    <2>. QED  BY <1>2, <2>1, <2>2
  <1>. QED  BY <1>1, <1>2, <1>4, <1>5, MoveStep

LEMMA MoveAllStep ==
  ASSUME IInv, MoveAll
  PROVE  IInv'
  <1>1. /\ pc = "widening" /\ left > 0 /\ left \in Nat /\ lead' = 0 /\ Move(left)
        /\ Layout
    BY DEF IInv, TypeOK, MoveAll
  <1>2. todo # <<>>
    BY <1>1 DEF Layout
  <1>3. left >= 1 /\ left <= left /\ lead' \in Nat /\ lead' <= left - left
    BY <1>1
  <1>. QED  BY <1>1, <1>2, <1>3, MoveStep

\* The next part: all of the part before it is at the level of the text now.
LEMMA NextPartStep ==
  ASSUME IInv, NextPart
  PROVE  IInv'
  <1>1. /\ TypeOK /\ Layout /\ TextHeld
        /\ pc = "widening" /\ pc' = pc /\ mem' = mem /\ writer' = writer /\ level' = level
        /\ count' = count /\ len' = len /\ todo # <<>> /\ left = 0 /\ level \in Levels
        /\ todo' = Tail(todo)
        /\ left' = IF Tail(todo) = <<>> THEN 0 ELSE count[Head(Tail(todo))]
        /\ lead' \in {a \in 0 .. (VectorBytes \div Width(level)) - 1 : a <= left'}
    BY DEF IInv, TypeOK, NextPart, Enter
  <1>2. count[0] \in Nat /\ count[1] \in Nat /\ count[2] \in Nat
    BY <1>1 DEF TypeOK, Parts
  <1>3. \/ todo = <<0>> /\ Head(todo) = 0 /\ todo' = <<>> /\ left' = 0
        \/ todo = <<1, 0>> /\ Head(todo) = 1 /\ todo' = <<0>> /\ Head(todo') = 0 /\ left' = count[0]
        \/ todo = <<2, 1, 0>> /\ Head(todo) = 2 /\ todo' = <<1, 0>> /\ Head(todo') = 1
           /\ left' = count[1]
    <2>1. todo \in {<<0>>, <<1, 0>>, <<2, 1, 0>>} /\ Head(todo) < level
      BY <1>1 DEF Layout
    <2>2. CASE todo = <<0>>
      BY <1>1, <2>2, TodoLists
    <2>3. CASE todo = <<1, 0>>
      BY <1>1, <2>3, TodoLists
    <2>4. CASE todo = <<2, 1, 0>>
      BY <1>1, <2>4, TodoLists
    <2>. QED  BY <2>1, <2>2, <2>3, <2>4
  <1>4. todo' \in Seq(Parts) /\ left' \in Nat /\ lead' \in Nat /\ lead' <= left'
    <2>1. left' \in Nat
      BY <1>2, <1>3
    <2>2. todo' \in Seq(Parts)
      BY <1>3, TodoLists
    <2>3. lead' \in Nat
      BY <1>1
    <2>. QED  BY <1>1, <2>1, <2>2, <2>3
  <1>5. TypeOK'
    BY <1>1, <1>4 DEF TypeOK
  <1>6. Layout'
    <2>1. Closed' = Closed /\ FittingSize' = FittingSize /\ Size' = Size
      BY <1>1 DEF Closed, FittingSize, Start, Width, Size
    <2>2. /\ \A q \in Parts : q >= level => count[q] = 0
          /\ Closed <= len /\ FittingSize <= Size
          /\ Head(todo) < level
      BY <1>1 DEF Layout
    <2>3. todo' \in {<<>>, <<0>>, <<1, 0>>, <<2, 1, 0>>}
      BY <1>3
    <2>4. todo' # <<>> => Head(todo') < level /\ left' <= count[Head(todo')]
      <3>1. CASE todo = <<0>>
        BY <1>3, <3>1, TodoLists
      <3>2. CASE todo = <<1, 0>>
        BY <1>1, <1>2, <1>3, <2>2, <3>2, TodoLists DEF Levels
      <3>3. CASE todo = <<2, 1, 0>>
        BY <1>1, <1>2, <1>3, <2>2, <3>3, TodoLists DEF Levels
      <3>. QED  BY <1>3, <3>1, <3>2, <3>3
    <2>5. todo' = <<>> => left' = 0
      BY <1>1
    <2>. QED  BY <1>1, <2>1, <2>2, <2>3, <2>4, <2>5 DEF Layout
  <1>7. TextHeld'
    <2>. SUFFICES ASSUME NEW k \in 1 .. len, NEW o \in Bytes(LevelNow(k)', k, k)
                  PROVE  o < Size /\ At(o) = k
      BY <1>1 DEF TextHeld, At, Bytes, Place, Start, Width, Size
    <2>1. PICK h : h = Head(todo)
      OBVIOUS
    <2>2. PICK g : g = Head(todo')
      OBVIOUS
    <2>3. LevelNow(k)' = IF todo' = <<>> \/ k > Offset(g) + left' THEN level ELSE WrittenAt(k)
      <3>1. LevelNow(k)' = IF todo' = <<>> \/ k > Offset(Head(todo))' + left'
                             THEN level ELSE WrittenAt(k)
        BY <1>1 DEF LevelNow, WrittenAt
      <3>2. Offset(Head(todo))' = Offset(g)
        BY <1>1, <2>2 DEF Offset
      <3>. QED  BY <3>1, <3>2
    <2>4. LevelNow(k) = IF k > Offset(h) THEN level ELSE WrittenAt(k)
      <3>1. LevelNow(k) = IF k > Offset(h) + 0 THEN level ELSE WrittenAt(k)
        BY <1>1, <2>1 DEF LevelNow
      <3>2. h \in Parts
        BY <1>3, <2>1 DEF Parts
      <3>3. Offset(h) \in Nat
        BY <1>1, <3>2, PartInText
      <3>. QED  BY <3>1, <3>3
    <2>5. LevelNow(k)' = LevelNow(k)
      <3>1. Offset(0) = 0 /\ Offset(1) = count[0] /\ Offset(2) = count[0] + count[1]
        BY <1>2 DEF Offset
      <3>2. k \in Nat /\ k > 0
        BY <1>1 DEF TypeOK
      <3>3. CASE h = 0 /\ todo' = <<>>
        BY <2>3, <2>4, <3>1, <3>2, <3>3
      <3>4. CASE h = 1 /\ todo' # <<>> /\ g = 0 /\ left' = count[0]
        BY <1>2, <2>3, <2>4, <3>1, <3>4
      <3>5. CASE h = 2 /\ todo' # <<>> /\ g = 1 /\ left' = count[1]
        BY <1>2, <2>3, <2>4, <3>1, <3>5
      <3>6. <<0>> # <<>> /\ <<1, 0>> # <<>>
        BY TodoLists
      <3>. QED  BY <1>3, <2>1, <2>2, <3>3, <3>4, <3>5, <3>6
    <2>. QED  BY <1>1, <2>5 DEF TextHeld
  <1>. QED  BY <1>5, <1>6, <1>7 DEF IInv

\* The end: the block shrinks to the text and the 0 behind it.
LEMMA ReturnStep ==
  ASSUME IInv, Return
  PROVE  IInv'
  <1>1. /\ TypeOK /\ Layout /\ TextHeld
        /\ pc = "widening" /\ pc' = "returned" /\ writer' = writer /\ level' = level
        /\ count' = count /\ len' = len /\ todo = <<>> /\ todo' = todo /\ left' = left
        /\ lead' = lead /\ level \in Levels /\ len \in Nat /\ MaxText \in Nat
    BY TokenAssumption DEF IInv, TypeOK, Return
  <1>2. /\ Size \in Nat /\ \A i \in 1 .. Size : mem[i] \in 0 .. MaxText
        /\ FittingSize <= Size
    BY <1>1, MemType DEF Layout
  <1>3. /\ Place(level, len + 1) \in Nat
        /\ FittingSize = Place(level, len + 1) + Width(level) /\ FittingSize \in Nat
        /\ Width(level) \in {1, 2, 4}
    <2>1. len + 1 \in Nat /\ len + 1 >= 1 /\ ((len + 1) + 1) - 1 = len + 1
      BY <1>1
    <2>2. FittingSize = Place(level, (len + 1) + 1)
      BY <2>1 DEF FittingSize, Place
    <2>3. Place(level, len + 1) \in Nat /\ Place(level, (len + 1) + 1) = Place(level, len + 1) + Width(level)
      BY <1>1, <2>1, PlaceType
    <2>4. Width(level) \in {1, 2, 4}
      BY <1>1, WidthType
    <2>. QED  BY <2>2, <2>3, <2>4
  <1>4. mem' = [i \in 1 .. FittingSize |->
                 IF i > FittingSize - Width(level) THEN 0
                 ELSE IF i <= Size THEN mem[i] ELSE 0]
    BY <1>3 DEF Return, Resized, Size
  <1>5. mem' \in Seq(0 .. MaxText) /\ Size' = FittingSize
    <2>1. mem' \in [1 .. FittingSize -> 0 .. MaxText]
      <3>1. \A i \in 1 .. FittingSize :
              (IF i > FittingSize - Width(level) THEN 0
               ELSE IF i <= Size THEN mem[i] ELSE 0) \in 0 .. MaxText
        BY <1>1, <1>2, <1>3
      <3>. QED  BY <1>4, <3>1
    <2>. QED  BY <1>3, <2>1, BlockType DEF Size
  <1>6. TypeOK'
    BY <1>1, <1>5 DEF TypeOK
  <1>7. Layout'
    <2>1. Closed' = Closed
      BY <1>1 DEF Closed
    <2>. QED  BY <1>1, <2>1 DEF Layout
  <1>8. TextHeld'
    <2>. SUFFICES ASSUME NEW k \in 1 .. len, NEW o \in Bytes(level, k, k)
                  PROVE  o < FittingSize /\ mem'[o + 1] = k
      BY <1>1, <1>5 DEF TextHeld, LevelNow, At, Bytes, Place, Start, Width
    <2>1. LevelNow(k) = level
      BY <1>1 DEF LevelNow
    <2>2. o < Size /\ At(o) = k
      BY <1>1, <2>1 DEF TextHeld
    <2>3. k \in Nat /\ k >= 1 /\ k <= len
      BY <1>1
    <2>4. o \in Nat /\ o < Place(level, k + 1)
      BY <1>1, <2>3, ByteType
    <2>5. Place(level, k + 1) <= Place(level, len + 1) /\ Place(level, k + 1) \in Nat
      BY <1>1, <2>3, RunEnd
    <2>6. o < Place(level, len + 1)
      BY <1>3, <2>4, <2>5
    <2>7. /\ o + 1 \in 1 .. FittingSize /\ ~(o + 1 > FittingSize - Width(level))
          /\ o + 1 <= Size
      BY <1>2, <1>3, <2>2, <2>4, <2>6
    <2>8. mem'[o + 1] = mem[o + 1]
      BY <1>4, <2>7
    <2>. QED  BY <1>3, <2>2, <2>4, <2>6, <2>8 DEF At
  <1>. QED  BY <1>6, <1>7, <1>8 DEF IInv

\* An allocation that fails leaves everything as it is.
LEMMA FailStep ==
  ASSUME IInv, Fail
  PROVE  IInv'
  <1>1. /\ TypeOK /\ Layout /\ pc' = "failed"
        /\ mem' = mem /\ writer' = writer /\ level' = level /\ count' = count /\ len' = len
        /\ todo' = todo /\ left' = left /\ lead' = lead
    BY DEF IInv, Fail
  <1>2. TypeOK' /\ TextHeld'
    BY <1>1 DEF TypeOK, TextHeld
  <1>3. Layout'
    <2>1. Closed' = Closed
      BY <1>1 DEF Closed
    <2>. QED  BY <1>1, <2>1 DEF Layout
  <1>. QED  BY <1>2, <1>3 DEF IInv

LEMMA StutterStep ==
  ASSUME IInv, UNCHANGED vars
  PROVE  IInv'
  <1>1. TypeOK' /\ Layout' /\ TextHeld'
    BY DEF IInv, vars, TypeOK, Layout, TextHeld, Closed, FittingSize, LevelNow, WrittenAt,
           Offset, Bytes, Place, Start, Width, Size, At
  <1>. QED  BY <1>1 DEF IInv

-----------------------------------------------------------------------------
(* The theorems.                                                           *)

LEMMA InvariantStep == IInv /\ [Next]_vars => IInv'
  <1>. SUFFICES ASSUME IInv, [Next]_vars  PROVE IInv'
    OBVIOUS
  <1>1. len \in Nat /\ MaxToken \in Nat
    BY TokenAssumption DEF IInv, TypeOK
  <1>2. CASE WriteToken
    <2>1. pc \in {"writing", "string"}
      BY <1>2 DEF WriteToken
    <2>2. PICK n \in 1 .. MaxToken : AppendToken(0, n)
      BY <1>2 DEF WriteToken
    <2>3. n \in Nat /\ n > 0 /\ 0 \in {0, 1} /\ 0 <= len
      BY <1>1
    <2>. QED  BY <2>1, <2>2, <2>3, TokenStep
  <1>3. CASE EndContainer
    <2>1. pc = "writing" /\ len > 0 /\ AppendToken(1, 2)
      BY <1>3 DEF EndContainer
    <2>2. 2 \in Nat /\ 2 > 1 /\ 1 \in {0, 1} /\ 1 <= len
      BY <1>1, <2>1
    <2>. QED  BY <2>1, <2>2, TokenStep
  <1>4. CASE WriteFails
    BY <1>4, FailStep DEF WriteFails
  <1>5. CASE \E l \in Levels : Memorize(l)
    BY <1>5, MemorizeStep
  <1>6. CASE Success
    BY <1>6, SuccessStep
  <1>7. CASE MovePiece
    BY <1>7, MovePieceStep
  <1>8. CASE MoveAll
    BY <1>8, MoveAllStep
  <1>9. CASE NextPart
    BY <1>9, NextPartStep
  <1>10. CASE Return
    BY <1>10, ReturnStep
  <1>11. CASE ResizeFails
    BY <1>11, FailStep DEF ResizeFails
  <1>12. CASE Returned
    BY <1>12, StutterStep DEF Returned
  <1>13. CASE UNCHANGED vars
    BY <1>13, StutterStep
  <1>. QED  BY <1>2, <1>3, <1>4, <1>5, <1>6, <1>7, <1>8, <1>9, <1>10, <1>11, <1>12, <1>13 DEF Next

LEMMA Invariant == Spec => []IInv
  BY InitInvariant, InvariantStep, PTL DEF Spec

\* Every variable keeps its type through writing, widening and returning, and
\* no piece is longer than what is left to widen.
THEOREM TypeCorrect == Spec => []TypeOK
  <1>1. IInv => TypeOK
    BY DEF IInv
  <1>. QED  BY <1>1, Invariant, PTL

\* Widening the text in place, whatever the alignment of the block and the
\* size of the vectors, never overwrites a character that is still to be read
\* (long_back_cvt, memorize_*, unicode_buffer_reserve).
THEOREM HeldCorrect == Spec => []TextHeld
  <1>1. IInv => TextHeld
    BY DEF IInv
  <1>. QED  BY <1>1, Invariant, PTL

\* The writer never ends behind the block, and the text and its 0 fit in the
\* block before resize_to_fit_pyunicode.
THEOREM RoomCorrect == Spec => []RoomForText
  <1>1. IInv => RoomForText
    BY DEF IInv, Layout, RoomForText
  <1>. QED  BY <1>1, Invariant, PTL
=============================================================================
