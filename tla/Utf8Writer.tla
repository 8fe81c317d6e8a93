----------------------------- MODULE Utf8Writer -----------------------------
(***************************************************************************)
(* Writing a str into a bytes document: bytes_buffer_append_key(),         *)
(* bytes_buffer_append_str() and the bytes_write_ucs functions under them. *)
(* The buffer is reserved once, for the most that the text can need.  Then *)
(* a whole vector of characters is converted as if all of them were of the *)
(* class of the first (ASCII that needs no escape, two bytes, or three),   *)
(* and stored at the writer; only those before the first that is not count, *)
(* that one is written by itself, and what was stored for the ones behind  *)
(* it is written over.  Less than a vector is left to a function of each   *)
(* instruction set, which differ in what they load and how far they store. *)
(*                                                                         *)
(* A byte of the buffer is a pair: the number of the character and of the  *)
(* byte of its encoding.  A character is its code point: which comparisons *)
(* find its class is what this code is about.                              *)
(***************************************************************************)
EXTENDS Integers, Sequences

CONSTANTS
  Isas,           \* instruction sets: sse2, ssse3, avx2, avx512
  Texts(_, _),    \* the texts for one of them, of characters of a width
  BatchOf(_, _),  \* its READ_BATCH_COUNT for characters of that width
  Unroll,         \* vectors that a loop4 takes at once
  Padding         \* TAIL_PADDING

\* How far the last store of a text may go past the reserve: the block for
\* three bytes a character of the AVX-512 copy for UCS2 stores 96 bytes.
Overrun(i, w) == IF i = "avx512" /\ w = 2 THEN 24 ELSE 0

ASSUME IsasAssumption == Isas \subseteq {"sse2", "ssse3", "avx2", "avx512"}
ASSUME SizesAssumption ==
  /\ {Unroll, Padding} \subseteq Nat
  /\ \A i \in Isas, w \in {1, 2, 4} :
       /\ BatchOf(i, w) \in Nat /\ BatchOf(i, w) > 1
       /\ Texts(i, w) \subseteq Seq(Nat)

\* The longest store of a trailing function, in vectors of characters.
Stretch(i, w) == IF w = 1 THEN 1 ELSE IF w = 2 /\ i \in {"sse2", "ssse3"} THEN 4 ELSE 3

\* The padding is for these stores.
ASSUME RoomAssumption ==
  \A i \in Isas, w \in {1, 2, 4} : Stretch(i, w) * BatchOf(i, w) <= Padding + 8 + Overrun(i, w)

VARIABLES
  isa,     \* the copy of the code
  width,   \* of a character: 1, 2, 4
  text,    \* its characters
  isKey,   \* a key of a dict, or a value
  label,   \* where control is
  class,   \* bytes of a character in the loop or block control is in
  src,     \* the index of the next character
  mask,    \* avx512: the characters of the vector that are not of the class
  out,     \* the buffer from the opening quote on
  writer,  \* the index of the next byte to write
  reach    \* the end of the farthest store

input == <<isa, width, text, isKey>>
vars == <<isa, width, text, isKey, label, class, src, mask, out, writer, reach>>

Batch == BatchOf(isa, width)

\* unicode_buffer_reserve, less the indent.
\* Mutant: the reserve is for the characters only.
ReserveUnpadded == (IF isKey THEN 5 ELSE 3) + 6 * Len(text)

Reserve == (IF isKey THEN 5 ELSE 3) + 6 * Len(text) + Padding

Garbage == <<0, 0>>
Quote == <<0, 1>>
Behind == <<0, 2>>

\* PyUnicode_KIND: the width is what the widest character needs, and a text
\* of ASCII alone is not read here.
IsOfWidth(t, w) ==
  /\ \E i \in DOMAIN t : t[i] >= IF w = 1 THEN 128 ELSE IF w = 2 THEN 256 ELSE 65536
  /\ \A i \in DOMAIN t : t[i] < IF w = 1 THEN 256 ELSE IF w = 2 THEN 65536 ELSE 1114112

\* The first byte is the quote.
Init ==
  /\ isa \in Isas /\ width \in {1, 2, 4} /\ isKey \in BOOLEAN
  /\ text \in {t \in Texts(isa, width) : IsOfWidth(t, width)}
  /\ label = "choose" /\ class = 0
  /\ src = 1 /\ mask = {}
  /\ out = [b \in 0 .. 6 * Len(text) + 4 * Batch + 8 |-> IF b = 0 THEN Quote ELSE Garbage]
  /\ writer = 1 /\ reach = 1

left == Len(text) - src + 1
CanLoop == left >= Batch
CanLoop4 == left >= Unroll * Batch

-----------------------------------------------------------------------------
(***************************************************************************)
(* The classes of a character, as the comparisons find them.               *)
(***************************************************************************)

IsEscaped(c) == c < 32 \/ c = 34 \/ c = 92

\* ucs4_get_type: the bytes of a character; ucs2_get_type is the same.
Type(c) == IF c < 128 THEN 1 ELSE IF c < 2048 THEN 2 ELSE IF c < 65536 THEN 3 ELSE 4

IsSurrogate(c) == c >= 55296 /\ c <= 57343

\* ControlEscapeTable_u8, _ControlJump: a letter or \u00XX.
ShortControls == {8, 9, 10, 12, 13, 34, 92}
ControlJump(c) == IF c \in ShortControls THEN 2 ELSE 6

\* An unsigned number below the range, taken for a signed one.
Signed(v, range) == IF v < range \div 2 THEN v ELSE v - range

\* check_ascii_in_ucs1: signed_cmpgt finds the control characters, and those
\* that are not ASCII.
AsciiInUcs1(c) == c \notin {34, 92} /\ ~ 32 > Signed(c, 256)

\* check_ascii_in_ucs2.
AsciiInUcs2(c) == c \notin {34, 92} /\ ~ 32 > Signed(c, 65536) /\ ~ Signed(c, 65536) > 127

\* check_2bytes_in_ucs2.
TwoBytesInUcs2(c) == ~ 128 > Signed(c, 65536) /\ ~ Signed(c, 65536) > 2047

\* Mutant: surrogates are like any other character of three bytes.
ThreeBytesInUcs2Any(c) == ~ 2048 > c

\* check_3bytes_in_ucs2: the first comparison is unsigned.
ThreeBytesInUcs2(c) ==
  /\ ~ 2048 > c
  /\ ~ (Signed(c, 65536) > Signed(55295, 65536) /\ Signed(57344, 65536) > Signed(c, 65536))

\* check_ascii_in_ucs4, check_2bytes_in_ucs4, check_3bytes_in_ucs4: no code
\* point is negative.
AsciiInUcs4(c) == c \notin {34, 92} /\ ~ 32 > c /\ ~ c > 127
TwoBytesInUcs4(c) == ~ 128 > c /\ ~ c > 2047
ThreeBytesInUcs4(c) == ~ 2048 > c /\ ~ (c > 55295 /\ 57344 > c) /\ ~ c > 65535

\* Whether a vector check finds a character of k bytes.
InClass(k, c) ==
  \/ k = 1 /\ width = 1 /\ AsciiInUcs1(c)
  \/ k = 1 /\ width = 2 /\ AsciiInUcs2(c)
  \/ k = 1 /\ width = 4 /\ AsciiInUcs4(c)
  \/ k = 2 /\ width = 2 /\ TwoBytesInUcs2(c)
  \/ k = 2 /\ width = 4 /\ TwoBytesInUcs4(c)
  \/ k = 3 /\ width = 2 /\ ThreeBytesInUcs2(c)
  \/ k = 3 /\ width = 4 /\ ThreeBytesInUcs4(c)

-----------------------------------------------------------------------------
(***************************************************************************)
(* Stores.                                                                 *)
(***************************************************************************)

\* Byte j (from 0) of the characters from src on, converted as characters of
\* k bytes: right for one that is, whatever the shuffles leave for another.
Converted(k, j) ==
  LET i == src + (j \div k)
  IN  IF i <= Len(text) /\ Type(text[i]) = k /\ ~IsEscaped(text[i]) /\ ~IsSurrogate(text[i])
        THEN <<i, 1 + (j % k)>> ELSE Garbage

\* out once n bytes of these are stored at the writer, and reach.
Stored(k, n) ==
  [b \in DOMAIN out |-> IF b >= writer /\ b < writer + n THEN Converted(k, b - writer) ELSE out[b]]

Farther(a, b) == IF a > b THEN a ELSE b

\* The bytes that character i takes.
Size(i) == IF IsEscaped(text[i]) THEN ControlJump(text[i]) ELSE Type(text[i])

\* The bytes stored for it: all eight of an entry of the table.
Spread(i) == IF IsEscaped(text[i]) THEN 8 ELSE Type(text[i])

\* buffer m once character i is written at p, by encode_one_ucs.
Encoded(m, p, i) ==
  [b \in DOMAIN m |->
    IF b < p \/ b >= p + Spread(i) THEN m[b]
    ELSE IF b < p + Size(i) THEN <<i, 1 + b - p>> ELSE Garbage]

\* encode_one_ucs1, encode_one_ucs2, encode_one_ucs4 on character i, with m
\* in the buffer and the farthest store r: the label is next, or the call
\* fails, and nobody looks at the buffer again.
EncodeOne(m, p, i, r, next) ==
  IF IsSurrogate(text[i])
    THEN label' = "failed" /\ UNCHANGED <<src, out, writer, reach>>
    ELSE /\ label' = next
         /\ out' = Encoded(m, p, i)
         /\ writer' = p + Size(i)
         /\ reach' = Farther(r, p + Spread(i))
         /\ src' = i + 1

\* The characters of class k at the front of the next n.
Leading(k, n) ==
  CHOOSE d \in 0 .. n :
    /\ \A i \in 0 .. d - 1 : InClass(k, text[src + i])
    /\ d = n \/ ~InClass(k, text[src + d])

\* The same for the vectors of a loop4: if all of them together show one that
\* is not, the first vector to show one says where, behind those before it.
LeadingOfVectors(k) ==
  LET Whole(v) == \A i \in 0 .. Batch - 1 : InClass(k, text[src + v * Batch + i])
      v == CHOOSE v \in 0 .. Unroll - 1 : ~Whole(v) /\ \A u \in 0 .. v - 1 : Whole(u)
      i == CHOOSE i \in 0 .. Batch - 1 :
             /\ ~InClass(k, text[src + v * Batch + i])
             /\ \A j \in 0 .. i - 1 : InClass(k, text[src + v * Batch + j])
  IN  IF \A u \in 0 .. Unroll - 1 : Whole(u) THEN Unroll * Batch ELSE v * Batch + i

\* check_ascii_in_ucs1_and_get_done_countx4, and those of UCS2 and UCS4.
AsciiInUcs1x4 == LeadingOfVectors(1)
AsciiInUcs2x4 == LeadingOfVectors(1)
AsciiInUcs4x4 == LeadingOfVectors(1)

-----------------------------------------------------------------------------
(***************************************************************************)
(* The loops over whole vectors.                                           *)
(***************************************************************************)

Goto(l, k) ==
  /\ label' = l /\ class' = k
  /\ UNCHANGED <<isa, width, text, isKey, src, mask, out, writer, reach>>

\* Control leaves the loops for what is left of the text.
Leave == Goto(IF left = 0 THEN "close" ELSE "trailing", 0)

\* The 3-byte loops need SSSE3.
ShufflesBytes == isa # "sse2"

\* bytes_write_ucs1: while (CAN_LOOP).
BytesWriteUcs1 ==
  /\ label = "choose" /\ width = 1
  /\ IF ~CanLoop THEN Leave
     ELSE LET c == text[src] IN
       IF c < 128 /\ ~IsEscaped(c) THEN Goto("loop", 1) ELSE Goto("encode_one", 0)

\* bytes_write_ucs2: while (CAN_LOOP).
BytesWriteUcs2 ==
  /\ label = "choose" /\ width = 2
  /\ IF ~CanLoop THEN Leave
     ELSE LET c == text[src] IN
       IF c < 128 THEN Goto("loop", 1)
       ELSE IF c < 2048 THEN Goto("loop", 2)
       ELSE IF ShufflesBytes THEN Goto("loop", 3) ELSE Goto("encode_one", 0)

\* bytes_write_ucs4: while (CAN_LOOP).
BytesWriteUcs4 ==
  /\ label = "choose" /\ width = 4
  /\ IF ~CanLoop THEN Leave
     ELSE LET c == text[src] IN
       IF c < 128 THEN Goto("loop", 1)
       ELSE IF c < 2048 THEN Goto("loop", 2)
       ELSE IF c < 65536 /\ ShufflesBytes THEN Goto("loop", 3)
       ELSE Goto("encode_one", 0)

\* encode_one: the character that ended a loop, or begins no class.
EncodeOneOfLoop ==
  /\ label = "encode_one"
  /\ EncodeOne(out, writer, src, reach, "choose")
  /\ class' = 0
  /\ UNCHANGED <<isa, width, text, isKey, mask>>

\* A store of n characters of k bytes, and extra bytes of the last vector
\* behind them; done characters count.
LoopStep(k, n, done, extra) ==
  /\ label' = IF done = n THEN "loop" ELSE "encode_one"
  /\ out' = Stored(k, k * n + extra)
  /\ reach' = Farther(reach, writer + k * n + extra)
  /\ src' = src + done /\ writer' = writer + k * done
  /\ UNCHANGED <<isa, width, text, isKey, class, mask>>

\* One vector.
VectorStep(k, extra) == LoopStep(k, Batch, Leading(k, Batch), extra)

InLoop(w, k) == label = "loop" /\ width = w /\ class = k

\* ascii_in_ucs1_encode_loop4.
AsciiLoop4Ucs1 == InLoop(1, 1) /\ CanLoop4 /\ LoopStep(1, Unroll * Batch, AsciiInUcs1x4, 0)

\* ascii_in_ucs1_encode_loop.
AsciiLoopUcs1 == InLoop(1, 1) /\ ~CanLoop4 /\ CanLoop /\ VectorStep(1, 0)

\* ascii_in_ucs2_encode_loop4.
AsciiLoop4Ucs2 == InLoop(2, 1) /\ CanLoop4 /\ LoopStep(1, Unroll * Batch, AsciiInUcs2x4, 0)

\* ascii_in_ucs2_encode_loop.
AsciiLoopUcs2 == InLoop(2, 1) /\ ~CanLoop4 /\ CanLoop /\ VectorStep(1, 0)

\* _2bytes_in_ucs2_encode_loop.
TwoBytesLoopUcs2 == InLoop(2, 2) /\ CanLoop /\ VectorStep(2, 0)

\* _3bytes_in_ucs2_encode_loop: the last store of the SSSE3 code is half empty.
ThreeBytesLoopUcs2 ==
  InLoop(2, 3) /\ CanLoop /\ VectorStep(3, IF isa = "ssse3" THEN Batch ELSE 0)

\* ascii_in_ucs4_encode_loop4.
AsciiLoop4Ucs4 == InLoop(4, 1) /\ CanLoop4 /\ LoopStep(1, Unroll * Batch, AsciiInUcs4x4, 0)

\* ascii_in_ucs4_encode_loop.
AsciiLoopUcs4 == InLoop(4, 1) /\ ~CanLoop4 /\ CanLoop /\ VectorStep(1, 0)

\* _2bytes_in_ucs4_encode_loop.
TwoBytesLoopUcs4 == InLoop(4, 2) /\ CanLoop /\ VectorStep(2, 0)

\* _3bytes_in_ucs4_encode_loop.
ThreeBytesLoopUcs4 == InLoop(4, 3) /\ CanLoop /\ VectorStep(3, 0)

\* The break behind a loop.
LoopEnd == label = "loop" /\ ~CanLoop /\ Leave

-----------------------------------------------------------------------------
(***************************************************************************)
(* The trailing functions: less than a vector is left.  The SSE2 and AVX2  *)
(* copies look at the first character again after each one written by      *)
(* itself; the AVX-512 copies shift their mask along, and stay in a block  *)
(* as long as the next character is of its class.                          *)
(***************************************************************************)

\* Where control goes when n characters are left.
NextOr(l, n) == IF n = 0 THEN "close" ELSE l

\* encode_one on the next character, without a block.
ByItself == EncodeOne(out, writer, src, reach, NextOr("trailing", left - 1))

\* A block of class k: n bytes are stored, done characters of them count, and
\* the one behind them is written by itself.  Then control is at l.
Block(k, n, done, l) ==
  IF done = left
    THEN /\ label' = "close"
         /\ out' = Stored(k, n) /\ reach' = Farther(reach, writer + n)
         /\ src' = src + done /\ writer' = writer + k * done
    ELSE EncodeOne(Stored(k, n), writer + k * done, src + done,
                   Farther(reach, writer + n), NextOr(l, left - done - 1))

\* The switch of the trailing functions: characters that no block takes.
NoBlock(c) == (Type(c) = 1 /\ IsEscaped(c)) \/ (Type(c) = 3 /\ ~ShufflesBytes) \/ Type(c) = 4

InTrailing(w, copies) == label = "trailing" /\ width = w /\ isa \in copies
UnchangedInTrailing == UNCHANGED <<isa, width, text, isKey, class, mask>>

Copies128 == {"sse2", "ssse3"}
Copies256 == {"avx2"}
Copies512 == {"avx512"}

\* bytes_write_ucs1_trailing_128: a whole vector is stored.
TrailingUcs1By128 ==
  /\ InTrailing(1, Copies128)
  /\ Block(1, Batch, Leading(1, left), "trailing")
  /\ UnchangedInTrailing

\* bytes_write_ucs2_trailing_128: three bytes a character fill one vector
\* and half of the next, and both are stored.
TrailingUcs2By128 ==
  /\ InTrailing(2, Copies128)
  /\ LET k == Type(text[src]) IN
     IF left = 1 \/ NoBlock(text[src]) THEN ByItself
     ELSE Block(k, (IF k = 3 THEN 4 ELSE k) * Batch, Leading(k, left), "trailing")
  /\ UnchangedInTrailing

\* bytes_write_ucs4_trailing_128.
TrailingUcs4By128 ==
  /\ InTrailing(4, Copies128)
  /\ LET k == Type(text[src]) IN
     IF left = 1 \/ NoBlock(text[src]) THEN ByItself
     ELSE Block(k, k * Batch, Leading(k, left), "trailing")
  /\ UnchangedInTrailing

\* bytes_write_ucs1_trailing_256: blendhigh stores the last characters of a
\* vector only.
TrailingUcs1By256 ==
  /\ InTrailing(1, Copies256)
  /\ Block(1, left, Leading(1, left), "trailing")
  /\ UnchangedInTrailing

\* bytes_write_ucs2_trailing_256.
TrailingUcs2By256 ==
  /\ InTrailing(2, Copies256)
  /\ LET k == Type(text[src]) IN
     IF left = 1 \/ NoBlock(text[src]) THEN ByItself
     ELSE Block(k, k * left, Leading(k, left), "trailing")
  /\ UnchangedInTrailing

\* bytes_write_ucs4_trailing_256.
TrailingUcs4By256 ==
  /\ InTrailing(4, Copies256)
  /\ LET k == Type(text[src]) IN
     IF left = 1 \/ NoBlock(text[src]) THEN ByItself
     ELSE Block(k, k * left, Leading(k, left), "trailing")
  /\ UnchangedInTrailing

\* m & maskz: the places in the vector, from 0, of characters not of class k.
MaskOf(k) == {b \in 0 .. left - 1 : ~InClass(k, text[src + b])}

Lowest(m) == CHOOSE b \in m : \A other \in m : b <= other

\* m >> (done_count + 1).
Shifted(m, done) == {b - (done + 1) : b \in {x \in m : x > done}}

\* The next character is looked at by itself, to see if the block goes on.
StaysInBlock(k, i) == k > 1 /\ i <= Len(text) /\ Type(text[i]) = k /\ ~IsSurrogate(text[i])

\* A block of the AVX-512 copies with mask m, whole vectors stored.
MaskedBlock(k, m) ==
  LET done == IF m = {} THEN left ELSE Lowest(m)
      stays == m # {} /\ (width = 1 \/ StaysInBlock(k, src + done + 1))
  IN  /\ Block(k, k * Batch, done, IF stays THEN "again" ELSE "restart")
      /\ class' = IF stays THEN k ELSE 0
      /\ mask' = IF stays THEN Shifted(m, done) ELSE {}
      /\ UNCHANGED <<isa, width, text, isKey>>

At512(w) == label \in {"trailing", "restart", "again"} /\ width = w /\ isa \in Copies512

\* bytes_write_ucs1_trailing_512.
TrailingUcs1By512 ==
  /\ At512(1)
  /\ MaskedBlock(1, IF label = "again" THEN mask ELSE MaskOf(1))

\* The switch, or the block whose mask was shifted.
Switch512 ==
  IF label = "again" THEN MaskedBlock(class, mask)
  ELSE IF (label = "trailing" /\ left = 1) \/ NoBlock(text[src])
    THEN ByItself /\ UnchangedInTrailing
    ELSE MaskedBlock(Type(text[src]), MaskOf(Type(text[src])))

\* bytes_write_ucs2_trailing_512.
TrailingUcs2By512 == At512(2) /\ Switch512

\* bytes_write_ucs4_trailing_512.
TrailingUcs4By512 == At512(4) /\ Switch512

\* The closing quote and what stands behind it; an indented key has a space
\* there, and a zero that does not count.
Close ==
  /\ label = "close"
  /\ \E indented \in BOOLEAN :
       LET counts == IF isKey /\ indented THEN 3 ELSE 2
           stores == IF isKey /\ indented THEN 4 ELSE 2
       IN  /\ out' = [out EXCEPT ![writer] = Quote, ![writer + 1] = Behind]
           /\ writer' = writer + counts
           /\ reach' = Farther(reach, writer + stores)
  /\ label' = "returned"
  /\ UNCHANGED <<isa, width, text, isKey, class, src, mask>>

Next ==
  \/ BytesWriteUcs1 \/ BytesWriteUcs2 \/ BytesWriteUcs4 \/ EncodeOneOfLoop
  \/ AsciiLoop4Ucs1 \/ AsciiLoopUcs1
  \/ AsciiLoop4Ucs2 \/ AsciiLoopUcs2 \/ TwoBytesLoopUcs2 \/ ThreeBytesLoopUcs2
  \/ AsciiLoop4Ucs4 \/ AsciiLoopUcs4 \/ TwoBytesLoopUcs4 \/ ThreeBytesLoopUcs4
  \/ LoopEnd
  \/ TrailingUcs1By128 \/ TrailingUcs2By128 \/ TrailingUcs4By128
  \/ TrailingUcs1By256 \/ TrailingUcs2By256 \/ TrailingUcs4By256
  \/ TrailingUcs1By512 \/ TrailingUcs2By512 \/ TrailingUcs4By512
  \/ Close

Spec == Init /\ [][Next]_vars

-----------------------------------------------------------------------------
\* The bytes of character i; the opening quote counts as character zero.
BytesOf(i) == IF i = 0 THEN 1 ELSE Size(i)

\* The byte that follows in the text.
After(byte) ==
  IF byte[2] < BytesOf(byte[1]) THEN <<byte[1], byte[2] + 1>> ELSE <<byte[1] + 1, 1>>

\* Buffer m begins with the quote and the bytes of the first n characters,
\* each once and in order, and ends there.
Spells(m, n, end) ==
  /\ m[0] = Quote
  /\ \A b \in 1 .. end - 1 : m[b] = After(m[b - 1])
  /\ m[end - 1] = <<n, BytesOf(n)>>

\* Whatever was stored too far and written over, between the opening quote and
\* the writer stand the bytes of the characters behind src, each once and in
\* order, in every copy, loop and block; the call returns with all of them, or
\* fails at the first surrogate, however far into a vector that stands
\* (simd/*/encode/bytes/ucs1.h, ucs2.h, ucs4.h).
BytesAreUtf8 ==
  /\ label # "returned" => Spells(out, src - 1, writer)
  /\ \A i \in 1 .. src - 1 : ~IsSurrogate(text[i])
  /\ label = "returned" =>
       /\ src = Len(text) + 1
       /\ \E end \in {writer - 2, writer - 3} : Spells(out, Len(text), end) /\ out[end] = Quote
  /\ label = "failed" => \E i \in src .. Len(text) : IsSurrogate(text[i])

\* No store of a vector goes past what was reserved for the text, the bytes
\* that count and those that are written over (_encode_bytes_impl.inl.h:27),
\* with one exception: a text of two bytes a character that ends in a block of
\* three bytes each, in the AVX-512 copy.  For that one TAIL_PADDING is too
\* small, and the store ends at most 24 bytes behind the reserve.
StaysInReserve == reach <= Reserve + Overrun(isa, width)
=============================================================================
