----------------------------- MODULE EncodeWiden -----------------------------
(***************************************************************************)
(* The buffer dumps() writes to: one block of memory that becomes the str  *)
(* that is returned.  Characters are written behind the header at the      *)
(* least width seen so far.  When a string needs wider ones, memorize_*    *)
(* keeps how many were written, moves the writer to where it would be had  *)
(* all of them been wide, and goes on.  At the end each narrow part is     *)
(* widened in place, from its last character to its first, in pieces of    *)
(* the size of a vector.                                                   *)
(*                                                                         *)
(* mem holds, for every byte of the block, the number of the character of  *)
(* the text it belongs to.  Where the walk calls what is here is           *)
(* EncodeTraversal.                                                        *)
(***************************************************************************)
EXTENDS Naturals, Sequences

CONSTANTS
  AsciiStart,    \* sizeof(PyASCIIObject)
  CompactStart,  \* sizeof(PyCompactUnicodeObject)
  Sizes,         \* the sizes of the block that doubling reaches
  InitSize,      \* PYYJSON_ENCODE_DST_BUFFER_INIT_SIZE
  VectorBytes,   \* COMPILE_SIMD_BITS / 8
  MaxSpare,      \* bound: what a token reserves beyond its characters
  MaxToken,      \* bound: characters of one token
  MaxText        \* bound: characters of the text

Parts == {0, 1, 2}
Levels == {0, 1, 2, 4}

ASSUME HeaderAssumption ==
  /\ AsciiStart \in Nat /\ CompactStart \in Nat
  /\ AsciiStart <= CompactStart

ASSUME SizesAssumption ==
  /\ Sizes \subseteq Nat
  /\ InitSize \in Sizes
  /\ AsciiStart < InitSize

ASSUME TokenAssumption ==
  /\ VectorBytes \in {4, 8, 16, 32, 64}
  /\ MaxSpare \in Nat /\ MaxToken \in Nat /\ MaxText \in Nat

VARIABLES
  pc,       \* writing, string (the writer was moved for a string that is not
            \* written yet), widening, returned or failed
  mem,      \* the block: the character of each byte, 0 for none
  writer,   \* the offset of the writer in the block
  level,    \* cur_ucs_type
  count,    \* ascii_size, u8_size and u16_size, by part
  len,      \* characters of the text
  todo,     \* the parts that are still to be widened, the next one first
  left,     \* characters of the first of them that are not yet
  lead      \* of these, how many go before the vectors are aligned

vars == <<pc, mem, writer, level, count, len, todo, left, lead>>

(***************************************************************************)
(* Places.  A character of the text is a number from 1.                    *)
(***************************************************************************)

Width(l) == IF l = 0 THEN 1 ELSE l
Start(l) == IF l = 0 THEN AsciiStart ELSE CompactStart

\* The offset of the first byte of character k in a text kept at level l.
Place(l, k) == Start(l) + (k - 1) * Width(l)

\* The bytes of the characters from i to j, at level l.
Bytes(l, i, j) == Place(l, i) .. Place(l, j + 1) - 1

Size == Len(mem)

\* mem as an array of bytes that starts at 0.
At(offset) == mem[offset + 1]

\* The character read at byte p as one of w bytes.
ReadUnit(p, w) ==
  IF \A b \in 0 .. w - 1 : At(p + b) = At(p) THEN At(p) ELSE 0

\* How many characters were written before the ones of a part.
Offset(p) == (IF p > 0 THEN count[0] ELSE 0) + (IF p > 1 THEN count[1] ELSE 0)

\* The level a character of the text was written at.
WrittenAt(k) ==
  IF k <= count[0] THEN 0
  ELSE IF k <= count[0] + count[1] THEN 1
  ELSE IF k <= count[0] + count[1] + count[2] THEN 2
  ELSE level

Init ==
  /\ pc = "writing"
  /\ mem = [i \in 1 .. InitSize |-> 0]
  /\ writer = AsciiStart
  /\ level = 0
  /\ count = [p \in Parts |-> 0]
  /\ len = 0
  /\ todo = <<>> /\ left = 0 /\ lead = 0

-----------------------------------------------------------------------------
(***************************************************************************)
(* Writing.                                                                *)
(***************************************************************************)

\* _unicode_buffer_reserve: s is what doubling makes of the size.
Enough(s, target) ==
  /\ s \in Sizes /\ target <= s
  /\ \A r \in Sizes : target <= r => s <= r

Resized(m, s) == [i \in 1 .. s |-> IF i <= Len(m) THEN m[i] ELSE 0]

\* Mutant: counts characters as bytes.
ReservedBytes(w, n) ==
  IF w + n <= Size THEN {Size} ELSE {s \in Sizes : Enough(s, w + n)}

\* unicode_buffer_reserve: the sizes the block may have once n characters fit
\* behind w.
Reserved(w, n) ==
  LET target == w + n * Width(level)
  IN  IF target <= Size THEN {Size} ELSE {s \in Sizes : Enough(s, target)}

\* The block of size s with n new characters from w on, and after them x
\* units of whatever the last vector held.
Stored(s, w, from, n, x) ==
  LET u == Width(level)
  IN  [i \in 1 .. s |->
        IF i > w /\ i <= w + n * u THEN from + 1 + ((i - 1 - w) \div u)
        ELSE IF i > w + n * u /\ i <= w + (n + x) * u THEN 0
        ELSE Resized(mem, s)[i]]

\* A token of n characters; back is 1 if it takes the place of a comma.
\* Reserved beyond them is what an escape could have needed, and TAIL_PADDING.
AppendToken(back, n) ==
  LET w == writer - back * Width(level)
      from == len - back
  IN  /\ from + n <= MaxText
      /\ \E spare \in 0 .. MaxSpare :
           \E s \in Reserved(w, n + spare), x \in 0 .. spare :
             mem' = Stored(s, w, from, n, x)
      /\ writer' = w + n * Width(level)
      /\ len' = from + n
      /\ pc' = "writing"
      /\ UNCHANGED <<level, count, todo, left, lead>>

\* unicode_buffer_append_key_internal, unicode_buffer_append_str_internal, and
\* the append functions of the other values.
WriteToken ==
  /\ pc \in {"writing", "string"}
  /\ \E n \in 1 .. MaxToken : AppendToken(0, n)

\* unicode_buffer_append_arr_end, unicode_buffer_append_obj_end: a mark and a
\* comma, in the place of the comma before.
EndContainer ==
  /\ pc = "writing" /\ len > 0
  /\ AppendToken(1, 2)

Fail == /\ pc' = "failed"
        /\ UNCHANGED <<mem, writer, level, count, len, todo, left, lead>>

\* A token whose block cannot be grown.
WriteFails ==
  /\ pc \in {"writing", "string"}
  /\ \E n \in 1 .. MaxToken, spare \in 0 .. MaxSpare :
       writer + (n + spare) * Width(level) > Size
  /\ Fail

\* Mutant: keeps all that was written so far as one part's.
MemorizeTotal(l) ==
  LET total == (writer - Start(level)) \div Width(level)
  IN  /\ pc = "writing" /\ l > level
      /\ count' = [count EXCEPT ![level] = total]
      /\ writer' = Start(l) + total * Width(l)
      /\ level' = l
      /\ pc' = "string"
      /\ UNCHANGED <<mem, len, todo, left, lead>>

\* memorize_ascii_to_ucs1 ... memorize_ucs2_to_ucs4, in prepare_unicode_write.
Memorize(l) ==
  LET total == (writer - Start(level)) \div Width(level)
  IN  /\ pc = "writing" /\ l > level
      /\ count' = [count EXCEPT ![level] = total - Offset(level)]
      /\ writer' = Start(l) + total * Width(l)
      /\ level' = l
      /\ pc' = "string"
      /\ UNCHANGED <<mem, len, todo, left, lead>>

-----------------------------------------------------------------------------
(***************************************************************************)
(* Widening.                                                               *)
(***************************************************************************)

\* The parts below level l, as the label success widens them.
PartsBelow(l) == IF l = 0 THEN <<>>
                 ELSE IF l = 1 THEN <<0>>
                 ELSE IF l = 2 THEN <<1, 0>>
                 ELSE <<2, 1, 0>>

\* long_back_cvt begins a part: how many characters go before the end of the
\* destination is aligned depends on where the block is.
Enter(parts) ==
  /\ todo' = parts
  /\ left' = IF parts = <<>> THEN 0 ELSE count[Head(parts)]
  /\ lead' \in {a \in 0 .. (VectorBytes \div Width(level)) - 1 : a <= left'}

\* The label success: the last comma goes.
Success ==
  /\ pc = "writing" /\ len > 0
  /\ writer' = writer - Width(level)
  /\ len' = len - 1
  /\ Enter(PartsBelow(level))
  /\ pc' = "widening"
  /\ UNCHANGED <<mem, level, count>>

\* The bits of a count, as __small_back_cvt takes them.
IsLowBit(n, x) == x % (2 * n) = n

\* The characters from first to last are read at the level of their part and
\* stored at the level of the text.
Moved(p, first, last) ==
  [i \in 1 .. Size |->
    IF i - 1 \in Bytes(level, first, last)
      THEN ReadUnit(Place(p, first + ((i - 1 - Place(level, first)) \div Width(level))),
                    Width(p))
      ELSE mem[i]]

Move(n) ==
  LET p == Head(todo)
      last == Offset(p) + left
  IN  /\ mem' = Moved(p, last - n + 1, last)
      /\ left' = left - n
      /\ UNCHANGED <<pc, writer, level, count, len, todo>>

\* One piece of long_back_cvt: pieces of 1, 2, 4, ... characters up to where
\* the destination is aligned, whole vectors, and pieces for the rest.
MovePiece ==
  /\ pc = "widening" /\ level > 1 /\ left > 0
  /\ \E n \in {1, 2, 4, 8, 16, 32, 64} :
       /\ \/ /\ lead > 0 /\ IsLowBit(n, lead)
             /\ lead' = lead - n
          \/ /\ lead = 0 /\ lead' = 0
             /\ LET batch == VectorBytes \div Width(Head(todo))
                IN  IF left >= batch THEN n = batch ELSE IsLowBit(n, left)
       /\ Move(n)

\* ascii_elevate1 is a memmove.
MoveAll ==
  /\ pc = "widening" /\ level = 1 /\ left > 0
  /\ lead' = 0
  /\ Move(left)

NextPart ==
  /\ pc = "widening" /\ todo # <<>> /\ left = 0
  /\ Enter(Tail(todo))
  /\ UNCHANGED <<pc, mem, writer, level, count, len>>

\* What resize_to_fit_pyunicode makes the block.
FittingSize == Start(level) + (len + 1) * Width(level)

\* resize_to_fit_pyunicode, and the 0 that init_pyunicode stores at the end.
Return ==
  /\ pc = "widening" /\ todo = <<>>
  /\ mem' = [i \in 1 .. FittingSize |->
              IF i > FittingSize - Width(level) THEN 0 ELSE Resized(mem, FittingSize)[i]]
  /\ pc' = "returned"
  /\ UNCHANGED <<writer, level, count, len, todo, left, lead>>

ResizeFails == pc = "widening" /\ todo = <<>> /\ Fail

Returned == pc \in {"returned", "failed"} /\ UNCHANGED vars

Next == \/ WriteToken \/ EndContainer \/ WriteFails
        \/ \E l \in Levels : Memorize(l)
        \/ Success \/ MovePiece \/ MoveAll \/ NextPart
        \/ Return \/ ResizeFails \/ Returned

Spec == Init /\ [][Next]_vars

-----------------------------------------------------------------------------
(***************************************************************************)
(* Properties.                                                             *)
(***************************************************************************)

\* Types: what each variable holds.
TypeOK ==
  /\ pc \in {"writing", "string", "widening", "returned", "failed"}
  /\ mem \in Seq(0 .. MaxText)
  /\ writer \in Nat /\ level \in Levels
  /\ count \in [Parts -> Nat]
  /\ len \in 0 .. MaxText
  /\ todo \in Seq(Parts) /\ left \in Nat /\ lead \in Nat
  /\ lead <= left

\* The level a character of the text is kept at now.
LevelNow(k) ==
  IF /\ pc \in {"widening", "returned"}
     /\ todo = <<>> \/ k > Offset(Head(todo)) + left
    THEN level ELSE WrittenAt(k)

\* Nothing that is still to be read is overwritten: at every moment each
\* character of the text is whole, at the place of the level it is kept at
\* (memorize_*, unicode_buffer_reserve, long_back_cvt).  Of the str that is
\* returned that is the level of the str.
TextHeld ==
  pc # "failed" =>
    \A k \in 1 .. len :
      \A o \in Bytes(LevelNow(k), k, k) : o < Size /\ At(o) = k

\* The writer is in the block after each token (check_unicode_writer_valid),
\* and the block has room for the text at its last width with the 0 behind
\* it, so that resize_to_fit_pyunicode never has to grow it, as its comment
\* says.
RoomForText ==
  /\ pc = "writing" => writer <= Size
  /\ pc = "widening" => FittingSize <= Size
=============================================================================
