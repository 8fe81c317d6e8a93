----------------------------- MODULE EscapeWiden -----------------------------
(***************************************************************************)
(* Reading a JSON string into a str, decode_str().  There is a copy of the *)
(* code for each kind of the text that is read.  Up to the first escape    *)
(* nothing is copied.  From there on the characters go to a temporary      *)
(* buffer, at the width that the kind of the text and the escapes so far   *)
(* call for; an escape that needs more makes the code close the part of    *)
(* the buffer it is in and go on in a wider one, which begins where the    *)
(* characters before would end had they been wide.  At the quote the parts *)
(* are put together in a str of the least kind.                            *)
(*                                                                         *)
(* A character of the text is its number; text says of each the least kind *)
(* of str that can hold it.                                                *)
(***************************************************************************)
EXTENDS Integers, Sequences

CONSTANTS
  Copies,   \* the kinds of text that are read: 0 for ASCII, else the width
  Batch,    \* bound: characters read at once, at most READ_BATCH_COUNT
  MaxText,  \* bound: characters of the string
  Aways     \* how far behind the pointer temp_buffer the buffer may lie, in
            \* units of 4 bytes

Kinds == {0, 1, 2, 4}

ASSUME CopiesAssumption == Copies \subseteq Kinds
ASSUME BoundsAssumption == Batch \in Nat /\ MaxText \in Nat

\* The pointer is a parameter of the function: it is not in the buffer.
ASSUME AwaysAssumption == Aways \subseteq {a \in Int : a > 0 \/ a < -MaxText}

VARIABLES
  copy,       \* the copy of decode_str that runs
  pc,         \* reading, returned, failed or crashed
  text,       \* the kind of each character read
  width,      \* of the part of the buffer written to, 0 before an escape
  temp,       \* temp_buffer: the character of each byte, 0 for none
  writer,     \* the offset of u8writer, u16writer or u32writer in it
  u8size,     \* characters in the part of width 1, once it is closed
  u16size,    \* those the code counts in the part of width 2, once it is closed
  maxEscape,  \* max_escape
  maxvec,     \* maxvec
  isAscii,    \* is_ascii
  result      \* the str: its kind, and the character of each of its units

flags == <<maxEscape, maxvec, isAscii>>
vars == <<copy, pc, text, width, temp, writer, u8size, u16size, maxEscape, maxvec,
          isAscii, result>>

Width(k) == IF k = 0 THEN 1 ELSE k
Larger(a, b) == IF a < b THEN b ELSE a

\* check_and_reserve_str_buffer: four bytes for each character.
Bytes == 0 .. 4 * MaxText - 1

Init ==
  /\ copy \in Copies
  /\ pc = "reading"
  /\ text = <<>>
  /\ width = 0
  /\ temp = [b \in Bytes |-> 0]
  /\ writer = 0 /\ u8size = 0 /\ u16size = 0
  /\ maxEscape = 0 /\ maxvec = 0 /\ isAscii = FALSE
  /\ result = [kind |-> 0, units |-> <<>>]

-----------------------------------------------------------------------------
(***************************************************************************)
(* The buffer.                                                             *)
(***************************************************************************)

\* What a unit of w bytes holds of character i of a text.
Truncated(s, i, w) == IF s[i] <= w THEN i ELSE 0

\* temp_buffer once n units are stored at offset p: the characters of text s
\* from i on, and where it has no more whatever else the vector held.
Stored(s, p, i, n, w) ==
  [b \in Bytes |->
    IF b >= p /\ b < p + n * w
      THEN LET j == i + ((b - p) \div w)
           IN  IF j <= Len(s) THEN Truncated(s, j, w) ELSE 0
      ELSE temp[b]]

\* The character read at offset p as one of w bytes.
ReadUnit(p, w) ==
  IF \A b \in p .. p + w - 1 : b \in Bytes /\ temp[b] = temp[p] THEN temp[p] ELSE 0

\* Where in the buffer character number n + 1 goes at width w.
\* Mutant: an offset in characters is used as one in bytes.
OffsetBytes(n, w) == n

Offset(n, w) == n * w

\* The width of the part that holds character k: never less than that of the
\* text, from which it is copied.
PartFor(k) == Larger(Width(copy), Width(k))

-----------------------------------------------------------------------------
(***************************************************************************)
(* Reading.                                                                *)
(***************************************************************************)

\* decode_str_fast_*, decode_str_copy_*: a vector is read, and stored whole.
\* The characters ks in it come before a quote or an escape, or fill it.
CopyRaw ==
  /\ pc = "reading"
  /\ \E n \in 1 .. Batch : \E ks \in [1 .. n -> {k \in Kinds : k <= copy}] :
       /\ Len(text) + n <= MaxText
       /\ text' = text \o ks
       /\ IF width = 0 THEN UNCHANGED <<temp, writer>>
          ELSE /\ temp' = Stored(text', writer, Len(text) + 1, Batch, width)
               /\ writer' = writer + n * width
       /\ maxvec' = IF copy = 0 THEN maxvec
                    ELSE CHOOSE m \in Kinds :
                           /\ m >= maxvec /\ \A i \in 1 .. n : m >= ks[i]
                           /\ m = maxvec \/ \E i \in 1 .. n : m = ks[i]
  /\ UNCHANGED <<copy, pc, width, u8size, u16size, maxEscape, isAscii, result>>

\* The copy of ASCII text keeps only whether a character of an escape is not.
Tracked(k) == IF copy = 0 THEN maxEscape ELSE Larger(maxEscape, k)

\* Mutant: the flag is not set by the first escape.
NeverAscii(k) == FALSE

\* is_ascii: set by the first escape, cleared by one of a wider character.
AsciiStill(k) ==
  IF copy = 0 /\ width <= 1 /\ k <= 1 THEN (width = 0 \/ isAscii) /\ k = 0
  ELSE isAscii

\* Character k of an escape is stored in a part of width w, at offset p.
PutEscape(k, p, w) ==
  /\ text' = Append(text, k)
  /\ temp' = IF width = 0 THEN Stored(text', 0, 1, Len(text'), w)
             ELSE Stored(text', p, Len(text'), 1, w)
  /\ writer' = p + w
  /\ width' = w
  /\ maxEscape' = Tracked(k)
  /\ isAscii' = AsciiStill(k)
  /\ UNCHANGED <<copy, pc, maxvec, result>>

\* decode_str_with_escape: what was read is copied, at the width of the escape.
FirstEscape(k) ==
  /\ pc = "reading" /\ width = 0 /\ Len(text) < MaxText
  /\ PutEscape(k, Offset(Len(text), PartFor(k)), PartFor(k))
  /\ UNCHANGED <<u8size, u16size>>

\* process_escape_*: a wider character closes the part it does not fit.
Closes(w) == width # w

\* What process_escape_* takes for the start of the buffer, in bytes before it:
\* process_escape_ucs1_u16, process_escape_ucs2_u16 and process_escape_ascii_u16
\* are given the address of the pointer to the buffer, not the pointer, and use it
\* when they close the part of width 2.
Origin(w, a) == IF width = 2 /\ Closes(w) THEN 4 * a ELSE 0

\* The characters from there to the writer.
Counted(w, a) == (writer + Origin(w, a)) \div width

\* process_escape_*: the character is stored behind as many as are counted, from
\* where the buffer is taken to start; a part that is closed has the rest of them.
NextEscape(k, a) ==
  /\ pc = "reading" /\ width > 0 /\ Len(text) < MaxText
  /\ LET w == Larger(width, Width(k))
         n == Counted(w, a)
     IN  /\ PutEscape(k, Offset(n, w) - Origin(w, a), w)
         /\ u8size' = IF width = 1 /\ Closes(w) THEN n ELSE u8size
         /\ u16size' = IF width = 2 /\ Closes(w) THEN n - u8size ELSE u16size

\* A store that missed the buffer, or the sizes counted with it, may end the
\* process at any time.
Faults ==
  /\ pc = "reading" /\ u16size # 0
  /\ pc' = "crashed"
  /\ UNCHANGED <<copy, text, width, temp, writer, u8size, u16size, maxEscape, maxvec,
                 isAscii, result>>

\* An escape that is none, a control character, or the end of the text.
Invalid ==
  /\ pc = "reading"
  /\ pc' = "failed"
  /\ UNCHANGED <<copy, text, width, temp, writer, u8size, u16size, maxEscape, maxvec,
                 isAscii, result>>

-----------------------------------------------------------------------------
(***************************************************************************)
(* The closing quote.                                                      *)
(***************************************************************************)

\* checkmax of maxvec and max_escape.
Largest == Larger(maxEscape, maxvec)

\* The kind of the str, at the labels done, done_ascii and done_ucs1, 2, 4.
ResultKind ==
  IF copy = 0 THEN IF width = 1 THEN IF isAscii THEN 0 ELSE 1 ELSE width
  ELSE IF width \in {0, copy} THEN Largest
  ELSE width

\* make_unicode_ucs2, make_unicode_ucs4 of the ASCII copy: the number of
\* characters of the last part is given to memcpy as the number of bytes.
CopiedBySize(i) ==
  (i - u8size - u16size) * width <= writer \div width - u8size - u16size

\* Mutant: the part of width 1 is read as if it were of the last one's.
UnitOfOnePart(i) ==
  IF width = 0 THEN i ELSE ReadUnit((i - 1) * width, width)

\* Unit i of the str, from the part of the buffer it is in.
Unit(i) ==
  IF width = 0 THEN Truncated(text, i, Width(ResultKind))
  ELSE IF i <= u8size THEN ReadUnit(i - 1, 1)
  ELSE IF i <= u8size + u16size THEN ReadUnit((i - 1) * 2, 2)
  ELSE IF copy = 0 /\ ~CopiedBySize(i) THEN 0
  ELSE LET c == ReadUnit((i - 1) * width, width)
       IN  IF c = 0 THEN 0 ELSE Truncated(text, c, Width(ResultKind))

\* make_unicode_from_src, make_unicode_from_raw_*, make_unicode_down_*.
Close ==
  /\ pc = "reading" /\ writer >= 0
  /\ result' = [kind |-> ResultKind,
                units |-> [i \in 1 .. (IF width = 0 THEN Len(text) ELSE writer \div width)
                             |-> Unit(i)]]
  /\ pc' = "returned"
  /\ UNCHANGED <<copy, text, width, temp, writer, u8size, u16size, maxEscape, maxvec,
                 isAscii>>

\* create_empty_unicode, PyUnicode_New: also when the size is a negative one.
MakeFails ==
  /\ pc = "reading"
  /\ pc' = "failed"
  /\ UNCHANGED <<copy, text, width, temp, writer, u8size, u16size, maxEscape, maxvec,
                 isAscii, result>>

Returned == pc # "reading" /\ UNCHANGED vars

Next == \/ CopyRaw
        \/ \E k \in Kinds : FirstEscape(k) \/ \E a \in Aways : NextEscape(k, a)
        \/ Faults \/ Invalid \/ Close \/ MakeFails \/ Returned

Spec == Init /\ [][Next]_vars

-----------------------------------------------------------------------------
(***************************************************************************)
(* Properties.                                                             *)
(***************************************************************************)

\* Types, and that the part of width 1 is closed only by a wider one.
TypeOK ==
  /\ copy \in Copies
  /\ pc \in {"reading", "returned", "failed", "crashed"}
  /\ text \in Seq(Kinds) /\ Len(text) <= MaxText
  /\ width \in Kinds
  /\ temp \in [Bytes -> 0 .. MaxText]
  /\ writer \in Int /\ u8size \in Nat /\ u16size \in Int
  /\ maxEscape \in Kinds /\ maxvec \in Kinds /\ isAscii \in BOOLEAN
  /\ result.kind \in Kinds /\ result.units \in Seq(0 .. MaxText)
  /\ u8size > 0 => width > 1

\* The width of the part that character i is in.
WidthOf(i) == IF i <= u8size THEN 1 ELSE width

\* As long as no part of width 2 is closed, no part of the buffer is lost when a
\* wider one is begun or written to: each character read so far is whole at the
\* place its part gives it (process_escape_*, decode_str_copy_*).  It says nothing
\* of a text in which a character beyond U+FFFF comes as an escape while the part
\* of width 2 is written to: WriterInBuffer is about that one.
PartsHoldText ==
  pc \in {"reading", "returned"} /\ width > 0 /\ u16size = 0 =>
    \A i \in 1 .. Len(text) :
      ReadUnit(Offset(i - 1, WidthOf(i)), WidthOf(i)) = i

IsText(units) == units = [i \in 1 .. Len(text) |-> i]

\* The str that decode_str returns is the text, each character whole: of every
\* copy of the code but the one for ASCII, and of that one as long as the
\* characters fit a byte; in both as long as no part of width 2 was closed.
ResultHasText ==
  pc = "returned" /\ (copy # 0 \/ width <= 1) /\ u16size = 0 => IsText(result.units)

\* A str has the least kind that holds its characters, as Python demands of
\* every str: two equal ones of different kinds would not compare equal.
LeastKind ==
  pc = "returned" =>
    /\ \A i \in 1 .. Len(text) : text[i] <= result.kind
    /\ result.kind # 0 => \E i \in 1 .. Len(text) : text[i] = result.kind

\* What the tests demand of loads(): the str is the text.
AlwaysText == pc = "returned" => IsText(result.units)

\* What check_and_reserve_str_buffer says of its buffer: four bytes for each
\* character are room for the string, whatever the escapes in it are.
WriterInBuffer == writer \in 0 .. 4 * MaxText
=============================================================================
