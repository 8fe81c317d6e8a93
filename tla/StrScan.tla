------------------------------- MODULE StrScan -------------------------------
(***************************************************************************)
(* The scan of a JSON string in a str document, decode_str(): a vector of  *)
(* characters is read at once and looked at for a quote, a backslash or a  *)
(* control character.  Up to the first escape the characters stay where    *)
(* they are (the fast phase); from there on they are stored behind one     *)
(* another in temp_buffer (the copy phase), each vector whole.  The last   *)
(* characters of the document are fewer than a vector, and every           *)
(* instruction set loads them in a way of its own.  One step is one turn   *)
(* of a loop.                                                              *)
(*                                                                         *)
(* The widths of the buffer are the matter of EscapeWiden: here a unit     *)
(* holds any character.                                                    *)
(***************************************************************************)
EXTENDS Integers, Sequences, FiniteSetsExt, JsonEscape

CONSTANTS
  Isas,   \* "shift" is 128 bits, "blend" 256, "mask" 512
  Batch,  \* READ_BATCH_COUNT: characters of a vector
  Texts,  \* what may follow the opening quote, to the end of the document
  Before  \* the characters that may lie in front of the opening quote

LastCode == 1114111
Codes == 0 .. LastCode

ASSUME IsasAssumption == Isas \subseteq {"shift", "blend", "mask"}
ASSUME BatchAssumption == Batch \in Nat \ {0}
ASSUME TextsAssumption == Texts \subseteq Seq(Codes) /\ Before \subseteq Codes

VARIABLES
  text,    \* the document from behind the opening quote on
  before,  \* every character in front of the quote
  isa,     \* the instruction set of this build
  isKey,   \* is_key
  pc,      \* fast, copy, returned or failed
  src,     \* the index of the next character to read
  out,     \* temp_buffer, by unit
  dst,     \* the index of the next unit to write
  reach,   \* the end of the farthest store into it
  maxvec,  \* the largest lane of maxvec
  result   \* the characters of the str

fixed == <<text, before, isa, isKey>>
vars == <<text, before, isa, isKey, pc, src, out, dst, reach, maxvec, result>>

\* Lanes of a vector; zero in a lane is what no character left there.
Lanes == 1 .. Batch

Init ==
  /\ text \in Texts /\ before \in Before
  /\ isa \in Isas /\ isKey \in BOOLEAN
  /\ pc = "fast"
  /\ src = 1 /\ dst = 0 /\ reach = 0 /\ maxvec = 0
  /\ out = [u \in 0 .. Len(text) - 1 |-> before]
  /\ result = <<>>

\* The character at index i: the quote is at 0, and a str ends with a zero.
At(i) == IF i \in DOMAIN text THEN text[i] ELSE IF i = 0 THEN 34
         ELSE IF i < 0 THEN before ELSE 0

-----------------------------------------------------------------------------
(***************************************************************************)
(* Vectors.                                                                *)
(***************************************************************************)

\* get_escape_mask, get_escape_bitmask.
IsStop(c) == c \in {34, 92} \/ c < 32

\* The vectors at p, n lanes in all.
Load(p, n) == [l \in 1 .. n |-> At(p + l - 1)]

Stops(vec) == {l \in DOMAIN vec : IsStop(vec[l])}

\* low_mask, high_mask: the other lanes are zero.
LowMask(vec, n) == [l \in DOMAIN vec |-> IF l <= n THEN vec[l] ELSE 0]
HighMask(vec, n) == [l \in DOMAIN vec |-> IF l > Len(vec) - n THEN vec[l] ELSE 0]

\* runtime_byte_rshift_128.
ShiftRight(vec, n) == [l \in DOMAIN vec |-> IF l + n \in DOMAIN vec THEN vec[l + n] ELSE 0]

\* unsigned_max, of every lane in turn.
WithMax(vec) == Max({maxvec} \cup {vec[l] : l \in DOMAIN vec})

\* trailing_len.
TrailingLen == Len(text) - src + 1

\* _decode_str_trailing_read_src_impl: the characters from src on.  maskz_loadu
\* reads no others; the other two read the last vector of the document, which
\* may begin in front of the string.
TrailingVec ==
  LET last == Load(Len(text) - Batch + 1, Batch)
  IN  CASE isa = "mask" -> LowMask(Load(src, Batch), TrailingLen)
        [] isa = "blend" -> HighMask(last, TrailingLen)
        [] isa = "shift" -> ShiftRight(last, Batch - TrailingLen)

\* out_check_mask: a lane that is no character of the document is no stop.
TrailingStops ==
  {l \in Stops(TrailingVec) :
     IF isa = "blend" THEN l > Batch - TrailingLen ELSE l <= TrailingLen}

\* Mutant: the last vector is stored at the writer itself.
NoSkew == 0

\* The lane of the last vector that holds the character at src, less one.
Skew == IF isa = "blend" THEN Batch - TrailingLen ELSE 0

-----------------------------------------------------------------------------
(***************************************************************************)
(* do_decode_escape.                                                       *)
(***************************************************************************)

\* verify_escape_hex and read_to_hex.
HexAt(p) == IF p + 3 > Len(text) THEN -1 ELSE HexUnit(At, p)

\* A unit that is half of a pair: the pair, when the other half follows.
PairAt(p, hi) ==
  LET lo == HexAt(p + 8)
  IN  IF /\ hi \div 1024 = 54
         /\ At(p + 6) = 92 /\ At(p + 7) = 117
         /\ lo # -1 /\ lo \div 1024 = 55
        THEN [code |-> PairCode(hi, lo), size |-> 12]
        ELSE NoEscape

\* The escape whose backslash is at p.
EscapeAt(p) ==
  LET letter == At(p + 1)
      hi == HexAt(p + 2)
  IN  IF letter \in DOMAIN ShortEscapes THEN [code |-> ShortEscapes[letter], size |-> 2]
      ELSE IF letter # 117 \/ hi = -1 THEN NoEscape
      ELSE IF hi \div 2048 # 27 THEN [code |-> hi, size |-> 6]
      ELSE PairAt(p, hi)

-----------------------------------------------------------------------------
(***************************************************************************)
(* The buffer.                                                             *)
(***************************************************************************)

\* buf once the lanes ls of vec are stored at unit d; what lies behind the
\* document's characters is padding.
Put(buf, d, vec, ls) ==
  [u \in DOMAIN buf |-> IF u - d + 1 \in ls THEN vec[u - d + 1] ELSE buf[u]]

\* cvt_to_dst of whole vectors.
StoredWhole(vec) == Put(out, dst, vec, DOMAIN vec)

\* Mutant: the last vector is stored without the blend.
StoredLast(vec) == Put(out, dst - Skew, vec, Lanes)

\* cvt_to_dst_blendhigh: the lanes in front of the string are given back what
\* they held, and the first that counts is at the writer.
StoredTrailing(vec) ==
  Put(out, dst - Skew, vec, IF isa = "blend" THEN Skew + 1 .. Batch ELSE Lanes)

-----------------------------------------------------------------------------
(***************************************************************************)
(* A turn of a loop.                                                       *)
(***************************************************************************)

\* What the copy phase stores; the fast phase stores nothing.
Store(buf, end) ==
  IF pc = "fast" THEN out' = out /\ UNCHANGED reach
  ELSE out' = buf /\ reach' = Max({reach, end})

\* DECODE_LOOPSTATE_CONTINUE.
Continue(vec) ==
  /\ src' = src + Len(vec)
  /\ dst' = IF pc = "copy" THEN dst + Len(vec) ELSE dst
  /\ maxvec' = WithMax(vec)
  /\ Store(StoredWhole(vec), dst + Len(vec))
  /\ UNCHANGED <<pc, result>>

\* Mutant: the lanes from the stop on are tracked too.
TrackedAll(vec, n) == WithMax(vec)

\* escape_mask_to_done_count_track_max, joined4_..., and the trailing one.
Tracked(vec, n) == WithMax(LowMask(vec, n))

\* done: make_unicode_from_src, make_unicode_ucs1, 2 and 4.
Finish(s, d, buf, end) ==
  /\ pc' = "returned"
  /\ src' = s + 1 /\ dst' = d
  /\ Store(buf, end)
  /\ result' = IF pc = "fast" THEN SubSeq(text, 1, s - 1)
               ELSE [i \in 1 .. d |-> buf[i - 1]]

\* decode_str_with_escape: in front of the first escape the characters are
\* still in the document, and are copied from there (long_cvt).
FirstEscape(s, e) ==
  /\ pc = "fast"
  /\ out' = Put(Put(out, 0, text, 1 .. s - 1), s - 1, <<e.code>>, {1})
  /\ dst' = s /\ reach' = s

\* process_escape: the character goes behind those stored so far.
NextEscape(d, buf, end, e) ==
  /\ pc = "copy"
  /\ out' = Put(buf, d, <<e.code>>, {1})
  /\ dst' = d + 1 /\ reach' = Max({reach, end})

\* The stop at index s: the end of the string, an escape, or an error.  buf is
\* the buffer with the vector stored.
Stopped(s, d, buf, end) ==
  LET e == EscapeAt(s)
  IN  IF At(s) = 34 THEN Finish(s, d, buf, end)
      ELSE IF At(s) = 92 /\ e.size > 0
        THEN /\ FirstEscape(s, e) \/ NextEscape(d, buf, end, e)
             /\ pc' = "copy" /\ src' = s + e.size /\ UNCHANGED result
      ELSE /\ pc' = "failed" /\ src' = s /\ dst' = d
           /\ Store(buf, end) /\ UNCHANGED result

\* decode_str_fast_loop4, decode_str_fast_loop, decode_str_copy_loop4 and
\* decode_str_copy_loop: vec is the vectors at src.
Turn(vec) ==
  IF Stops(vec) = {} THEN Continue(vec)
  ELSE LET done == Min(Stops(vec)) - 1
       IN  /\ maxvec' = Tracked(vec, done)
           /\ Stopped(src + done, dst + done, StoredWhole(vec), dst + Len(vec))

Scanning == pc \in {"fast", "copy"}

\* CAN_LOOP4, CAN_LOOP.
CanLoop(n) == src + n * Batch - 1 <= Len(text)

\* Four vectors at once: only of a string that is no key before its first
\* escape, and only of a key from there on.
Loop4Applies == CanLoop(4) /\ (isKey <=> pc = "copy")

Loop4 ==
  /\ Scanning /\ Loop4Applies
  /\ Turn(Load(src, 4 * Batch))
  /\ UNCHANGED fixed

Loop ==
  /\ Scanning /\ ~Loop4Applies /\ CanLoop(1)
  /\ Turn(Load(src, Batch))
  /\ UNCHANGED fixed

\* done_count of the last vector.
TrailingDone == Min(TrailingStops) - 1 - Skew

\* decode_str_fast_trailing, decode_str_copy_trailing.
Trailing ==
  /\ Scanning /\ ~CanLoop(1) /\ src <= Len(text)
  /\ TrailingStops # {}
  /\ maxvec' = Tracked(TrailingVec, Min(TrailingStops) - 1)
  /\ Stopped(src + TrailingDone, dst + TrailingDone, StoredTrailing(TrailingVec), dst + Batch - Skew)
  /\ UNCHANGED fixed

\* "Unexpected ending in string", "Unexpected end of string".
EndOfText ==
  /\ Scanning /\ ~CanLoop(1)
  /\ src > Len(text) \/ TrailingStops = {}
  /\ pc' = "failed"
  /\ UNCHANGED <<text, before, isa, isKey, src, out, dst, reach, maxvec, result>>

Done == pc \in {"returned", "failed"} /\ UNCHANGED vars

Next == Loop4 \/ Loop \/ Trailing \/ EndOfText \/ Done

Spec == Init /\ [][Next]_vars

-----------------------------------------------------------------------------
(***************************************************************************)
(* What the string spells, one character after the other.                  *)
(***************************************************************************)

\* An escaped unit at p.
UnitsAt(p) ==
  IF p + 5 <= Len(text) /\ text[p] = 92 /\ text[p + 1] = 117 /\ HexAt(p + 2) # -1
    THEN {HexAt(p + 2)} ELSE {}

\* The characters that may begin at p, and how many of the text each takes.
CharsAt(p) ==
  {[code |-> c, size |-> 1] : c \in {text[p]} \ ({34, 92} \cup 0 .. 31)}
  \cup {[code |-> ShortEscapes[l], size |-> 2] :
          l \in {l \in DOMAIN ShortEscapes : p < Len(text) /\ text[p] = 92 /\ text[p + 1] = l}}
  \cup {[code |-> u, size |-> 6] : u \in UnitsAt(p) \ Surrogates}
  \cup {[code |-> 65536 + 1024 * (hi - 55296) + lo - 56320, size |-> 12] :
          hi \in UnitsAt(p) \cap 55296 .. 56319,
          lo \in UnitsAt(p + 6) \cap 56320 .. 57343}

\* The string at the start of the text: the characters it spells, where it
\* ends, and those that stand for themselves; none if there is no string.
Reading ==
  LET from[p \in 1 .. Len(text) + 1] ==
        IF p > Len(text) THEN {}
        ELSE IF text[p] = 34 THEN {[chars |-> <<>>, end |-> p + 1, raw |-> {}]}
        ELSE UNION {{[chars |-> <<ch.code>> \o rest.chars, end |-> rest.end,
                      raw |-> rest.raw \cup (IF ch.size = 1 THEN {ch.code} ELSE {})] :
                        rest \in from[p + ch.size]} : ch \in CharsAt(p)}
  IN  from[1]

-----------------------------------------------------------------------------
(***************************************************************************)
(* Properties.                                                             *)
(***************************************************************************)

\* decode_str, with every instruction set: the str holds the characters that
\* the text up to the first bare quote spells, the cursor is left behind that
\* quote, and it fails on every text that is no string, whatever lies in front
\* of the string and behind it.
ReadsString ==
  /\ pc = "returned" => \E r \in Reading : result = r.chars /\ src = r.end
  /\ pc = "failed" => Reading = {}

\* maxvec, from which the kind of the str is chosen, is the largest of the
\* characters that stand for themselves: none is left out, and none behind the
\* quote, of an escape or in front of the string is counted.
MaxIsOfRaw == pc = "returned" => \E r \in Reading : maxvec = Max({0} \cup r.raw)

\* Storing whole vectors never reaches a whole vector past the units that
\* temp_buffer has for the characters of the document, and the blend never
\* reaches past them at all.
StoresInReserve == reach <= Len(text) + (IF isa = "blend" THEN 0 ELSE Batch - 1)

=============================================================================
