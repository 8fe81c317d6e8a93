----------------------------- MODULE Utf8Reader -----------------------------
(***************************************************************************)
(* Reading a JSON string of a bytes document into a str, read_bytes().     *)
(* The document is a copy that ends with one zero byte; behind it lies     *)
(* what an earlier call left in the buffer.  A string with nothing special *)
(* becomes a str straight from the copy.  Any other is read into a         *)
(* temporary buffer, at one byte a character until a character needs two   *)
(* or four: then the part written so far is closed and the next begins at  *)
(* the same index of the wider kind.  There is a copy of the code for each *)
(* width.  At the quote the closed parts are widened in place, last        *)
(* character first.                                                        *)
(*                                                                         *)
(* The bytes are the real ones: which sequences are UTF-8, and what they   *)
(* spell, is what this code is about.                                      *)
(***************************************************************************)
EXTENDS Integers, Sequences, JsonEscape

CONSTANTS
  Inputs,  \* the byte sequences that may follow the opening quote
  Junk     \* the bytes that may lie behind the terminator

Octets == 0 .. 255

ASSUME InputsAssumption == Inputs \subseteq Seq(Octets)
ASSUME JunkAssumption == Junk \subseteq Octets

VARIABLES
  input,    \* the bytes of the document from behind the quote on
  junk,     \* every byte behind the terminator
  pc,       \* the label, or returned, failed
  ucs,      \* cur_max_ucs_size
  src,      \* the index of the next byte to read
  dst,      \* the index of the next unit to write: dst, dst_ucs2, dst_ucs4
  lenUcs1,  \* len_ucs1: units of the part of width 1, once it is closed
  lenUcs2,  \* len_ucs2
  isAscii,  \* is_ascii
  mem,      \* temp_string_buf, by byte
  reach,    \* the end of the farthest store into it
  result    \* the str: its kind (0 for ASCII) and its units

vars == <<input, junk, pc, ucs, src, dst, lenUcs1, lenUcs2, isAscii, mem, reach, result>>

\* write_buffer = malloc(4 * len): the document is the quote and the input.
Capacity == 4 * (Len(input) + 1)

Init ==
  /\ input \in Inputs /\ junk \in Junk
  /\ pc = "skip_ascii"
  /\ ucs = 1 /\ src = 1 /\ dst = 0 /\ lenUcs1 = 0 /\ lenUcs2 = 0
  /\ isAscii = TRUE
  /\ mem = [b \in 0 .. Capacity - 1 |-> junk]
  /\ reach = 0
  /\ result = [kind |-> 0, units |-> <<>>]

\* *end = 0: the byte at index i.
Byte(i) == IF i <= Len(input) THEN input[i] ELSE IF i = Len(input) + 1 THEN 0 ELSE junk

Goto(label) == pc' = label
Fail == pc' = "failed" /\ UNCHANGED <<input, junk, ucs, src, dst, lenUcs1, lenUcs2, isAscii, mem, reach, result>>

-----------------------------------------------------------------------------
(***************************************************************************)
(* What a sequence of bytes spells.                                        *)
(***************************************************************************)

\* char_is_ascii_stop: a quote, a backslash, a control or a non-ASCII byte.
IsStop(b) == b < 32 \/ b = 34 \/ b = 92 \/ b > 127

\* Byte n of a sequence that begins at p, as the masks see it: what is above
\* the low bits, which make up m values, and the low bits.
Above(p, n, m) == Byte(p + n - 1) \div m
Low(p, n, m) == Byte(p + n - 1) % m

IsContinuation(p, n) == Above(p, n, 64) = 2

\* is_valid_seq_2: b2_requ leaves the bits of the lead above the lowest.
IsValidSeq2(p) ==
  /\ Above(p, 1, 32) = 6 /\ IsContinuation(p, 2)
  /\ Low(p, 1, 32) \div 2 # 0

\* Mutant: b3_erro is not looked at.
SurrogatesAreValid(p) ==
  /\ Above(p, 1, 16) = 14 /\ IsContinuation(p, 2) /\ IsContinuation(p, 3)
  /\ <<Low(p, 1, 16), Low(p, 2, 64) \div 32>> # <<0, 0>>

\* is_valid_seq_3: b3_requ leaves the lead and one bit of the second byte;
\* b3_erro are the surrogates.
IsValidSeq3(p) ==
  /\ Above(p, 1, 16) = 14 /\ IsContinuation(p, 2) /\ IsContinuation(p, 3)
  /\ <<Low(p, 1, 16), Low(p, 2, 64) \div 32>> \notin {<<0, 0>>, <<13, 1>>}

\* is_valid_seq_4: b4_requ leaves the lead and two bits of the second byte;
\* with the top bit of the lead set, b4_err1 leaves the others clear.
IsValidSeq4(p) ==
  /\ Above(p, 1, 8) = 30
  /\ IsContinuation(p, 2) /\ IsContinuation(p, 3) /\ IsContinuation(p, 4)
  /\ <<Low(p, 1, 8), Low(p, 2, 64) \div 16>> # <<0, 0>>
  /\ Low(p, 1, 8) \div 4 = 0 \/ <<Low(p, 1, 4), Low(p, 2, 64) \div 16>> = <<0, 0>>

\* read_b2_unicode, read_b3_unicode, read_b4_unicode.
ReadB2(p) == 64 * Low(p, 1, 32) + Low(p, 2, 64)
ReadB3(p) == 4096 * Low(p, 1, 16) + 64 * Low(p, 2, 64) + Low(p, 3, 64)
ReadB4(p) == 262144 * Low(p, 1, 8) + 4096 * Low(p, 2, 64) + 64 * Low(p, 3, 64) + Low(p, 4, 64)

\* read_to_hex_u8.
ReadToHex(p) == HexUnit(Byte, p)

\* A unit that is half of a pair: the pair, when the other half follows.
PairAt(p, hi) ==
  LET lo == ReadToHex(p + 8)
  IN  IF /\ hi \div 1024 = 54
         /\ Byte(p + 6) = 92 /\ Byte(p + 7) = 117
         /\ lo # -1 /\ lo \div 1024 = 55
        THEN [code |-> PairCode(hi, lo), size |-> 12]
        ELSE NoEscape

\* switch (*++src): the character of the escape at p, and its bytes.
EscapeAt(p) ==
  LET letter == Byte(p + 1)
      hi == ReadToHex(p + 2)
  IN  IF letter \in DOMAIN ShortEscapes THEN [code |-> ShortEscapes[letter], size |-> 2]
      ELSE IF letter # 117 \/ hi = -1 THEN NoEscape
      ELSE IF hi \div 2048 # 27 THEN [code |-> hi, size |-> 6]
      ELSE PairAt(p, hi)

-----------------------------------------------------------------------------
(***************************************************************************)
(* The temporary buffer.                                                   *)
(***************************************************************************)

\* What the bytes of a unit count.
Places == <<1, 256, 65536, 16777216>>

\* m once unit d, of w bytes, holds the low bytes of c.
Put(m, w, d, c) ==
  [b \in DOMAIN m |-> IF b \div w = d THEN (c \div Places[(b % w) + 1]) % 256 ELSE m[b]]

\* Unit d, of w bytes.  A character has no more than 21 bits.
UnitOf(m, w, d) ==
  m[w * d] + (IF w > 1 THEN 256 * m[w * d + 1] ELSE 0)
           + (IF w > 2 THEN 65536 * m[w * d + 2] ELSE 0)
Unit(w, d) == UnitOf(mem, w, d)

Farthest(e) == IF e > reach THEN e ELSE reach

\* *dst++ = c, dst of the width w.
Write(w, c) ==
  /\ ucs' = w
  /\ mem' = Put(mem, w, dst, c)
  /\ dst' = dst + 1
  /\ reach' = Farthest(w * (dst + 1))

\* The code of one width writes c and goes on.
WriteSame(c, size, label) ==
  /\ Write(ucs, c)
  /\ src' = src + size
  /\ Goto(label)
  /\ UNCHANGED <<input, junk, lenUcs1, lenUcs2, result>>

\* "BEGIN ucs1 -> ucs2", "BEGIN ucs1 -> ucs4": c is the first of the part.
WidenUcs1(w, c, size, label) ==
  /\ lenUcs1' = dst
  /\ Write(w, c)
  /\ src' = src + size
  /\ Goto(label)
  /\ UNCHANGED <<input, junk, lenUcs2, isAscii, result>>

\* "BEGIN ucs2 -> ucs4".
WidenUcs2(c, size, label) ==
  /\ lenUcs2' = dst - lenUcs1
  /\ Write(4, c)
  /\ src' = src + size
  /\ Goto(label)
  /\ UNCHANGED <<input, junk, lenUcs1, isAscii, result>>

-----------------------------------------------------------------------------
(***************************************************************************)
(* The labels.                                                             *)
(***************************************************************************)

\* The bytes from p on that are not a stop.
RunFrom(p) == CHOOSE n \in 0 .. Len(input) + 1 :
                /\ IsStop(Byte(p + n)) /\ \A k \in 0 .. n - 1 : ~IsStop(Byte(p + k))

\* skip_ascii at a quote: make_string takes the bytes where they are.
FastAscii ==
  /\ pc = "skip_ascii"
  /\ Byte(src + RunFrom(src)) = 34
  /\ src' = src + RunFrom(src) + 1
  /\ result' = [kind |-> 0, units |-> SubSeq(input, src, src + RunFrom(src) - 1)]
  /\ Goto("returned")
  /\ UNCHANGED <<input, junk, ucs, dst, lenUcs1, lenUcs2, isAscii, mem, reach>>

\* m once the n bytes at src are copied to dst, in the buffer of width 1.
Copied(n) == [b \in DOMAIN mem |->
               IF b >= dst /\ b < dst + n THEN Byte(src + b - dst) ELSE mem[b]]

\* skip_ascii at any other stop.
SkipAscii ==
  /\ pc = "skip_ascii"
  /\ Byte(src + RunFrom(src)) # 34
  /\ mem' = Copied(RunFrom(src))
  /\ reach' = Farthest(RunFrom(src))
  /\ src' = src + RunFrom(src)
  /\ dst' = RunFrom(src) /\ lenUcs1' = RunFrom(src)
  /\ Goto("copy_utf8")
  /\ UNCHANGED <<input, junk, ucs, lenUcs2, isAscii, result>>

\* The quote ends the string; any other stop that is no escape is an error.
EndOrFail ==
  IF Byte(src) = 34
    THEN /\ Goto("read_finalize") /\ src' = src + 1
         /\ UNCHANGED <<input, junk, ucs, dst, lenUcs1, lenUcs2, isAscii, mem, reach, result>>
    ELSE Fail

\* Mutant: a character of an escape counts as ASCII.
EscapeStaysAscii(c) == isAscii

\* "if (hi >= 0x80) is_ascii = false".
StillAscii(c) == isAscii /\ c < 128

\* copy_escape_ucs1.
CopyEscapeUcs1 ==
  /\ pc = "copy_escape" /\ ucs = 1
  /\ LET e == EscapeAt(src) IN
       IF Byte(src) # 92 THEN EndOrFail
       ELSE IF e.size = 0 THEN Fail
       ELSE IF e.code > 65535 THEN WidenUcs1(4, e.code, e.size, "copy_ascii")
       ELSE IF e.code > 255 THEN WidenUcs1(2, e.code, e.size, "copy_ascii")
       ELSE WriteSame(e.code, e.size, "copy_ascii") /\ isAscii' = StillAscii(e.code)

\* copy_escape_ucs2.
CopyEscapeUcs2 ==
  /\ pc = "copy_escape" /\ ucs = 2
  /\ LET e == EscapeAt(src) IN
       IF Byte(src) # 92 THEN EndOrFail
       ELSE IF e.size = 0 THEN Fail
       ELSE IF e.code > 65535 THEN WidenUcs2(e.code, e.size, "copy_ascii")
       ELSE WriteSame(e.code, e.size, "copy_ascii") /\ UNCHANGED isAscii

\* copy_escape_ucs4.
CopyEscapeUcs4 ==
  /\ pc = "copy_escape" /\ ucs = 4
  /\ LET e == EscapeAt(src) IN
       IF Byte(src) # 92 THEN EndOrFail
       ELSE IF e.size = 0 THEN Fail
       ELSE WriteSame(e.code, e.size, "copy_ascii") /\ UNCHANGED isAscii

\* Mutant: the moves are of whole words.
WordMoved(n) == IF n % 16 = 0 THEN n ELSE n + 16 - (n % 16)

\* byte_move_2, byte_move_4, byte_move_8: a run whose rest is odd takes one
\* byte more with it.
Moved(n) == n + (n % 2)

\* copy_ascii_ucs1: a run is moved at once.
CopyAsciiUcs1 ==
  /\ pc = "copy_ascii" /\ ucs = 1
  /\ LET n == RunFrom(src) IN
       /\ mem' = Copied(Moved(n))
       /\ reach' = Farthest(dst + Moved(n))
       /\ src' = src + n /\ dst' = dst + n
  /\ Goto("copy_utf8")
  /\ UNCHANGED <<input, junk, ucs, lenUcs1, lenUcs2, isAscii, result>>

\* copy_ascii_ucs2, one character after the other.
CopyAsciiUcs2 ==
  /\ pc = "copy_ascii" /\ ucs = 2
  /\ IF ~IsStop(Byte(src)) THEN WriteSame(Byte(src), 1, "copy_ascii") /\ UNCHANGED isAscii
     ELSE Goto("copy_utf8") /\ UNCHANGED <<input, junk, ucs, src, dst, lenUcs1, lenUcs2, isAscii, mem, reach, result>>

\* copy_ascii_ucs4.
CopyAsciiUcs4 ==
  /\ pc = "copy_ascii" /\ ucs = 4
  /\ IF ~IsStop(Byte(src)) THEN WriteSame(Byte(src), 1, "copy_ascii") /\ UNCHANGED isAscii
     ELSE Goto("copy_utf8") /\ UNCHANGED <<input, junk, ucs, src, dst, lenUcs1, lenUcs2, isAscii, mem, reach, result>>

Jump(label) == Goto(label) /\ UNCHANGED <<input, junk, ucs, src, dst, lenUcs1, lenUcs2, isAscii, mem, reach, result>>

\* copy_utf8_ucs1, copy_utf8_inner_ucs1.  The loop over sequences of two bytes
\* goes on where copy_ascii would come back to.
CopyUtf8Ucs1 ==
  /\ pc = "copy_utf8" /\ ucs = 1
  /\ IF Byte(src) < 128 THEN Jump("copy_escape")
     ELSE IF IsValidSeq3(src) THEN WidenUcs1(2, ReadB3(src), 3, "copy_utf8_inner")
     ELSE IF IsValidSeq2(src) THEN
       IF ReadB2(src) > 255 THEN WidenUcs1(2, ReadB2(src), 2, "copy_utf8_inner")
       ELSE WriteSame(ReadB2(src), 2, "copy_ascii") /\ isAscii' = FALSE
     ELSE IF IsValidSeq4(src) THEN WidenUcs1(4, ReadB4(src), 4, "copy_utf8_inner")
     ELSE Fail

\* copy_utf8_ucs2, copy_utf8_inner_ucs2.
CopyUtf8Ucs2 ==
  /\ pc \in {"copy_utf8", "copy_utf8_inner"} /\ ucs = 2
  /\ IF Byte(src) < 128
       THEN Jump(IF pc = "copy_utf8" THEN "copy_escape" ELSE "copy_ascii")
     ELSE IF IsValidSeq3(src) THEN WriteSame(ReadB3(src), 3, "copy_utf8_inner") /\ UNCHANGED isAscii
     ELSE IF IsValidSeq2(src) THEN WriteSame(ReadB2(src), 2, "copy_utf8_inner") /\ UNCHANGED isAscii
     ELSE IF IsValidSeq4(src) THEN WidenUcs2(ReadB4(src), 4, "copy_utf8_inner")
     ELSE Fail

\* copy_utf8_ucs4, copy_utf8_inner_ucs4.
CopyUtf8Ucs4 ==
  /\ pc \in {"copy_utf8", "copy_utf8_inner"} /\ ucs = 4
  /\ IF Byte(src) < 128
       THEN Jump(IF pc = "copy_utf8" THEN "copy_escape" ELSE "copy_ascii")
     ELSE IF IsValidSeq3(src) THEN WriteSame(ReadB3(src), 3, "copy_utf8_inner") /\ UNCHANGED isAscii
     ELSE IF IsValidSeq2(src) THEN WriteSame(ReadB2(src), 2, "copy_utf8_inner") /\ UNCHANGED isAscii
     ELSE IF IsValidSeq4(src) THEN WriteSame(ReadB4(src), 4, "copy_utf8_inner") /\ UNCHANGED isAscii
     ELSE Fail

-----------------------------------------------------------------------------
(***************************************************************************)
(* read_finalize: the parts are widened, and the str is made.              *)
(***************************************************************************)

\* *start-- = c, start of the last unit that is not yet wide.
Widened(c) ==
  /\ mem' = Put(mem, ucs, lenUcs1 + lenUcs2 - 1, c)
  /\ UNCHANGED <<input, junk, pc, ucs, src, dst, isAscii, reach, result>>

\* while (len_ucs2) *start-- = *ucs2_back--.
WidenUcs2Back ==
  /\ pc = "read_finalize" /\ lenUcs2 > 0
  /\ Widened(Unit(2, lenUcs1 + lenUcs2 - 1))
  /\ lenUcs2' = lenUcs2 - 1 /\ UNCHANGED lenUcs1

\* while (len_ucs1) *start-- = *ucs1_back--, in both branches.
WidenUcs1Back ==
  /\ pc = "read_finalize" /\ ucs > 1 /\ lenUcs2 = 0 /\ lenUcs1 > 0
  /\ Widened(Unit(1, lenUcs1 - 1))
  /\ lenUcs1' = lenUcs1 - 1 /\ UNCHANGED lenUcs2

\* make_string, of the kind that the code of this width asks for.
MakeString ==
  /\ pc = "read_finalize" /\ (ucs = 1 \/ lenUcs1 + lenUcs2 = 0)
  /\ result' = [kind |-> IF ucs = 1 /\ isAscii THEN 0 ELSE ucs,
                units |-> [i \in 1 .. dst |-> Unit(ucs, i - 1)]]
  /\ Goto("returned")
  /\ UNCHANGED <<input, junk, ucs, src, dst, lenUcs1, lenUcs2, isAscii, mem, reach>>

Next ==
  \/ FastAscii \/ SkipAscii
  \/ CopyEscapeUcs1 \/ CopyEscapeUcs2 \/ CopyEscapeUcs4
  \/ CopyAsciiUcs1 \/ CopyAsciiUcs2 \/ CopyAsciiUcs4
  \/ CopyUtf8Ucs1 \/ CopyUtf8Ucs2 \/ CopyUtf8Ucs4
  \/ WidenUcs2Back \/ WidenUcs1Back \/ MakeString
  \/ pc \in {"returned", "failed"} /\ UNCHANGED vars

Spec == Init /\ [][Next]_vars

-----------------------------------------------------------------------------
(***************************************************************************)
(* What a JSON string spells: nothing here looks at the masks.             *)
(***************************************************************************)

\* UTF-8.
Encode(c) ==
  IF c < 128 THEN <<c>>
  ELSE IF c < 2048 THEN <<192 + (c \div 64), 128 + (c % 64)>>
  ELSE IF c < 65536 THEN <<224 + (c \div 4096), 128 + ((c \div 64) % 64), 128 + (c % 64)>>
  ELSE <<240 + (c \div 262144), 128 + ((c \div 4096) % 64), 128 + ((c \div 64) % 64), 128 + (c % 64)>>

\* The number in the low bits of n bytes at p.
Payload(p, n) ==
  LET b(k) == input[p + k - 1] % 64
  IN  IF n = 1 THEN input[p]
      ELSE IF n = 2 THEN 64 * (input[p] % 32) + b(2)
      ELSE IF n = 3 THEN 4096 * (input[p] % 16) + 64 * b(2) + b(3)
      ELSE 262144 * (input[p] % 8) + 4096 * b(2) + 64 * b(3) + b(4)

\* An unescaped character at p: the only one whose UTF-8 these bytes are.
PlainAt(p) ==
  {ch \in {[code |-> Payload(p, n), size |-> n] : n \in {k \in 1 .. 4 : p + k - 1 <= Len(input)}} :
     /\ ch.code >= 32 /\ ch.code \notin {34, 92} \cup Surrogates /\ ch.code < 1114112
     /\ Encode(ch.code) = SubSeq(input, p, p + ch.size - 1)}

\* An escaped unit at p.
UnitsAt(p) ==
  IF p + 5 <= Len(input) /\ input[p] = 92 /\ input[p + 1] = 117 /\ ReadToHex(p + 2) # -1
    THEN {ReadToHex(p + 2)} ELSE {}

\* An escape at p.  A pair spells the character that UTF-16 gives it.
EscapedAt(p) ==
  {[code |-> ShortEscapes[l], size |-> 2] :
     l \in {l \in DOMAIN ShortEscapes : p < Len(input) /\ input[p] = 92 /\ input[p + 1] = l}}
  \cup {[code |-> u, size |-> 6] : u \in UnitsAt(p) \ Surrogates}
  \cup {[code |-> 65536 + 1024 * (hi - 55296) + lo - 56320, size |-> 12] :
          hi \in UnitsAt(p) \cap 55296 .. 56319,
          lo \in UnitsAt(p + 6) \cap 56320 .. 57343}

\* The characters that may begin at p.
CharsAt(p) == PlainAt(p) \cup EscapedAt(p)

\* The characters that the input spells, up to the quote; none if it is no
\* string.
Spelled ==
  LET from[p \in 1 .. Len(input) + 1] ==
        IF p > Len(input) THEN {}
        ELSE IF input[p] = 34 THEN {<<>>}
        ELSE UNION {{<<ch.code>> \o rest : rest \in from[p + ch.size]} : ch \in CharsAt(p)}
  IN  from[1]

-----------------------------------------------------------------------------
(***************************************************************************)
(* Properties.                                                             *)
(***************************************************************************)

\* read_bytes: it fails on every input that is not UTF-8 or not a string, such
\* as a surrogate, an overlong sequence, or one that the end of the document
\* cuts; of every other it returns the characters that the input spells.
ReadsExactly ==
  /\ pc = "failed" => Spelled = {}
  /\ pc = "returned" => Spelled = {result.units}

Below(units, limit) == \A i \in DOMAIN units : units[i] < limit

\* read_finalize: the str has the least kind that holds its characters, so
\* that two equal texts are equal objects to Python.
LeastKind ==
  pc = "returned" =>
    \A k \in {0, 1, 2} :
      Below(result.units, IF k = 0 THEN 128 ELSE Places[k + 1]) <=> result.kind <= k

\* Storing whole words, and wider ones for the same bytes, never leaves the
\* four bytes for each byte of the document, and the parts of the string lie
\* one after the other.
StoresInBuffer == reach <= Capacity /\ lenUcs1 + lenUcs2 <= dst

=============================================================================
