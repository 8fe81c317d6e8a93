---------------------------- MODULE MCUtf8Writer ----------------------------
(***************************************************************************)
(* Model checking of Utf8Writer with the vectors of the four copies:       *)
(* short texts of every kind of character, for the trailing functions, and *)
(* texts of a vector or a few with one character of another kind at a      *)
(* place that matters to the loops.                                        *)
(***************************************************************************)
EXTENDS Utf8Writer

\* READ_BATCH_COUNT: the bytes of a vector, by those of a character.
MCBatchOf(i, w) == (CASE i = "avx512" -> 64 [] i = "avx2" -> 32 [] OTHER -> 16) \div w

\* \x01, a quote, a, and characters of one more byte each, with a surrogate.
KindsOf(w) ==
  {1, 97, 233} \cup (IF w = 1 THEN {34} ELSE {8364, 55296})
               \cup (IF w = 4 THEN {65536} ELSE {})

\* Both sides of every boundary.
EdgesOf(w) ==
  {31, 32, 34, 35, 92, 127, 128, 255}
    \cup (IF w = 1 THEN {} ELSE {2047, 2048, 32767, 32768, 55295, 56320, 57343, 57344, 65535})
    \cup (IF w = 4 THEN {65536, 1114111} ELSE {})

\* The characters of one kind that a loop takes.
LoopedOf(w) == IF w = 1 THEN {97} ELSE {97, 233, 8364}

\* n characters of one kind, but one of another.
AlmostAll(n, places, kinds, others) ==
  {[i \in 1 .. n |-> IF i = at THEN d ELSE c] : at \in places, c \in kinds, d \in others}

AnyPlace(n, kinds) == AlmostAll(n, 1 .. n, kinds, kinds)

\* A character that needs the width.
Widest(w) == CASE w = 1 -> 233 [] w = 2 -> 8364 [] w = 4 -> 65536

\* Texts that the loops and loop4s take, and what is left behind them; the
\* odd character is at an end of a vector, or next to one.
LongTexts(b, w) ==
  LET Long(n) ==
        AlmostAll(n, (UNION {{v * b - 1, v * b, v * b + 1, v * b + 2} : v \in 0 .. 4} \cup {n}) \cap 1 .. n,
                  LoopedOf(w), KindsOf(w))
  IN  UNION {Long(n) : n \in {b + 1, 2 * b + 3, 4 * b + 2}}

\* The character that makes the text so wide is among them, or before them.
MCTexts(i, w) ==
  UNION {[1 .. n -> KindsOf(w)] : n \in 1 .. 4}
    \cup {<<Widest(w)>> \o t : t \in AnyPlace(4, KindsOf(w)) \cup AnyPlace(7, KindsOf(w))
                                       \cup AnyPlace(5, EdgesOf(w)) \cup AnyPlace(9, {97, 1, 8364} \cap KindsOf(w))
                                       \cup LongTexts(MCBatchOf(i, w), w)}
    \cup AnyPlace(6, KindsOf(w))
=============================================================================
