------------------------------ MODULE MCStrScan ------------------------------
(***************************************************************************)
(* StrScan on every string of up to MaxPieces pieces, some of which end    *)
(* the string or are no part of one, with runs of every length modulo a    *)
(* vector and up to four vectors behind it.                                *)
(***************************************************************************)
EXTENDS StrScan, SequencesExt

CONSTANT MaxPieces \* bound: pieces of a text

\* 97 and 100 are digits of escapes too, 9731 is of two bytes.
Run(n) == [i \in 1 .. n |-> 97]
Plain == {Run(n) : n \in {1, 2, 4, 7, 16}} \cup {<<9731>>}
Escape(digits) == <<92, 117>> \o digits
Escapes == {<<92, 110>>, Escape(<<48, 48, 52, 49>>),
            Escape(<<100, 56, 51, 100>>), Escape(<<100, 101, 48, 48>>),
            Escape(<<48, 48, 9731, 49>>), <<92, 97>>, <<92>>}
Ends == {<<34>>, <<10>>}

\* What follows the string in the document.
Rests == {<<>>, <<34, 10>>} \cup {<<44, 9731>> \o Run(n) : n \in {0, 1, 5, 16}}

MCTexts ==
  {FlattenSeq(ps) \o end \o rest :
     ps \in BoundedSeq(Plain \cup Escapes, MaxPieces - 1), end \in Ends \cup {<<>>}, rest \in Rests}
  \cup {FlattenSeq(ps) \o <<34>> \o rest :
     ps \in [1 .. MaxPieces -> Plain \cup Escapes], rest \in {<<>>, <<44, 9731, 97>>}}
MCBefore == {34, 9731}
MCIsas == {"shift", "blend", "mask"}

=============================================================================
