---------------------------- MODULE MCUtf8Reader ----------------------------
(***************************************************************************)
(* Utf8Reader on every input of up to three pieces: bytes at the           *)
(* boundaries of the sequences, whole characters at those of the kinds,    *)
(* and escapes, the last two of them with no quote behind; and on every    *)
(* sequence of such bytes behind a lead.                                   *)
(***************************************************************************)
EXTENDS Utf8Reader, FiniteSets, SequencesExt

CONSTANT MaxPieces \* bound: pieces of an input

\* A piece may be half of what it begins.
Bytes == {0, 65, 92, 128, 195, 226, 240}
Characters == {233, 256, 2048, 65535, 65536, 1114111}
Escapes == {<<92, 110>>, <<92, 117, 48, 48, 52, 49>>, <<92, 117, 48, 48, 101, 57>>,
            <<92, 117, 48, 49, 48, 48>>, <<92, 117, 100, 56, 51, 100>>,
            <<92, 117, 100, 101, 48, 48>>, <<92, 117, 48, 48, 52, 103>>, <<65, 66, 67>>}
Pieces == {<<b>> : b \in Bytes} \cup {Encode(c) : c \in Characters} \cup Escapes

Leads == {193, 194, 223, 224, 225, 236, 237, 238, 239, 240, 241, 243, 244, 245, 248, 255}
Tails == {65, 127, 128, 143, 144, 159, 160, 191, 192}

MCInputs ==
  {FlattenSeq(ps) \o <<34>> : ps \in BoundedSeq(Pieces, MaxPieces)}
  \cup {FlattenSeq(ps) : ps \in BoundedSeq(Pieces, MaxPieces - 1)}
  \cup {<<l, a, b, c, 34>> : l \in Leads, a \in Tails, b \in {127, 128, 191}, c \in {127, 128, 191}}
  \cup {<<65, l, a, b, 34>> : l \in Leads, a \in Tails, b \in Tails}
  \cup {<<l, a, 34>> : l \in Leads, a \in Tails}
MCJunk == {34, 191}

=============================================================================
