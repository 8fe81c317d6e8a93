---------------------------- MODULE MCEscapeWiden ----------------------------
(***************************************************************************)
(* EscapeWiden for TLC: all four copies of the code, and a buffer that     *)
(* lies just behind the pointer to it, farther behind it than it is long,  *)
(* or before it.                                                           *)
(***************************************************************************)
EXTENDS EscapeWiden

MCCopies == {0, 1, 2, 4}

MCAways == {1, MaxText + 1, -(MaxText + 1)}
==============================================================================
