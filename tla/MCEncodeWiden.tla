---------------------------- MODULE MCEncodeWiden ----------------------------
(***************************************************************************)
(* EncodeWiden for TLC: headers of 2 and 3 bytes, a block of 8 bytes that  *)
(* doubles, vectors of 8 bytes.                                            *)
(***************************************************************************)
EXTENDS EncodeWiden

MCSizes == {8, 16, 32, 64}
==============================================================================
