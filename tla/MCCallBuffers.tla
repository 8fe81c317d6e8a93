--------------------------- MODULE MCCallBuffers ---------------------------
(***************************************************************************)
(* Two threads with two calls each: of every kind of call that takes other *)
(* memory, one.                                                            *)
(***************************************************************************)
EXTENDS CallBuffers, TLC

MCCall(fn, of, root, size) ==
  [fn |-> fn, of |-> of, root |-> root, size |-> size]

MCCalls ==
  {MCCall("dumps", "str", "container", "short"),
   MCCall("loads", "str", "container", "short"),
   MCCall("loads", "str", "string", "long"),
   MCCall("loads", "str", "literal", "short"),
   MCCall("loads", "bytes", "container", "short"),
   MCCall("loads", "bytes", "container", "long"),
   MCCall("loads", "bytes", "string", "middle")}

MCNumberings == {[encode_obj |-> 1, decode_obj |-> 2, decode_ctn |-> 3]}

Symmetric == Permutations(Threads)
=============================================================================
