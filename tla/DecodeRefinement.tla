--------------------------- MODULE DecodeRefinement ---------------------------
(***************************************************************************)
(* What the flat stacks of DecodeStack stand for: the text and the tree of *)
(* each reference, and the mapping to nested containers under which the    *)
(* decoder implements JsonDoc.                                             *)
(***************************************************************************)
EXTENDS DecodeStack

\* The parts of a container, with what stands between them.
Separator(kind, i) ==
  IF i = 1 THEN <<>> ELSE IF kind = "dict" /\ i % 2 = 0 THEN <<"colon">> ELSE <<"comma">>

Joined(kind, parts) ==
  LET upTo[n \in 0 .. Len(parts)] ==
        IF n = 0 THEN <<>> ELSE upTo[n - 1] \o Separator(kind, n) \o parts[n]
  IN upTo[Len(parts)]

\* A container that is still open.
Unclosed(kind, parts) == <<IF kind = "list" THEN "lbrack" ELSE "lbrace">> \o Joined(kind, parts)

\* The tokens a reference was read from: items are older than their container.
Text[ref \in References] ==
  LET kind == heap[ref].kind
  IN IF kind \in {"list", "dict"}
       THEN Append(Unclosed(kind, [i \in 1 .. Len(heap[ref].items) |-> Text[heap[ref].items[i]]]),
                   IF kind = "list" THEN "rbrack" ELSE "rbrace")
       ELSE <<IF kind = "key" THEN "str" ELSE kind>>

\* An object that is returned with no exception set is the one the text spells:
\* written back token by token, it is the text.  (Python makes an error of an
\* object returned with an exception set.)
ResultSpellsInput ==
  pc = "returned" /\ result # 0 /\ err = "none" => Append(Text[result], "eof") = input

-----------------------------------------------------------------------------
(* The mapping to JsonDoc.                                                 *)

\* The tree a reference stands for.
Tree[ref \in References] ==
  IF heap[ref].kind \in {"list", "dict"}
    THEN <<IF heap[ref].kind = "list" THEN "array" ELSE "object",
           [i \in 1 .. Len(heap[ref].items) |-> Tree[heap[ref].items[i]]]>>
    ELSE <<"scalar", heap[ref].kind>>

\* The exception stays set if nan is read in place of the null that could not
\* be pushed, whatever is read from there on.
Failed == oom \/ pc = "failed_cleanup" \/ (pc = "returned" /\ result = 0)
Accepted == pc = "success" \/ (pc = "returned" /\ result # 0)

\* Container d with the entries of the object stack above its base.
Frame(d) ==
  [arr |-> ctn[d].arr,
   items |-> [i \in 1 .. Above(d) - base[d] |-> Tree[stack[base[d] + i]]]]

Root == IF pc = "returned" THEN result ELSE stack[1]

AbstractFrames ==
  IF Failed THEN <<>>
  ELSE IF pc = "doc_end" \/ Accepted
       THEN <<[arr |-> heap[Root].kind = "list", items |-> Tree[Root][2]]>>
       ELSE [d \in 1 .. Depth |-> Frame(d)]

\* What each label looks for; at the first entry of a container also its end.
Expected ==
  [init |-> "root", reserve |-> "root", root |-> "root",
   arr_val_begin |-> "value", arr_val_end |-> "array_next",
   obj_key_begin |-> "key", obj_key_end |-> "colon",
   obj_val_begin |-> "value", obj_val_end |-> "object_next",
   doc_end |-> "end"]

AbstractExpect ==
  IF Failed \/ Accepted THEN "done"
  ELSE IF pc = "arr_val_begin" /\ Top.len = 0 THEN "value_or_close"
  ELSE IF pc = "obj_key_begin" /\ Top.len = 0 THEN "key_or_close"
  ELSE Expected[pc]

AbstractInput == IF oom THEN <<>> ELSE input

AbstractOutcome ==
  IF oom THEN "nomem" ELSE IF Failed THEN "reject" ELSE IF Accepted THEN "accept" ELSE "open"

Doc == INSTANCE JsonDoc WITH
         input <- AbstractInput,
         frames <- AbstractFrames,
         expect <- AbstractExpect,
         outcome <- AbstractOutcome

\* The flat stacks build exactly the nested containers JSON asks for, accept
\* every document JsonDoc accepts unless memory runs out, and reject the
\* others at the same token.
ImplementsJsonDoc == Doc!DocSpec
==============================================================================
