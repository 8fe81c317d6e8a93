------------------------------ MODULE EncodeText ------------------------------
(***************************************************************************)
(* What a call of dumps() should return, by recursion over the objects,    *)
(* and that the walk of EncodeTraversal returns it.                        *)
(***************************************************************************)
EXTENDS EncodeTraversal, SequencesExt

-----------------------------------------------------------------------------
(* The reference.                                                          *)

Separator(i) == IF i = 1 THEN <<>> ELSE <<"comma">>

\* Parts with commas between them.
Joined(parts) ==
  LET upTo[n \in 0 .. Len(parts)] ==
        IF n = 0 THEN <<>> ELSE upTo[n - 1] \o Separator(n) \o parts[n]
  IN upTo[Len(parts)]

\* What stands before the value of item i of container o.
Label(o, i) == IF Kind[o] = "dict" THEN <<Items(o)[i].key, "colon">> ELSE <<>>

\* The items of container o, texts being those of its values.
Parts(texts, o) == [i \in 1 .. Len(Items(o)) |-> Label(o, i) \o texts[Items(o)[i].val]]

\* The text of object o whose containers nest at most n deep.
Text[n \in 0 .. MaxRecursion] ==
  [o \in Objects |->
     IF o \notin Containers THEN <<o>>
     ELSE IF Items(o) = <<>> THEN <<Opening(o), Closing(o)>>
     ELSE IF n = 0 THEN <<>>
     ELSE <<Opening(o)>> \o Joined(Parts(Text[n - 1], o)) \o <<Closing(o)>>]

\* A str, or an atom, that dumps() can write.
GoodLeaf(o) == Kind[o] \in {"str", "atom"} /\ ~(bytes /\ o \in Lone)

GoodKey(o, i) ==
  Kind[o] = "dict" => Kind[Items(o)[i].key] = "str" /\ GoodLeaf(Items(o)[i].key)

\* The objects that can be written with n containers around what they hold.
Good[n \in 0 .. MaxRecursion] ==
  {o \in Objects :
     IF o \notin Containers THEN GoodLeaf(o)
     ELSE \/ Items(o) = <<>>
          \/ /\ n # 0
             /\ \A i \in 1 .. Len(Items(o)) : GoodKey(o, i) /\ Items(o)[i].val \in Good[n - 1]}

\* What was written so far begins the text of the root, and what is returned
\* is all of it: no item is left out, written twice or out of its container.
TextSoFar ==
  LET whole == Text[MaxRecursion][root]
  IN /\ result = "text" => out = whole
     /\ Walking /\ out[Len(out)] # "comma" => IsPrefix(out, whole)
     /\ Walking /\ out[Len(out)] = "comma" => IsPrefix(SubSeq(out, 1, Len(out) - 1), whole)

\* Without a failing allocation, dumps() returns a text exactly for objects
\* it supports that nest at most MaxRecursion containers, counting an empty
\* one as a value.
ReturnsForGood ==
  pc = "returned" /\ ~oom => (result = "text" <=> root \in Good[MaxRecursion])
==============================================================================
