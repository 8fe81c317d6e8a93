-------------------------- MODULE MCEncodeTraversal --------------------------
(***************************************************************************)
(* EncodeTraversal for TLC: every graph over a list, a dict and a tuple,   *)
(* and every text of strings of all widths.                                *)
(***************************************************************************)
EXTENDS EncodeText

-----------------------------------------------------------------------------
(* The objects.                                                            *)

MCObjects == {"list", "dict", "tuple", "void", "a", "b", "c", "e", "lone", "int", "huge", "set"}
MCKind == [o \in MCObjects |-> CASE o \in {"list", "dict", "tuple", "huge"} -> o
                                 [] o \in {"a", "b", "c", "e", "lone"} -> "str"
                                 [] o = "void" -> "list"
                                 [] o = "int" -> "atom"
                                 [] o = "set" -> "other"]
MCLevel == [o \in {"a", "b", "c", "e", "lone"} |->
              CASE o = "a" -> 0 [] o = "b" -> 1 [] o \in {"c", "lone"} -> 2 [] o = "e" -> 4]
MCLone == {"lone"}

\* Sequences of at most n of the items in S.
UpTo(S, n) == UNION {[1 .. m -> S] : m \in 0 .. n}
ListItems(S) == {[key |-> "none", val |-> v] : v \in S}
DictItems(K, S) == {[key |-> k, val |-> v] : k \in K, v \in S}

Graph(l, d, t) == [o \in {"list", "dict", "tuple", "void"} |->
                     CASE o = "list" -> l [] o = "dict" -> d [] o = "tuple" -> t [] o = "void" -> <<>>]

\* Every shape, with cycles and shared parts, and an empty list below all.
ShapeValues == {"list", "dict", "tuple", "int"}
Shapes ==
  {Graph(l, d, t) : l \in UpTo(ListItems(ShapeValues), 2),
                    d \in UpTo(DictItems({"a"}, ShapeValues), 2),
                    t \in UpTo(ListItems({"list", "dict", "int", "set", "void"}), 1)}

\* Strings of every width, in a list and in a dict within it.
Widths ==
  {Graph(l, d, <<>>) : l \in UpTo(ListItems({"a", "b", "c", "e", "dict", "lone"}), 3),
                       d \in UpTo(DictItems({"a", "b", "c", "e"}, {"b", "tuple"}), 1)
                               \union UpTo(DictItems({"lone", "int"}, {"huge", "set", "a"}), 1)}

MCGraphs == Shapes \union Widths
==============================================================================
