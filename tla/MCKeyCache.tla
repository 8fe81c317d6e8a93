------------------------------ MODULE MCKeyCache ------------------------------
(***************************************************************************)
(* KeyCache for TLC: texts that share a slot, a pair that shares its bytes *)
(* but not their kind, a key too long for the cache, and the empty key.    *)
(***************************************************************************)
EXTENDS KeyCache

EmptyKey == [bytes |-> "none", size |-> 0, kind |-> 1, ascii |-> TRUE]
Narrow == [bytes |-> "p", size |-> 2, kind |-> 1, ascii |-> TRUE]
Wide == [bytes |-> "p", size |-> 2, kind |-> 2, ascii |-> FALSE]
Other == [bytes |-> "q", size |-> 2, kind |-> 1, ascii |-> TRUE]
Long == [bytes |-> "long", size |-> 65, kind |-> 1, ascii |-> TRUE]

MCKeys == {EmptyKey, Narrow, Wide, Other, Long}
MCFewKeys == {EmptyKey, Narrow, Wide, Long}
MCHash == [none |-> 3, p |-> 2, q |-> 4, long |-> 1]
==============================================================================
