--------------------------- MODULE EncodeTraversal ---------------------------
(***************************************************************************)
(* One call of dumps() or dumps_to_bytes(): the walk over the objects with *)
(* an explicit stack of containers (pyyjson_dumps_obj in                   *)
(* _encode_impl.inl.h, and its copy pyyjson_dumps_to_bytes_obj), and the   *)
(* hand-over of the walk from the ascii copy of that function to the ucs1, *)
(* ucs2 and ucs4 copies when a string needs wider characters.              *)
(*                                                                         *)
(* The objects are a graph: cycles and shared parts are allowed.  The text *)
(* is a sequence of tokens, each one character wide; a string or a number  *)
(* is the token of its object.  Growing the buffer may fail at any write.  *)
(***************************************************************************)
EXTENDS Naturals, Sequences

CONSTANTS
  Objects,       \* the objects of the program
  Kind,          \* list, tuple, dict, str, atom, huge (an int of over 64
                 \* bits) or other, by object
  Level,         \* 0, 1, 2 or 4, by str: ascii, or the bytes of a character
  Lone,          \* the strs with a lone surrogate
  Graphs,        \* the items of the containers: [key, val] by container;
                 \* key is none in a list or a tuple
  None,          \* no object
  MaxRecursion   \* PYYJSON_ENCODE_MAX_RECURSION

Kinds == {"list", "tuple", "dict", "str", "atom", "huge", "other"}
Levels == {0, 1, 2, 4}
Containers == {o \in Objects : Kind[o] \in {"list", "tuple", "dict"}}
Strs == {o \in Objects : Kind[o] = "str"}
Marks == {"lbrack", "rbrack", "lbrace", "rbrace", "comma", "colon"}

ASSUME ObjectsAssumption ==
  /\ Kind \in [Objects -> Kinds]
  /\ Level \in [Strs -> Levels]
  /\ Lone \subseteq Strs
  /\ None \notin Objects
  /\ Objects \cap Marks = {}

Item == [key : Objects \union {None}, val : Objects]

ASSUME GraphsAssumption ==
  \A g \in Graphs :
    /\ g \in [Containers -> Seq(Item)]
    /\ \A o \in Containers : Kind[o] = "dict" =>
         \A i \in 1 .. Len(g[o]) : g[o][i].key # None

ASSUME MaxRecursionAssumption == MaxRecursion \in Nat \ {0}

VARIABLES
  \* the call's input
  graph, root, bytes,       \* bytes: dumps_to_bytes is called
  \* the walk
  pc,                       \* the label control is at
  cur, pos,                 \* cur_obj, cur_pos
  size, isTuple,            \* cur_list_size, cur_is_tuple
  val,                      \* the value of the pair whose key was written
  depth,                    \* cur_nested_depth
  stack,                    \* ctn_stack
  \* the text
  out,
  level,                    \* cur_ucs_type
  sizes,                    \* ascii_size, u8_size, u16_size, by level
  \* the outcome
  err,                      \* the exception that is set, or none
  result,                   \* text, or null
  oom                       \* history: an allocation failed

input == <<graph, root, bytes>>
place == <<cur, pos, size, isTuple, depth, stack>>
text == <<out, level, sizes>>
outcome == <<err, result, oom>>
vars == <<input, pc, place, val, text, outcome>>

Slots == 1 .. MaxRecursion
Items(o) == graph[o]

Init ==
  /\ graph \in Graphs
  /\ root \in Objects
  /\ bytes \in BOOLEAN
  /\ pc = "start"
  /\ cur = root
  /\ pos = 0
  /\ size = 0
  /\ isTuple = FALSE
  /\ val = None
  /\ depth = 0
  /\ stack = [i \in Slots |-> [ctn |-> None, index |-> 0]]
  /\ out = <<>>
  /\ level = 0
  /\ sizes = [l \in {0, 1, 2} |-> 0]
  /\ err = "none"
  /\ result = "null"
  /\ oom = FALSE

-----------------------------------------------------------------------------
(* Failing.                                                                *)

Fail(e) ==
  /\ pc' = "fail"
  /\ err' = e
  /\ UNCHANGED <<input, place, val, text, result, oom>>

\* An allocation fails; e is the exception that is set then.  Most set none.
NoMemory(e) ==
  /\ pc' = "fail"
  /\ err' = e
  /\ oom' = TRUE
  /\ UNCHANGED <<input, place, val, text, result>>

-----------------------------------------------------------------------------
(* Writing.                                                                *)

\* The level that writing str o needs.
LevelOf(o) == IF bytes \/ Level[o] <= level THEN level ELSE Level[o]

\* What was written before the level in use.
Before == IF level = 0 THEN 0
          ELSE IF level = 1 THEN sizes[0]
          ELSE IF level = 2 THEN sizes[0] + sizes[1]
          ELSE sizes[0] + sizes[1] + sizes[2]

\* Mutant: the size that is memorized is counted from the start of the text.
MemorizedFromStart(l) == IF l = level THEN sizes ELSE [sizes EXCEPT ![level] = Len(out)]

\* memorize_*_to_*: the size of the text at the level that is left.
Memorized(l) == IF l = level THEN sizes ELSE [sizes EXCEPT ![level] = Len(out) - Before]

\* Mutant: a wider string is written at the level in use.
WriteStrNarrow(o, mark) ==
  /\ out' = out \o <<o, mark>>
  /\ UNCHANGED <<level, sizes>>

\* unicode_buffer_append_key and _str.
WriteStr(o, mark) ==
  /\ out' = out \o <<o, mark>>
  /\ level' = LevelOf(o)
  /\ sizes' = Memorized(LevelOf(o))

Write(toks) ==
  /\ out' = out \o toks
  /\ UNCHANGED <<level, sizes>>

\* Mutant: the closing bracket follows the last comma.
WriteEndAfterComma(mark) ==
  /\ out' = out \o <<mark, "comma">>
  /\ UNCHANGED <<level, sizes>>

\* A container's last comma gives way to its closing bracket.
WriteEnd(mark) ==
  /\ out' = SubSeq(out, 1, Len(out) - 1) \o <<mark, "comma">>
  /\ UNCHANGED <<level, sizes>>

Opening(o) == IF Kind[o] = "dict" THEN "lbrace" ELSE "lbrack"
Closing(o) == IF Kind[o] = "dict" THEN "rbrace" ELSE "rbrack"

\* Where the walk goes on in container o.
LabelOf(o) == IF Kind[o] = "dict" THEN "dict_pair_begin" ELSE "arr_val_begin"

\* cur_list_size and cur_is_tuple for container o; a dict has neither.
Enter(o) ==
  /\ pc' = LabelOf(o)
  /\ cur' = o
  /\ IF Kind[o] = "dict"
       THEN UNCHANGED <<size, isTuple>>
       ELSE size' = Len(Items(o)) /\ isTuple' = (Kind[o] = "tuple")

-----------------------------------------------------------------------------
(* The start of the call.                                                  *)

\* The buffers: init_unicode_buffer, init_encode_ctn_stack.
InitFails ==
  /\ pc = "start" /\ root \in Containers
  /\ NoMemory("MemoryError")

\* The initial buffer holds the first token.
StartEmpty ==
  /\ pc = "start" /\ root \in Containers
  /\ Items(root) = <<>>
  /\ pc' = "success"
  /\ Write(<<Opening(root), Closing(root), "comma">>)
  /\ UNCHANGED <<input, place, val, outcome>>

StartContainer ==
  /\ pc = "start" /\ root \in Containers
  /\ Items(root) # <<>>
  /\ Write(<<Opening(root)>>)
  /\ depth' = 1
  /\ Enter(root)
  /\ UNCHANGED <<input, val, pos, stack, outcome>>

\* The pyyjson_dumps_single functions.
StartSingle ==
  /\ pc = "start" /\ root \notin Containers
  /\ \/ /\ Kind[root] = "other" \/ Kind[root] = "huge" \/ (bytes /\ root \in Lone)
        /\ pc' = "returned"
        /\ err' = "JSONEncodeError"
        /\ UNCHANGED <<input, place, val, text, result, oom>>
     \/ /\ Kind[root] = "atom" \/ (Kind[root] = "str" /\ ~(bytes /\ root \in Lone))
        /\ pc' = "returned"
        /\ IF Kind[root] = "str" THEN out' = <<root>> /\ level' = LevelOf(root) /\ UNCHANGED sizes
                                 ELSE Write(<<root>>)
        /\ result' = "text"
        /\ UNCHANGED <<input, place, val, err, oom>>

\* A single value finds no memory.  PyUnicode_New raises, PyObject_Malloc and
\* PyObject_Realloc do not, and nobody else does.
SingleFails ==
  /\ pc = "start" /\ root \notin Containers
  /\ Kind[root] \in {"atom", "str"}
  /\ pc' = "returned"
  /\ err' = IF bytes \/ Kind[root] = "str" THEN "none" ELSE "MemoryError"
  /\ oom' = TRUE
  /\ UNCHANGED <<input, place, val, text, result>>

-----------------------------------------------------------------------------
(* One value: ENCODE_PROCESS_VAL.  l is where its container goes on.       *)

ValueStr(v) ==
  /\ Kind[v] = "str"
  /\ ~(bytes /\ v \in Lone)
  /\ WriteStr(v, "comma")
  /\ pc' = LabelOf(cur)
  /\ UNCHANGED <<size, isTuple, depth, stack, cur>>

ValueAtom(v) ==
  /\ Kind[v] = "atom"
  /\ Write(<<v, "comma">>)
  /\ pc' = LabelOf(cur)
  /\ UNCHANGED <<size, isTuple, depth, stack, cur>>

ValueEmpty(v) ==
  /\ v \in Containers
  /\ Items(v) = <<>>
  /\ Write(<<Opening(v), Closing(v), "comma">>)
  /\ pc' = LabelOf(cur)
  /\ UNCHANGED <<size, isTuple, depth, stack, cur>>

\* Mutant: the position in the outer container is not saved.
PushUnsavedIndex(v, p) ==
  /\ depth' = depth + 1
  /\ stack' = [stack EXCEPT ![depth] = [ctn |-> cur, index |-> 0]]
  /\ Enter(v)

\* The container in hand is saved and v is entered at its start.
Push(v, p) ==
  /\ depth' = depth + 1
  /\ stack' = [stack EXCEPT ![depth] = [ctn |-> cur, index |-> p]]
  /\ Enter(v)

\* Mutant: one level more than the stack has.
AtLimitLate == depth = MaxRecursion + 1

\* CTN_SIZE_GROW.
AtLimit == depth = MaxRecursion

\* A value that has its text, p being the position after it.
ProcessValue(v, p) ==
  \/ /\ ValueStr(v) \/ ValueAtom(v) \/ ValueEmpty(v)
     /\ pos' = p
     /\ UNCHANGED <<input, outcome>>
  \/ /\ v \in Containers /\ Items(v) # <<>>
     /\ ~AtLimit
     /\ Write(<<Opening(v)>>)
     /\ Push(v, p)
     /\ pos' = 0
     /\ UNCHANGED <<input, outcome>>

\* Mutant: an empty container is too deep as well.
TooDeepIfEmpty(v) == v \in Containers /\ AtLimit

TooDeep(v) == v \in Containers /\ Items(v) # <<>> /\ AtLimit

\* Mutant: a rejected value leaves the walk where it is.
RejectValueRetries(v) ==
  /\ \/ Kind[v] = "huge" \/ Kind[v] = "other" \/ (bytes /\ v \in Lone)
     \/ TooDeep(v)
  /\ UNCHANGED vars

\* A value that has none: the call fails.
RejectValue(v) ==
  /\ \/ Kind[v] = "huge" \/ Kind[v] = "other" \/ (bytes /\ v \in Lone)
     \/ TooDeep(v)
  /\ Fail("JSONEncodeError")

ValueFails(v) == Kind[v] # "other" /\ NoMemory("none")

-----------------------------------------------------------------------------
(* The loops.                                                              *)

\* dict_pair_begin: the next pair's key.
ReadPair ==
  /\ pc = "dict_pair_begin" /\ pos < Len(Items(cur))
  /\ LET k == Items(cur)[pos + 1].key
     IN \/ Kind[k] # "str" /\ Fail("JSONEncodeError")
        \/ Kind[k] = "str" /\ bytes /\ k \in Lone /\ Fail("JSONEncodeError")
        \/ Kind[k] = "str" /\ NoMemory("none")
        \/ /\ Kind[k] = "str" /\ ~(bytes /\ k \in Lone)
           /\ WriteStr(k, "colon")
           /\ val' = Items(cur)[pos + 1].val
           /\ pos' = pos + 1
           /\ pc' = "dict_key_done"
           /\ UNCHANGED <<input, outcome, cur, size, isTuple, depth, stack>>

\* dict_key_done: its value.
PairValue ==
  /\ pc = "dict_key_done"
  /\ \/ ProcessValue(val, pos) /\ UNCHANGED val
     \/ RejectValue(val)
     \/ ValueFails(val)

\* arr_val_begin: the next item.
ItemValue ==
  /\ pc = "arr_val_begin" /\ pos < size
  /\ LET v == Items(cur)[pos + 1].val
     IN \/ ProcessValue(v, pos + 1) /\ UNCHANGED val
        \/ RejectValue(v)
        \/ ValueFails(v)

\* Mutant: the outer list's size is not read again.
ResumeStale(e) ==
  /\ pc' = LabelOf(e.ctn)
  /\ cur' = e.ctn
  /\ pos' = e.index
  /\ UNCHANGED <<size, isTuple>>

\* The outer container goes on where it was left.
Resume(e) == Enter(e.ctn) /\ pos' = e.index

\* The container in hand ends.
EndContainer ==
  /\ \/ pc = "dict_pair_begin" /\ pos >= Len(Items(cur))
     \/ pc = "arr_val_begin" /\ pos >= size
  /\ \/ NoMemory("none")
     \/ /\ WriteEnd(Closing(cur))
        /\ depth' = depth - 1
        /\ UNCHANGED <<input, val, stack, outcome>>
        /\ IF depth = 1 THEN pc' = "success" /\ UNCHANGED <<cur, pos, size, isTuple>>
                        ELSE Resume(stack[depth - 1])

-----------------------------------------------------------------------------
(* The end of the call.                                                    *)

\* success: the last comma goes, the buffer is fitted to the text.
Succeed ==
  /\ pc = "success"
  /\ \/ /\ pc' = "returned"
        /\ out' = SubSeq(out, 1, Len(out) - 1)
        /\ result' = "text"
        /\ UNCHANGED <<input, place, val, level, sizes, err, oom>>
     \/ NoMemory("none")

\* Mutant: the caller of the walk adds no exception.
ReturnFailureAsIs ==
  /\ pc = "fail"
  /\ pc' = "returned"
  /\ UNCHANGED <<input, place, val, text, outcome>>

\* fail, and pyyjson_Encode, which raises when nobody did.
ReturnFailure ==
  /\ pc = "fail"
  /\ pc' = "returned"
  /\ err' = IF err = "none" THEN "JSONEncodeError" ELSE err
  /\ UNCHANGED <<input, place, val, text, result, oom>>

Returned == pc = "returned" /\ UNCHANGED vars

Step ==
  \/ InitFails \/ StartEmpty \/ StartContainer \/ StartSingle \/ SingleFails
  \/ ReadPair \/ PairValue \/ ItemValue \/ EndContainer
  \/ Succeed \/ ReturnFailure

Next == Step \/ Returned

Spec == Init /\ [][Next]_vars

\* The call runs in one thread that holds the interpreter and waits for
\* nothing: it goes on as long as it can.
FairSpec == Spec /\ WF_vars(Step)

-----------------------------------------------------------------------------
(* What the walk guarantees.                                               *)

Labels == {"start", "dict_pair_begin", "dict_key_done", "arr_val_begin", "success", "fail",
           "returned"}
Walking == pc \in {"dict_pair_begin", "dict_key_done", "arr_val_begin"}

\* The stack is never written past its fixed buffer.
TypeOK ==
  /\ pc \in Labels
  /\ cur \in Objects
  /\ pos \in Nat /\ size \in Nat /\ isTuple \in BOOLEAN
  /\ val \in Objects \union {None}
  /\ depth \in 0 .. MaxRecursion
  /\ stack \in [Slots -> [ctn : Objects \union {None}, index : Nat]]
  /\ out \in Seq(Objects \union Marks)
  /\ level \in Levels
  /\ sizes \in [{0, 1, 2} -> Nat]
  /\ err \in {"none", "MemoryError", "JSONEncodeError"}
  /\ result \in {"null", "text"}

\* The container at place i of the walk.
At(i) == IF i = depth THEN cur ELSE stack[i].ctn

\* The stack is the path from the root to the container in hand: each saved
\* position is just after the item that leads on, so that the walk resumes
\* with the item after it, whatever the inner containers did.
StackIsPath ==
  Walking =>
    /\ At(1) = root
    /\ \A i \in 1 .. depth - 1 :
         /\ stack[i].index \in 1 .. Len(Items(stack[i].ctn))
         /\ Items(stack[i].ctn)[stack[i].index].val = At(i + 1)

\* The size and the kind that the array loop works with are those of the
\* container in hand, also after a dict or a hand-over.
ListInHand ==
  pc = "arr_val_begin" =>
    /\ cur \in Containers /\ size = Len(Items(cur)) /\ size # 0
    /\ isTuple = (Kind[cur] = "tuple")

\* The level token t needs.
Need(t) == IF t \in Strs /\ ~bytes THEN Level[t] ELSE 0

\* Where the part of the text at level l ends.
EndOf(l) ==
  IF l = level THEN Len(out)
  ELSE IF l = 0 THEN sizes[0]
  ELSE IF l = 1 THEN sizes[0] + sizes[1]
  ELSE sizes[0] + sizes[1] + sizes[2]

\* The sizes cut the text into parts, and every string is in a part whose
\* characters hold it: the widening at the end reads it as it was written.
CharsFitParts ==
  Walking \/ pc = "success" =>
    /\ level > 0 => Before < Len(out)
    /\ \A l \in {m \in Levels : m <= level} : \A p \in 1 .. EndOf(l) : Need(out[p]) <= l

\* The string returned has the kind CPython requires: the least that holds
\* its characters.
KindIsCanonical ==
  result = "text" => \A l \in Levels :
    level <= l <=> \A p \in 1 .. Len(out) : Need(out[p]) <= l

\* dumps() of a container raises exactly when it returns no text, also when
\* an allocation fails that raises nothing by itself.
FailureRaises ==
  pc = "returned" /\ root \in Containers => (result = "null" <=> err # "none")

\* The assert of _unicode_buffer_reserve: who could not grow the buffer has
\* raised.
GrowthRaises == [][Walking /\ ~oom /\ oom' => err' # "none"]_vars

\* dumps() of any graph of objects comes to an end, a circular one too.
Ends == <>(pc = "returned")
==============================================================================
