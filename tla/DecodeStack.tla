----------------------------- MODULE DecodeStack -----------------------------
(***************************************************************************)
(* One call of the container decoder of loads(): the labels and gotos of   *)
(* READ_ROOT_IMPL (decode_bytes_root.inl.h and its twin                    *)
(* decode_str_root.inl.h, each compiled for pretty and for minified text), *)
(* the container stack, the flat object stack it shares with every open    *)
(* container, and the two failure paths.                                   *)
(*                                                                         *)
(* The text is abstracted to tokens.  "bad" is any text that scans as no   *)
(* token, a malformed string, number or literal included; "eof" is the NUL *)
(* after the text.  White space, which every label skips and then returns  *)
(* to itself, is left out.  An object is a number: its place in heap, the  *)
(* history of the references the call was given.  What                     *)
(* _PyDict_SetItem_KnownHash does with equal keys is left out here.        *)
(***************************************************************************)
EXTENDS Naturals, Sequences

CONSTANTS
  MaxDepth,      \* PYYJSON_DECODE_MAX_RECURSION
  InitCap,       \* PYYJSON_DECODE_OBJ_BUFFER_INIT_SIZE
  MaxTokens,     \* bound: tokens of a document before its end
  Tokens         \* the tokens documents are made of

ValueTokens == {"num", "str", "lit", "null", "nan"}
AllTokens == ValueTokens \union {"lbrack", "rbrack", "lbrace", "rbrace", "comma", "colon", "bad", "eof"}

ASSUME SizeAssumption ==
  /\ MaxDepth \in Nat \ {0}
  /\ InitCap \in Nat \ {0}
  /\ MaxTokens \in Nat

ASSUME TokenAssumption == Tokens \subseteq AllTokens

VARIABLES
  pc,            \* the label control is at
  ctn,           \* container stack, root first: [arr, len] (DecodeCtnWithSize)
  stack,         \* object stack, result_stack up to cur_write_result_addr
  cap,           \* result_stack_end - result_stack
  strbuf,        \* string_buffer_head: "uninit", "tls", "heap" or "null"
  err,           \* the Python exception set: "none", "memory" or "decode"
  result,        \* what the call returns; 0 is NULL
  heap,          \* history: every reference the call was given
  released,      \* history: references given back
  lost,          \* history: references dropped without being given back
  blocks,        \* history: malloc'ed buffers of the call not yet freed
  wildFree,      \* history: free() was called on an uninitialized pointer
  oom,           \* history: an allocation failed
  input,         \* history: the tokens read
  base           \* history: height of the object stack when each open
                 \* container was opened

containers == <<ctn, base>>
store == <<stack, cap, blocks>>
objects == <<heap, released, lost>>
call == <<strbuf, result, wildFree>>
vars == <<pc, containers, store, objects, call, err, oom, input>>

Labels == {"init", "reserve", "root", "arr_val_begin", "arr_val_end",
           "obj_key_begin", "obj_key_end", "obj_val_begin", "obj_val_end",
           "nan_retry", "doc_end", "success", "failed_cleanup", "returned"}

Kinds == {"key", "list", "dict"} \union ValueTokens

Depth == Len(ctn)
Top == ctn[Depth]
FreshRef == Len(heap) + 1
\* Mutant: a pair of an object counted as one entry.
WidthOfPairIsOne(arr, len) == len

\* Entries of the object stack held by a container of this kind and length.
Width(arr, len) == IF arr THEN len ELSE 2 * len

Init ==
  /\ pc = "init"
  /\ ctn = <<>>
  /\ base = <<>>
  /\ stack = <<>>
  /\ cap = InitCap
  /\ blocks = {}
  /\ strbuf = "uninit"
  /\ err = "none"
  /\ oom = FALSE
  /\ result = 0
  /\ wildFree = FALSE
  /\ heap = <<>>
  /\ released = {}
  /\ lost = {}
  /\ input = <<>>

-----------------------------------------------------------------------------
(* Failing.  return_err sets the exception, replacing one already set.     *)

Raise(e) ==
  /\ pc' = "failed_cleanup"
  /\ err' = e

OutOfMemory(e) ==
  /\ Raise(e)
  /\ oom' = TRUE

SyntaxError ==
  /\ Raise("decode")
  /\ UNCHANGED <<containers, store, objects, call, oom>>

-----------------------------------------------------------------------------
(* The object stack.                                                       *)

\* pyyjson_push_obj on the stack s when it succeeds; a full stack is doubled
\* first, into a block of its own the first time.
Pushed(s, ref) ==
  /\ stack' = Append(s, ref)
  /\ \/ /\ Len(s) < cap
        /\ UNCHANGED <<cap, blocks>>
     \/ /\ Len(s) >= cap
        /\ cap' = 2 * cap
        /\ blocks' = blocks \union {"stack"}

\* pyyjson_push_obj when the full stack s cannot grow.
PushFailed(s) ==
  /\ Len(s) >= cap
  /\ stack' = s
  /\ UNCHANGED <<cap, blocks>>

\* A container of the counted length is closed: its entries leave the stack.
CountedWidth == Width(Top.arr, Top.len)
Kept == SubSeq(stack, 1, Len(stack) - CountedWidth)
Popped == SubSeq(stack, Len(stack) - CountedWidth + 1, Len(stack))

Incremented(c) == [c EXCEPT ![Len(c)].len = @ + 1]

\* Mutant: where to go on is read from the root container.
ValueEndOfRoot(c) == IF c[1].arr THEN "arr_val_end" ELSE "obj_val_end"

ValueEnd(c) == IF c[Len(c)].arr THEN "arr_val_end" ELSE "obj_val_end"

NewRef(kind, items) == heap' = Append(heap, [kind |-> kind, items |-> items])

-----------------------------------------------------------------------------
(* Entering the call.                                                      *)

\* init_decode_ctn_stack_info and init_decode_obj_stack_info: the buffers of
\* this thread, allocated by the first call of the thread.
InitStacks ==
  /\ pc = "init"
  /\ \/ /\ pc' = "reserve"
        /\ UNCHANGED <<err, oom>>
     \/ OutOfMemory("memory")
  /\ UNCHANGED <<containers, store, objects, call, input>>

\* The string buffer: the thread's own, or a block for a long text.
ReserveStringBuffer ==
  /\ pc = "reserve"
  /\ \/ /\ pc' = "root"
        /\ \/ strbuf' = "tls" /\ UNCHANGED blocks
           \/ strbuf' = "heap" /\ blocks' = blocks \union {"string"}
        /\ UNCHANGED <<err, oom>>
     \/ /\ OutOfMemory("memory")
        /\ strbuf' = "null"
        /\ UNCHANGED blocks
  /\ UNCHANGED <<containers, stack, cap, objects, result, wildFree, input>>

\* The next token of the text.
Read(t) ==
  /\ t \in Tokens
  /\ t = "eof" \/ Len(input) < MaxTokens
  /\ input' = Append(input, t)

\* set_decode_ctn on the entry above the stack.
PushContainer(t) ==
  /\ ctn' = Append(ctn, [arr |-> t = "lbrack", len |-> 0])
  /\ base' = Append(base, Len(stack))
  /\ pc' = IF t = "lbrack" THEN "arr_val_begin" ELSE "obj_key_begin"
  /\ UNCHANGED <<store, objects, call, err, oom>>

\* The caller has checked that the text starts with a bracket.
ReadRoot(t) ==
  /\ pc = "root"
  /\ t \in {"lbrack", "lbrace"}
  /\ Read(t)
  /\ PushContainer(t)

\* Mutant: the container stack is checked after its end.
BeginContainerTooDeep(t) ==
  /\ t \in {"lbrack", "lbrace"}
  /\ \/ Depth <= MaxDepth /\ PushContainer(t)
     \/ Depth > MaxDepth /\ SyntaxError

\* arr_begin and obj_begin.
BeginContainer(t) ==
  /\ t \in {"lbrack", "lbrace"}
  /\ \/ Depth < MaxDepth /\ PushContainer(t)
     \/ Depth >= MaxDepth /\ SyntaxError

-----------------------------------------------------------------------------
(* Values and keys.                                                        *)

Counted ==
  /\ ctn' = Incremented(ctn)
  /\ pc' = ValueEnd(ctn)
  /\ UNCHANGED base

\* A value is read and pushed.  A reference whose push fails is not given
\* back; true, false and None are immortal and need not be.  When it is None
\* that cannot be pushed, control falls through to the test for "nan".
ReadValue(t) ==
  /\ t \in ValueTokens
  /\ \/ /\ Pushed(stack, FreshRef)
        /\ NewRef(t, <<>>)
        /\ Counted
        /\ UNCHANGED <<released, lost, call, err, oom>>
     \/ /\ t \in {"num", "str", "nan"}
        /\ OutOfMemory("decode")
        /\ UNCHANGED <<containers, store, objects, call>>
     \/ /\ t \in {"num", "str", "nan"}
        /\ PushFailed(stack)
        /\ NewRef(t, <<>>)
        /\ lost' = lost \union {FreshRef}
        /\ OutOfMemory("decode")
        /\ UNCHANGED <<containers, released, call>>
     \/ /\ t = "lit"
        /\ PushFailed(stack)
        /\ OutOfMemory("decode")
        /\ UNCHANGED <<containers, objects, call>>
     \/ /\ t = "null"
        /\ PushFailed(stack)
        /\ pc' = "nan_retry"
        /\ err' = "memory"
        /\ oom' = TRUE
        /\ UNCHANGED <<containers, objects, call>>

\* The text after that None is "nan", or it is not.
RetryAsNan ==
  /\ pc = "nan_retry"
  /\ \/ Read("nan") /\ ReadValue("nan")
     \/ SyntaxError /\ UNCHANGED input

ReadKey ==
  \/ /\ Pushed(stack, FreshRef)
     /\ NewRef("key", <<>>)
     /\ pc' = "obj_key_end"
     /\ UNCHANGED <<containers, released, lost, call, err, oom>>
  \/ /\ OutOfMemory("decode")
     /\ UNCHANGED <<containers, store, objects, call>>
  \/ /\ PushFailed(stack)
     /\ NewRef("key", <<>>)
     /\ lost' = lost \union {FreshRef}
     /\ OutOfMemory("decode")
     /\ UNCHANGED <<containers, released, call>>

-----------------------------------------------------------------------------
(* Closing a container: pyyjson_decode_arr or pyyjson_decode_obj, then the *)
(* pop of the container stack.                                             *)

Outer(s) == SubSeq(s, 1, Len(s) - 1)

\* Mutant: the closed container is not counted in its parent.
PopContainerUncounted ==
  /\ base' = Outer(base)
  /\ ctn' = Outer(ctn)
  /\ pc' = IF Depth = 1 THEN "doc_end" ELSE ValueEnd(Outer(ctn))

PopContainer ==
  /\ base' = Outer(base)
  /\ IF Depth = 1
       THEN ctn' = <<>> /\ pc' = "doc_end"
       ELSE /\ ctn' = Incremented(Outer(ctn))
            /\ pc' = ValueEnd(Outer(ctn))

\* The new list or dict takes over the references of its entries.
BuildContainer(kind) ==
  /\ NewRef(kind, Popped)
  /\ \/ /\ Pushed(Kept, FreshRef)
        /\ PopContainer
        /\ UNCHANGED <<released, lost, call, err, oom>>
     \/ /\ PushFailed(Kept)
        /\ lost' = lost \union {FreshRef}
        /\ OutOfMemory("memory")
        /\ UNCHANGED <<containers, released, call>>

NoContainer ==
  /\ OutOfMemory("memory")
  /\ UNCHANGED <<containers, store, objects, call>>

\* arr_end
EndArray == BuildContainer("list") \/ NoContainer

\* Mutants: after a failed insertion the pairs stay on the stack, or are not
\* given back.
EndObjectKeepsPairs ==
  /\ Top.len > 0
  /\ NewRef("dict", <<>>)
  /\ released' = released \union {FreshRef} \union {Popped[i] : i \in 1 .. CountedWidth}
  /\ OutOfMemory("memory")
  /\ UNCHANGED <<containers, store, lost, call>>

EndObjectForgetsPairs ==
  /\ Top.len > 0
  /\ NewRef("dict", <<>>)
  /\ released' = released \union {FreshRef}
  /\ stack' = Kept
  /\ OutOfMemory("memory")
  /\ UNCHANGED <<containers, cap, blocks, lost, call>>

\* obj_end.  When an insertion fails, the dict, the pairs it holds and the
\* pairs still to be inserted are all given back and leave the stack.
EndObject ==
  \/ BuildContainer("dict")
  \/ NoContainer
  \/ /\ Top.len > 0
     /\ NewRef("dict", <<>>)
     /\ released' = released \union {FreshRef} \union {Popped[i] : i \in 1 .. CountedWidth}
     /\ stack' = Kept
     /\ OutOfMemory("memory")
     /\ UNCHANGED <<containers, cap, blocks, lost, call>>

-----------------------------------------------------------------------------
(* The labels that look at the next token.                                 *)

Goto(label) ==
  /\ pc' = label
  /\ UNCHANGED <<containers, store, objects, call, err, oom>>

\* Mutant: a comma may stand before the closing bracket.
ArrValBeginTrailingComma(t) ==
  /\ pc = "arr_val_begin"
  /\ Read(t)
  /\ \/ BeginContainer(t)
     \/ ReadValue(t)
     \/ t = "rbrack" /\ EndArray
     \/ t \notin ValueTokens \union {"lbrack", "lbrace", "rbrack"} /\ SyntaxError

ArrValBegin(t) ==
  /\ pc = "arr_val_begin"
  /\ Read(t)
  /\ \/ BeginContainer(t)
     \/ ReadValue(t)
     \/ t = "rbrack" /\ Top.len = 0 /\ EndArray
     \/ t = "rbrack" /\ Top.len # 0 /\ SyntaxError       \* a trailing comma
     \/ t \notin ValueTokens \union {"lbrack", "lbrace", "rbrack"} /\ SyntaxError

ArrValEnd(t) ==
  /\ pc = "arr_val_end"
  /\ Read(t)
  /\ \/ t = "comma" /\ Goto("arr_val_begin")
     \/ t = "rbrack" /\ EndArray
     \/ t \notin {"comma", "rbrack"} /\ SyntaxError

ObjKeyBegin(t) ==
  /\ pc = "obj_key_begin"
  /\ Read(t)
  /\ \/ t = "str" /\ ReadKey
     \/ t = "rbrace" /\ Top.len = 0 /\ EndObject
     \/ t = "rbrace" /\ Top.len # 0 /\ SyntaxError       \* a trailing comma
     \/ t \notin {"str", "rbrace"} /\ SyntaxError

ObjKeyEnd(t) ==
  /\ pc = "obj_key_end"
  /\ Read(t)
  /\ \/ t = "colon" /\ Goto("obj_val_begin")
     \/ t # "colon" /\ SyntaxError

ObjValBegin(t) ==
  /\ pc = "obj_val_begin"
  /\ Read(t)
  /\ \/ BeginContainer(t)
     \/ ReadValue(t)
     \/ t \notin ValueTokens \union {"lbrack", "lbrace"} /\ SyntaxError

ObjValEnd(t) ==
  /\ pc = "obj_val_end"
  /\ Read(t)
  /\ \/ t = "comma" /\ Goto("obj_key_begin")
     \/ t = "rbrace" /\ EndObject
     \/ t \notin {"comma", "rbrace"} /\ SyntaxError

DocEnd(t) ==
  /\ pc = "doc_end"
  /\ Read(t)
  /\ \/ t = "eof" /\ Goto("success")
     \/ t # "eof" /\ SyntaxError

-----------------------------------------------------------------------------
(* Leaving the call.                                                       *)

\* Mutant: an object stack that grew once is taken for the thread's own.
FreeBuffersGrownTwice ==
  /\ blocks' = blocks \ ((IF strbuf = "heap" THEN {"string"} ELSE {})
                           \union (IF cap > 2 * InitCap THEN {"stack"} ELSE {}))
  /\ UNCHANGED wildFree

\* The buffers of the call are freed, those of the thread are kept.  A call
\* that failed before it looked for a string buffer compares a pointer it
\* never wrote with the thread's buffer, and frees it if they differ.
FreeBuffers ==
  /\ blocks' = blocks \ ((IF strbuf = "heap" THEN {"string"} ELSE {})
                           \union (IF cap > InitCap THEN {"stack"} ELSE {}))
  /\ \/ UNCHANGED wildFree
     \/ strbuf = "uninit" /\ wildFree' = TRUE

Succeed ==
  /\ pc = "success"
  /\ pc' = "returned"
  /\ result' = stack[1]
  /\ stack' = <<>>
  /\ FreeBuffers
  /\ UNCHANGED <<containers, cap, objects, strbuf, err, oom, input>>

FailedCleanup ==
  /\ pc = "failed_cleanup"
  /\ pc' = "returned"
  /\ result' = 0
  /\ released' = released \union {stack[i] : i \in 1 .. Len(stack)}
  /\ stack' = <<>>
  /\ FreeBuffers
  /\ UNCHANGED <<containers, cap, heap, lost, strbuf, err, oom, input>>

\* The call is over.
Returned == pc = "returned" /\ UNCHANGED vars

Step(t) ==
  \/ ReadRoot(t)
  \/ ArrValBegin(t)
  \/ ArrValEnd(t)
  \/ ObjKeyBegin(t)
  \/ ObjKeyEnd(t)
  \/ ObjValBegin(t)
  \/ ObjValEnd(t)
  \/ DocEnd(t)

Next ==
  \/ InitStacks
  \/ ReserveStringBuffer
  \/ \E t \in Tokens : Step(t)
  \/ RetryAsNan
  \/ Succeed
  \/ FailedCleanup
  \/ Returned

Spec == Init /\ [][Next]_vars

-----------------------------------------------------------------------------
(* What the call guarantees.                                               *)

\* The kinds of the variables: the container stack never outgrows its
\* fixed buffer, the object stack never outgrows its capacity.
TypeOK ==
  /\ pc \in Labels
  /\ ctn \in Seq([arr : BOOLEAN, len : Nat])
  /\ Len(ctn) <= MaxDepth
  /\ base \in Seq(Nat)
  /\ heap \in Seq([kind : Kinds, items : Seq(Nat)])
  /\ stack \in Seq(Nat)
  /\ cap \in Nat
  /\ Len(stack) <= cap
  /\ InitCap <= cap
  /\ strbuf \in {"uninit", "tls", "heap", "null"}
  /\ blocks \subseteq {"string", "stack"}
  /\ err \in {"none", "memory", "decode"}
  /\ result \in Nat
  /\ released \subseteq Nat
  /\ lost \subseteq Nat
  /\ wildFree \in BOOLEAN
  /\ oom \in BOOLEAN
  /\ input \in Seq(Tokens)

Parsing == pc \notin {"success", "failed_cleanup", "returned"}

\* A container that waits for a value of its last key holds that key too.
KeyPending(d) == IF d = Depth THEN pc \in {"obj_key_end", "obj_val_begin"}
                              ELSE ~ctn[d].arr
NanPending(d) == pc = "nan_retry" /\ d = Depth /\ ~ctn[d].arr
Held(d) == Width(ctn[d].arr, ctn[d].len) + IF KeyPending(d) \/ NanPending(d) THEN 1 ELSE 0
Above(d) == IF d = Depth THEN Len(stack) ELSE base[d + 1]

\* The flat object stack is exactly the entries of the open containers, one
\* above the other: the counts in the container stack add up to its height,
\* so closing a container takes its own entries and nobody else's, and the
\* asserts on list_val_start and at the label success hold.
StackAccounting ==
  /\ Len(base) = Len(ctn)
  /\ Parsing /\ Depth > 0 =>
       /\ base[1] = 0
       /\ \A d \in 1 .. Depth : Above(d) = base[d] + Held(d)
  /\ Parsing /\ Depth = 0 => Len(stack) = IF pc = "doc_end" THEN 1 ELSE 0
  /\ pc = "success" => Depth = 0 /\ Len(stack) = 1

\* The label control is at fits the kind of the innermost container.
LabelFitsContainer ==
  /\ pc \in {"arr_val_begin", "arr_val_end"} => Depth > 0 /\ Top.arr
  /\ pc \in {"obj_key_begin", "obj_key_end", "obj_val_begin", "obj_val_end"}
       => Depth > 0 /\ ~Top.arr
  /\ pc \in {"init", "reserve", "root", "doc_end", "success"} => Depth = 0
  /\ pc = "nan_retry" => Depth > 0

OnStack == {stack[i] : i \in 1 .. Len(stack)}
ItemsOf(ref) == {heap[ref].items[i] : i \in 1 .. Len(heap[ref].items)}
References == 1 .. Len(heap)

\* No reference has two owners: it is in at most one slot of the object
\* stack, of a container or of the result, and once given back or lost it is
\* in none of them.  A cleanup after this decrefs nothing twice.
NoDoubleOwner ==
  /\ \A i, j \in 1 .. Len(stack) : stack[i] = stack[j] => i = j
  /\ \A c, d \in References :
       \A i \in 1 .. Len(heap[c].items), j \in 1 .. Len(heap[d].items) :
         heap[c].items[i] = heap[d].items[j] => c = d /\ i = j
  /\ \A c \in References :
       ItemsOf(c) \cap (OnStack \union released \union lost \union {result}) = {}
  /\ OnStack \cap (released \union lost \union {result}) = {}
  /\ released \cap (lost \union {result}) = {}
  /\ result \notin lost

\* No reference is forgotten: each is on the stack, in a container, given
\* back or returned, or was lost by a push that failed.
NothingForgotten ==
  \A ref \in References :
    \/ ref \in OnStack \union released \union lost \union {result}
    \/ \E c \in References : ref \in ItemsOf(c)

\* When the call returns, it has freed every buffer it allocated; NULL comes
\* with an exception; and unless memory ran out nothing is lost, and an
\* exception comes with NULL.
CleanExit ==
  pc = "returned" =>
    /\ blocks = {}
    /\ result = 0 => err # "none"
    /\ ~oom => lost = {} /\ (err # "none" => result = 0)

\* The assert at the label success: a result is returned with no exception
\* set.
SuccessHasNoException == pc = "success" => err = "none"

\* Only pointers the call wrote are freed.
NoWildFree == ~wildFree
==============================================================================
