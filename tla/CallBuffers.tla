---------------------------- MODULE CallBuffers ----------------------------
(***************************************************************************)
(* The memory that the calls of loads() and dumps() in progress work in:   *)
(* the stacks that a thread keeps (tls.h), the buffer of the process for   *)
(* the input of loads(bytes), and the memory that one call allocates for   *)
(* itself.                                                                 *)
(*                                                                         *)
(* A call holds the interpreter lock from its start to its end, but for    *)
(* one place: PyList_New and _PyDict_NewPresized may collect garbage       *)
(* (before Python 3.12), and a finalizer is Python code.  It may call the  *)
(* module again, on the same thread, and may let the other threads run.    *)
(* A call that waits for a finalizer is "paused".                          *)
(*                                                                         *)
(* A block of memory is named for what it is: <<"decode_obj", t, 0>> is    *)
(* the object stack of thread t, <<"grown", t, i>> the one to which the    *)
(* i-th call of thread t has moved its objects.                            *)
(***************************************************************************)
EXTENDS ModuleLife

CONSTANTS
  Threads,
  MaxDepth,      \* bound: calls in progress on one thread
  Calls,         \* the calls that the program makes
  NULL

AllCalls == [fn : {"dumps", "loads"}, of : {"str", "bytes"},
             root : {"container", "string", "literal"},
             size : {"short", "middle", "long"}]

Depths == 1 .. MaxDepth

Stack(t, s) == <<s, t, 0>>
StringBuffer(t) == <<"string_buffer", t, 0>>
BytesBuffer == <<"bytes_temp_buffer", NULL, 0>>
OwnBlock(name, t, i) == <<name, t, i>>

OwnBlocks == {"grown", "string", "input"} \X Threads \X Depths
StackBlocks == Stacks \X Threads \X {0}
Blocks == OwnBlocks \cup StackBlocks \cup {BytesBuffer}

Roles == {"input", "ctns", "objs", "enc"}
Users == Roles \X Threads \X Depths

ASSUME CallsAssumption ==
  /\ MaxDepth \in Nat
  /\ Calls \subseteq AllCalls
  /\ NULL \notin Blocks \cup Users

VARIABLES
  depth,         \* how many calls of a thread are in progress
  frame,         \* the calls in progress: the variables of the i-th call
  value,         \* the values of a thread's keys, by the number of the key
  live,          \* blocks of malloc that have not been freed
  written        \* the user that wrote to a block last: its role and its call

callVars == <<depth, frame, value, live, written>>
vars == <<moduleVars, callVars>>

NoCall == [pc |-> "none", call |-> NULL, input |-> NULL, ctns |-> NULL,
           objs |-> NULL, enc |-> NULL, str |-> NULL]

Init ==
  /\ ModuleInit
  /\ depth = [t \in Threads |-> 0]
  /\ frame = [t \in Threads |-> [i \in Depths |-> NoCall]]
  /\ value = [t \in Threads |-> [n \in KeyNumbers |-> NULL]]
  /\ live = {}
  /\ written = [b \in Blocks |-> NULL]

Idle(t) == depth[t] = 0
Top(t) == frame[t][depth[t]]
Waiting(t) == ~Idle(t) => Top(t).pc = "paused"

Becomes(t, f) == frame' = [frame EXCEPT ![t][depth[t]] = f]
At(t, pc) == stage = "loaded" /\ ~Idle(t) /\ Top(t).pc = pc
Goes(t, pc) == Becomes(t, [Top(t) EXCEPT !.pc = pc])
Wrote(t, role, b) == [written EXCEPT ![b] = <<role, t, depth[t]>>]

(***************************************************************************)
(* What a call asks for first, and what it asks for when it has its input: *)
(* pyyjson_Decode, decode and pyyjson_decode_bytes.  A number or a literal *)
(* needs no memory.                                                        *)
(***************************************************************************)
Parses(c) == IF c.root = "container" THEN "ctns"
             ELSE IF c.root = "string" THEN "str" ELSE "run"

First(c) == IF c.fn = "dumps" THEN "enc"
            ELSE IF c.of = "bytes" THEN "input" ELSE Parses(c)

Call(t) ==
  /\ stage = "loaded"
  /\ \A u \in Threads : Waiting(u)
  /\ depth[t] < MaxDepth
  /\ \E c \in Calls :
       frame' = [frame EXCEPT ![t][depth[t] + 1] =
                   [NoCall EXCEPT !.pc = First(c), !.call = c]]
  /\ depth' = [depth EXCEPT ![t] = @ + 1]
  /\ UNCHANGED <<moduleVars, value, live, written>>

(***************************************************************************)
(* _alloc_aligned_bytes_buffer and the copy that follows.                  *)
(***************************************************************************)
CopyInput(t) ==
  /\ At(t, "input")
  /\ LET f == Top(t)
         b == IF f.call.size = "long" THEN OwnBlock("input", t, depth[t])
              ELSE BytesBuffer
     IN \/ /\ Becomes(t, [f EXCEPT !.pc = Parses(f.call), !.input = b])
           /\ live' = live \cup (IF f.call.size = "long" THEN {b} ELSE {})
           /\ written' = Wrote(t, "input", b)
        \/ /\ f.call.size = "long"
           /\ Goes(t, "fail")
           /\ UNCHANGED <<live, written>>
  /\ UNCHANGED <<moduleVars, depth, value>>

(***************************************************************************)
(* get_encode_obj_stack_buffer, get_decode_ctn_stack_buffer and            *)
(* get_decode_obj_stack_buffer: a thread's stack is allocated by the first *)
(* call that wants it.                                                     *)
(***************************************************************************)
Kept(t, s) == value[t][keyOf[s]]

HasStack(t, s, b) ==
  \/ Kept(t, s) # NULL /\ b = Kept(t, s) /\ UNCHANGED <<value, live>>
  \/ /\ Kept(t, s) = NULL
     /\ b = Stack(t, s)
     /\ value' = [value EXCEPT ![t][keyOf[s]] = b]
     /\ live' = live \cup {b}

(* Mutant: the new stack is not freed when its key cannot be set. *)
SetFailsForgets(t, s) == live' = live \cup {Stack(t, s)}

SetFails(t, s) == live' = live \ {Stack(t, s)}

NoStack(t, s) == /\ Kept(t, s) = NULL
                 /\ UNCHANGED live \/ SetFails(t, s)
                 /\ UNCHANGED value

(* init_decode_ctn_stack_info *)
GetCtnStack(t) ==
  /\ At(t, "ctns")
  /\ \/ \E b \in StackBlocks :
          /\ HasStack(t, "decode_ctn", b)
          /\ Becomes(t, [Top(t) EXCEPT !.pc = "objs", !.ctns = b])
     \/ NoStack(t, "decode_ctn") /\ Goes(t, "wild")
  /\ UNCHANGED <<moduleVars, depth, written>>

(* init_decode_obj_stack_info *)
GetObjStack(t) ==
  /\ At(t, "objs")
  /\ \/ \E b \in StackBlocks :
          /\ HasStack(t, "decode_obj", b)
          /\ Becomes(t, [Top(t) EXCEPT !.pc = "str", !.objs = b])
     \/ NoStack(t, "decode_obj") /\ Goes(t, "wild")
  /\ UNCHANGED <<moduleVars, depth, written>>

(* Mutant: dumps() takes the object stack of loads(). *)
EncodeKeyMixedUp == "decode_obj"

EncodeKey == "encode_obj"

(* init_encode_ctn_stack *)
GetEncodeStack(t) ==
  /\ At(t, "enc")
  /\ \/ \E b \in StackBlocks :
          /\ HasStack(t, EncodeKey, b)
          /\ Becomes(t, [Top(t) EXCEPT !.pc = "run", !.enc = b])
          /\ written' = Wrote(t, "enc", b)
     \/ NoStack(t, EncodeKey) /\ Goes(t, "fail") /\ UNCHANGED written
  /\ UNCHANGED <<moduleVars, depth>>

(***************************************************************************)
(* check_and_reserve_str_buffer.  A lone string does not look at what it   *)
(* returns: it goes on with a pointer that was never set.                  *)
(***************************************************************************)
Starts(t, f) ==
  written' = IF f.call.root = "container"
               THEN [written EXCEPT ![f.ctns] = <<"ctns", t, depth[t]>>,
                                    ![f.objs] = <<"objs", t, depth[t]>>]
               ELSE written

ReserveString(t) ==
  /\ At(t, "str")
  /\ LET f == Top(t)
         short == f.call.size = "short"
         b == IF short THEN StringBuffer(t) ELSE OwnBlock("string", t, depth[t])
     IN /\ Becomes(t, [f EXCEPT !.pc = "run", !.str = b])
        /\ live' = live \cup (IF short THEN {} ELSE {b})
        /\ Starts(t, f)
  /\ UNCHANGED <<moduleVars, depth, value>>

NoString(t) ==
  /\ At(t, "str")
  /\ LET c == Top(t).call
     IN /\ c.size # "short"
        /\ IF c.of = "str" /\ c.root = "string"
             THEN stage' = "undefined" /\ UNCHANGED frame
             ELSE Goes(t, "fail") /\ UNCHANGED stage
  /\ UNCHANGED <<refs, static, added, keyOf, ours, others,
                 depth, value, live, written>>

(***************************************************************************)
(* _pyyjson_decode_obj_stack_resize: the first time the objects move to    *)
(* memory of the call's own; realloc keeps it that.                        *)
(***************************************************************************)
Walks(t) == At(t, "run") /\ Top(t).objs # NULL

Grow(t) ==
  /\ Walks(t)
  /\ LET f == Top(t)
         b == OwnBlock("grown", t, depth[t])
     IN \/ /\ f.objs # b
           /\ Becomes(t, [f EXCEPT !.objs = b])
           /\ live' = live \cup {b}
           /\ written' = [written EXCEPT ![b] = written[f.objs]]
        \/ Goes(t, "fail") /\ UNCHANGED <<live, written>>
  /\ UNCHANGED <<moduleVars, depth, value>>

(* PyList_New or _PyDict_NewPresized runs a finalizer. *)
Pause(t) == /\ Walks(t)
            /\ Goes(t, "paused")
            /\ UNCHANGED <<moduleVars, depth, value, live, written>>

Resume(t) == /\ At(t, "paused")
             /\ \A u \in Threads : Waiting(u)
             /\ Goes(t, "run")
             /\ UNCHANGED <<moduleVars, depth, value, live, written>>

(***************************************************************************)
(* success, failed_cleanup, and the end of pyyjson_decode_bytes: the call  *)
(* frees what it has allocated.  Who wrote to a block in which no call     *)
(* works any more is forgotten.                                            *)
(***************************************************************************)
Freed(f) == {f.input, f.objs, f.str} \cap OwnBlocks

Works(f) == {f.input, f.ctns, f.objs, f.enc} \ {NULL}

StillUsed(t, b) == \E u \in Threads, i \in Depths :
                     <<u, i>> # <<t, depth[t]>> /\ b \in Works(frame[u][i])

Leave(t) ==
  /\ live' = live \ Freed(Top(t))
  /\ Becomes(t, NoCall)
  /\ depth' = [depth EXCEPT ![t] = @ - 1]
  /\ written' = [b \in Blocks |->
                   IF StillUsed(t, b) THEN written[b] ELSE NULL]
  /\ UNCHANGED <<moduleVars, value>>

Return(t) == (At(t, "run") \/ At(t, "fail")) /\ Leave(t)

(***************************************************************************)
(* A stack was missing: failed_cleanup looks at the string buffer, of      *)
(* which nothing has been set, and frees it or does not.                   *)
(***************************************************************************)
CleanUpWild(t) ==
  /\ At(t, "wild")
  /\ \/ Leave(t)
     \/ /\ stage' = "undefined"
        /\ UNCHANGED <<refs, static, added, keyOf, ours, others, callVars>>

(* _tls_buffer_destructor, for each key of the module *)
ExitThread(t) ==
  /\ stage \in {"loaded", "unloaded"}
  /\ Idle(t)
  /\ \E n \in ours : value[t][n] # NULL
  /\ live' = live \ {value[t][n] : n \in ours}
  /\ value' = [value EXCEPT ![t] = [n \in KeyNumbers |->
                                      IF n \in ours THEN NULL ELSE value[t][n]]]
  /\ UNCHANGED <<moduleVars, depth, frame, written>>

(***************************************************************************)
(* pthread_key_delete runs no destructor: the stacks of the threads stay.  *)
(***************************************************************************)
UnloadModule ==
  /\ \A t \in Threads : Idle(t)
  /\ Unload
  /\ value' = [t \in Threads |-> [n \in KeyNumbers |->
                 IF n \in Deleted THEN NULL ELSE value[t][n]]]
  /\ UNCHANGED <<depth, frame, live, written>>

Step(t) ==
  \/ Call(t) \/ CopyInput(t)
  \/ GetCtnStack(t) \/ GetObjStack(t) \/ GetEncodeStack(t)
  \/ ReserveString(t) \/ NoString(t)
  \/ Grow(t) \/ Pause(t) \/ Resume(t)
  \/ Return(t) \/ CleanUpWild(t)
  \/ ExitThread(t)

Next ==
  \/ (Import \/ OthersMakeKey) /\ UNCHANGED callVars
  \/ \E t \in Threads : Step(t)
  \/ UnloadModule

Spec == Init /\ [][Next]_vars

(***************************************************************************)
(* What a call that walks a document has in memory was written by the call *)
(* itself, in that role, or else by a call that began on the same thread   *)
(* while it was paused, in the same role: never by another thread, never   *)
(* by dumps(), never by a lone value.  The input of loads(bytes) may have  *)
(* been replaced by any later call, but only if it was short enough for    *)
(* the buffer of the process.                                              *)
(***************************************************************************)
Reading(f) == f.pc \in {"run", "paused"}

KeptStack(t, i, role, b) ==
  b # NULL => \E j \in i .. MaxDepth : written[b] = <<role, t, j>>

OthersKeepOut ==
  \A t \in Threads : \A i \in 1 .. depth[t] :
    Reading(frame[t][i]) =>
      /\ KeptStack(t, i, "ctns", frame[t][i].ctns)
      /\ KeptStack(t, i, "objs", frame[t][i].objs)
      /\ KeptStack(t, i, "enc", frame[t][i].enc)
      /\ frame[t][i].input \in OwnBlocks =>
           written[frame[t][i].input] = <<"input", t, i>>

(***************************************************************************)
(* Memory is allocated for as long as a thread or a call has it: each      *)
(* stack until its thread exits, each block of a call until the call ends, *)
(* whichever step of it fails.  Only the stacks that exist when the module *)
(* is unloaded are lost.                                                   *)
(***************************************************************************)
Held == {value[t][n] : t \in Threads, n \in KeyNumbers} \ {NULL}
OwnOf(t) == UNION {Freed(frame[t][i]) : i \in Depths}

NothingLeaks ==
  /\ stage = "loaded" => live = Held \cup UNION {OwnOf(t) : t \in Threads}
  /\ stage = "unloaded" => live \subseteq StackBlocks
=============================================================================
