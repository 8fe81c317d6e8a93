---------------------------- MODULE MemoryProofs ----------------------------
(***************************************************************************)
(* The memory that outlives a step of a call: the buffers of the threads,  *)
(* for every number of threads, calls and keys, and the key cache with the *)
(* dicts made from it, for all keys, every hash and every size of it.      *)
(*                                                                         *)
(* Of the buffers, the invariant says where the blocks of a call can come  *)
(* from: each stack that a call has is its thread's or its own, and the    *)
(* values of a thread's keys are that thread's stacks, each of them in its *)
(* place.  The last is where the module's life comes in: the keys have     *)
(* three different numbers when the import has ended.  Then a call that    *)
(* writes can only reach the calls below it on its thread, in its own      *)
(* role.                                                                   *)
(*                                                                         *)
(* A step of the cache never changes the text of a string that exists      *)
(* (HeapKept), so that what is known of the keys of open pairs and of      *)
(* dicts stays true; what it changes are counts.  The counts are those of  *)
(* the owners because each step takes from a count as many references as   *)
(* owners go.                                                              *)
(***************************************************************************)
EXTENDS CallBuffers, KeyCache, Integers, FunctionTheorems, FiniteSetTheorems, SequenceTheorems,
        WellFoundedInduction, TLAPS


Early == {"absent", "module", "decode_error", "encode_error"}

Pcs == {"none", "input", "ctns", "objs", "enc", "str", "run", "paused", "fail", "wild"}
StringBlocks == OwnBlocks \cup {StringBuffer(t) : t \in Threads}

Frames == [pc : Pcs, call : Calls \cup {NULL}, input : Blocks \cup {NULL},
           ctns : Blocks \cup {NULL}, objs : Blocks \cup {NULL},
           enc : Blocks \cup {NULL}, str : StringBlocks \cup {NULL}]

CallTypes ==
  /\ depth \in [Threads -> 0 .. MaxDepth]
  /\ frame \in [Threads -> [Depths -> Frames]]
  /\ written \in [Blocks -> Users \cup {NULL}]

KeysInv ==
  /\ keyOf \in [Stacks -> KeyNumbers]
  /\ value \in [Threads -> [KeyNumbers -> StackBlocks \cup {NULL}]]
  /\ stage \in Early => \A t \in Threads, n \in KeyNumbers : value[t][n] = NULL
  /\ stage = "loaded" =>
       /\ \A r, s \in Stacks : r # s => keyOf[r] # keyOf[s]
       /\ \A t \in Threads, s \in Stacks : value[t][keyOf[s]] \in {NULL, Stack(t, s)}

\* The blocks of the i-th call of thread t.
Holds(f, t, i) ==
  /\ f.input \in {NULL, BytesBuffer, OwnBlock("input", t, i)}
  /\ f.ctns \in {NULL, Stack(t, "decode_ctn")}
  /\ f.objs \in {NULL, Stack(t, "decode_obj"), OwnBlock("grown", t, i)}
  /\ f.enc \in {NULL, Stack(t, "encode_obj")}

\* A call that has not asked for a block yet does not have it.
Ordered(f) ==
  /\ f.call \in Calls
  /\ f.pc = "input" => f.input = NULL
  /\ f.pc \in {"input", "ctns", "objs", "str"} => f.enc = NULL
  /\ f.pc \in {"input", "ctns", "enc"} => f.ctns = NULL /\ f.objs = NULL
  /\ f.pc \in {"ctns", "objs"} => f.call.root = "container"
  /\ f.pc = "objs" => f.objs = NULL
  /\ f.pc = "str" /\ f.call.root # "container" => f.ctns = NULL /\ f.objs = NULL

KeptOf(f, t, i) ==
  /\ f.input \in OwnBlocks => written[f.input] = <<"input", t, i>>
  /\ Reading(f) => /\ KeptStack(t, i, "ctns", f.ctns)
                   /\ KeptStack(t, i, "objs", f.objs)
                   /\ KeptStack(t, i, "enc", f.enc)

FrameOK(t, i) == /\ Holds(frame[t][i], t, i)
                 /\ Ordered(frame[t][i])
                 /\ KeptOf(frame[t][i], t, i)

FramesOK == \A t \in Threads : \A i \in 1 .. depth[t] : FrameOK(t, i)

IInv == CallTypes /\ KeysInv /\ FramesOK

RoleOf(s) == IF s = "encode_obj" THEN "enc"
             ELSE IF s = "decode_ctn" THEN "ctns" ELSE "objs"

\* What the call in hand of thread t may do to blocks that are not its own.
Disturbs(t, b) ==
  \/ written'[b] = written[b]
  \/ b = BytesBuffer
  \/ \E n \in {"grown", "string", "input"} : b = OwnBlock(n, t, depth[t])
  \/ \E s \in Stacks : b = Stack(t, s) /\ written'[b] = <<RoleOf(s), t, depth[t]>>

-----------------------------------------------------------------------------
\* Frames and blocks.

LEMMA DepthType == ASSUME CallTypes, NEW t \in Threads
                   PROVE  depth[t] \in Nat /\ depth[t] <= MaxDepth /\ MaxDepth \in Nat
  BY CallsAssumption DEF CallTypes

LEMMA BlockTypes ==
  ASSUME NEW t \in Threads, NEW i \in Depths
  PROVE  /\ \A s \in Stacks : Stack(t, s) \in Blocks /\ Stack(t, s) \in StackBlocks
         /\ \A n \in {"grown", "string", "input"} :
              OwnBlock(n, t, i) \in Blocks /\ OwnBlock(n, t, i) \in OwnBlocks
         /\ BytesBuffer \in Blocks
  BY DEF Blocks, StackBlocks, OwnBlocks, Stack, OwnBlock

LEMMA UserTypes ==
  ASSUME NEW t \in Threads, NEW i \in Depths
  PROVE  \A r \in Roles : <<r, t, i>> \in Users
  BY DEF Users

OwnNames == {"grown", "string", "input"}

LEMMA NotBytesBuffer ==
  /\ \A t : \A s \in Stacks : Stack(t, s) # BytesBuffer
  /\ \A n \in OwnNames : \A t, i : OwnBlock(n, t, i) # BytesBuffer
  /\ BytesBuffer \notin OwnBlocks
  BY DEF Stack, OwnBlock, BytesBuffer, Stacks, OwnBlocks, OwnNames

LEMMA NotNull == NULL \notin Blocks /\ NULL \notin OwnBlocks
  BY CallsAssumption DEF Blocks

-----------------------------------------------------------------------------
\* The calls that do not step.

\* A block that a call has in a role keeps the mark of that role.
LEMMA StackStaysKept ==
  ASSUME NEW t \in Threads, NEW u \in Threads, NEW i \in Nat, NEW s \in Stacks, NEW b,
         depth[t] \in Nat, depth[t] <= MaxDepth, MaxDepth \in Nat,
         u = t => i <= depth[t],
         b = Stack(u, s), KeptStack(u, i, RoleOf(s), b), Disturbs(t, b), b # NULL
  PROVE  \E j \in i .. MaxDepth : written'[b] = <<RoleOf(s), u, j>>
<1>1. PICK j \in i .. MaxDepth : written[b] = <<RoleOf(s), u, j>>
  BY DEF KeptStack
<1>2. CASE written'[b] = written[b]
  BY <1>1, <1>2
<1>3. CASE \E r \in Stacks : b = Stack(t, r) /\ written'[b] = <<RoleOf(r), t, depth[t]>>
  <2>1. PICK r \in Stacks : b = Stack(t, r) /\ written'[b] = <<RoleOf(r), t, depth[t]>>
    BY <1>3
  <2>2. t = u /\ r = s  BY <2>1 DEF Stack
  <2>3. depth[t] \in i .. MaxDepth  BY <2>2
  <2>. QED  BY <2>1, <2>2, <2>3
<1>4. b # BytesBuffer /\ \A n \in OwnNames : b # OwnBlock(n, t, depth[t])
  BY DEF Stack, Stacks, OwnBlock, OwnNames, BytesBuffer
<1>. QED  BY <1>2, <1>3, <1>4 DEF Disturbs, OwnNames

LEMMA OwnStaysKept ==
  ASSUME NEW t \in Threads, NEW u \in Threads, NEW i, NEW n \in OwnNames, NEW b,
         u = t => i # depth[t], b = OwnBlock(n, u, i), Disturbs(t, b)
  PROVE  written'[b] = written[b]
<1>1. \A m \in OwnNames : b # OwnBlock(m, t, depth[t])  BY DEF OwnBlock
<1>2. \A s \in Stacks : b # Stack(t, s)
  BY DEF Stack, Stacks, OwnBlock, OwnNames
<1>3. b # BytesBuffer  BY DEF OwnBlock, OwnNames, BytesBuffer
<1>. QED  BY <1>1, <1>2, <1>3 DEF Disturbs, OwnNames

LEMMA OthersStayKept ==
  ASSUME NEW t \in Threads, NEW u \in Threads, NEW i \in Depths,
         depth[t] \in Nat, depth[t] <= MaxDepth, MaxDepth \in Nat,
         u = t => i < depth[t],
         frame'[u][i] = frame[u][i],
         Holds(frame[u][i], u, i), KeptOf(frame[u][i], u, i),
         \A b \in Blocks : Disturbs(t, b)
  PROVE  KeptOf(frame[u][i], u, i)'
<1> DEFINE f == frame[u][i]
<1>1. i \in Nat  BY DEF Depths
<1>2. f.input \in OwnBlocks => written'[f.input] = <<"input", u, i>>
  <2>1. SUFFICES ASSUME f.input \in OwnBlocks PROVE written'[f.input] = <<"input", u, i>>
    OBVIOUS
  <2>2. f.input = OwnBlock("input", u, i) /\ Disturbs(t, f.input)
    BY <2>1, NotNull, NotBytesBuffer DEF Holds, Blocks
  <2>3. written'[f.input] = written[f.input]  BY <2>2, <1>1, OwnStaysKept DEF OwnNames
  <2>. QED  BY <2>1, <2>3 DEF KeptOf
<1>3. ASSUME Reading(f) PROVE KeptStack(u, i, "ctns", f.ctns)'
  <2>1. SUFFICES ASSUME f.ctns # NULL
                 PROVE  \E j \in i .. MaxDepth : written'[f.ctns] = <<"ctns", u, j>>
    BY DEF KeptStack
  <2>2. f.ctns = Stack(u, "decode_ctn") /\ Disturbs(t, f.ctns)
    BY <2>1, BlockTypes DEF Holds, Stacks
  <2>3. KeptStack(u, i, RoleOf("decode_ctn"), f.ctns) /\ RoleOf("decode_ctn") = "ctns"
    BY <1>3 DEF KeptOf, RoleOf
  <2>. QED  BY <2>1, <2>2, <2>3, <1>1, StackStaysKept DEF Stacks
<1>4. ASSUME Reading(f) PROVE KeptStack(u, i, "objs", f.objs)'
  <2>1. SUFFICES ASSUME f.objs # NULL
                 PROVE  \E j \in i .. MaxDepth : written'[f.objs] = <<"objs", u, j>>
    BY DEF KeptStack
  <2>2. KeptStack(u, i, "objs", f.objs)
    BY <1>4 DEF KeptOf
  <2>3. CASE f.objs = Stack(u, "decode_obj")
    <3>1. RoleOf("decode_obj") = "objs" /\ Disturbs(t, f.objs)
      BY <2>3, BlockTypes DEF RoleOf, Stacks
    <3>. QED  BY <2>1, <2>2, <2>3, <3>1, <1>1, StackStaysKept DEF Stacks
  <2>4. CASE f.objs = OwnBlock("grown", u, i)
    <3>1. Disturbs(t, f.objs)  BY <2>4, BlockTypes
    <3>2. written'[f.objs] = written[f.objs]
      BY <2>4, <3>1, <1>1, OwnStaysKept DEF OwnNames
    <3>. QED  BY <2>1, <2>2, <3>2 DEF KeptStack
  <2>. QED  BY <2>1, <2>3, <2>4 DEF Holds
<1>5. ASSUME Reading(f) PROVE KeptStack(u, i, "enc", f.enc)'
  <2>1. SUFFICES ASSUME f.enc # NULL
                 PROVE  \E j \in i .. MaxDepth : written'[f.enc] = <<"enc", u, j>>
    BY DEF KeptStack
  <2>2. f.enc = Stack(u, "encode_obj") /\ Disturbs(t, f.enc)
    BY <2>1, BlockTypes DEF Holds, Stacks
  <2>3. KeptStack(u, i, RoleOf("encode_obj"), f.enc) /\ RoleOf("encode_obj") = "enc"
    BY <1>5 DEF KeptOf, RoleOf
  <2>. QED  BY <2>1, <2>2, <2>3, <1>1, StackStaysKept DEF Stacks
<1>6. Reading(f)' <=> Reading(f)  BY DEF Reading
<1>. QED  BY <1>2, <1>3, <1>4, <1>5, <1>6 DEF KeptOf

-----------------------------------------------------------------------------
\* What an action does to the frames when it changes the one in hand.

Inhand(t) == /\ depth[t] \in Depths
             /\ Top(t) \in Frames
             /\ FrameOK(t, depth[t])

LEMMA InHandOK == ASSUME IInv, NEW t \in Threads, ~Idle(t)
                  PROVE  Inhand(t)
<1>1. depth[t] \in Nat /\ depth[t] <= MaxDepth /\ depth[t] # 0
  BY DepthType DEF IInv, Idle
<1>2. depth[t] \in Depths /\ depth[t] \in 1 .. depth[t]
  BY <1>1, DepthType DEF IInv, Depths
<1>3. frame[t][depth[t]] \in Frames  BY <1>2 DEF IInv, CallTypes
<1>. QED  BY <1>2, <1>3 DEF Inhand, Top, IInv, FramesOK

LEMMA Effect ==
  ASSUME IInv, NEW t \in Threads, Inhand(t), NEW STATE g, g \in Frames, Becomes(t, g)
  PROVE  /\ frame' \in [Threads -> [Depths -> Frames]]
         /\ frame'[t][depth[t]] = g
         /\ \A u \in Threads : \A i \in Depths :
              <<u, i>> # <<t, depth[t]>> => frame'[u][i] = frame[u][i]
<1>1. frame \in [Threads -> [Depths -> Frames]]  BY DEF IInv, CallTypes
<1>2. frame' = [frame EXCEPT ![t] = [frame[t] EXCEPT ![depth[t]] = g]]
  BY <1>1 DEF Becomes
<1>3. depth[t] \in Depths /\ frame[t] \in [Depths -> Frames]  BY <1>1 DEF Inhand
<1>. QED  BY <1>1, <1>2, <1>3

LEMMA StepKeeps ==
  ASSUME IInv, NEW t \in Threads, Inhand(t),
         \A u \in Threads : \A i \in Depths :
           <<u, i>> # <<t, depth[t]>> => frame'[u][i] = frame[u][i],
         \A b \in Blocks : Disturbs(t, b),
         depth' = depth,
         Holds(Top(t), t, depth[t])', Ordered(Top(t))', KeptOf(Top(t), t, depth[t])'
  PROVE  FramesOK'
<1>1. SUFFICES ASSUME NEW u \in Threads, NEW i \in 1 .. depth[u]
               PROVE  FrameOK(u, i)'
  BY DEF FramesOK
<1>2. CASE u = t /\ i = depth[t]
  BY <1>2 DEF FrameOK, Top
<1>3. CASE ~(u = t /\ i = depth[t])
  <2>1. /\ depth[t] \in Nat /\ depth[t] <= MaxDepth /\ MaxDepth \in Nat
        /\ depth[u] \in Nat /\ depth[u] <= MaxDepth
    BY DepthType DEF IInv
  <2>2. i \in Depths /\ (u = t => i < depth[t])  BY <1>3, <2>1 DEF Depths
  <2>3. frame'[u][i] = frame[u][i]  BY <1>3, <2>2
  <2>4. FrameOK(u, i)  BY DEF IInv, FramesOK
  <2>5. KeptOf(frame[u][i], u, i)'
    BY <2>1, <2>2, <2>3, <2>4, OthersStayKept DEF FrameOK
  <2>6. Holds(frame[u][i], u, i)'  BY <2>3, <2>4 DEF FrameOK, Holds
  <2>7. Ordered(frame[u][i])'  BY <2>3, <2>4 DEF FrameOK, Ordered
  <2>. QED  BY <2>5, <2>6, <2>7 DEF FrameOK
<1>. QED  BY <1>2, <1>3

\* KeptOf of the frame g that is put in place, after the step.
MarkedNext(t, role, b) ==
  b # NULL => \E j \in depth[t] .. MaxDepth : written'[b] = <<role, t, j>>

KeptNext(g, t) ==
  /\ g.input \in OwnBlocks => written'[g.input] = <<"input", t, depth[t]>>
  /\ Reading(g) => /\ MarkedNext(t, "ctns", g.ctns)
                   /\ MarkedNext(t, "objs", g.objs)
                   /\ MarkedNext(t, "enc", g.enc)

LEMMA PutKeeps ==
  ASSUME IInv, NEW t \in Threads, Inhand(t), NEW STATE g, g \in Frames, Becomes(t, g),
         KeysInv', depth' = depth,
         written' \in [Blocks -> Users \cup {NULL}], \A b \in Blocks : Disturbs(t, b),
         Holds(g, t, depth[t]), Ordered(g), KeptNext(g, t)
  PROVE  IInv'
<1>1. /\ frame' \in [Threads -> [Depths -> Frames]]
      /\ frame'[t][depth[t]] = g
      /\ \A u \in Threads : \A i \in Depths :
           <<u, i>> # <<t, depth[t]>> => frame'[u][i] = frame[u][i]
  BY Effect
<1>2. CallTypes'  BY <1>1 DEF IInv, CallTypes
<1>4. Top(t)' = g  BY <1>1 DEF Top
<1>5. Holds(Top(t), t, depth[t])'  BY <1>4 DEF Holds
<1>6. Ordered(Top(t))'  BY <1>4 DEF Ordered
<1>7. KeptOf(Top(t), t, depth[t])'
  BY <1>4 DEF KeptOf, KeptStack, Reading, KeptNext, MarkedNext
<1>. QED  BY <1>1, <1>2, <1>5, <1>6, <1>7, StepKeeps DEF IInv

\* Steps that only change the frame in hand, and perhaps a thread's keys.
LEMMA GoesKeeps ==
  ASSUME IInv, NEW t \in Threads, Inhand(t), NEW STATE g, g \in Frames, Becomes(t, g),
         KeysInv', UNCHANGED <<depth, written>>,
         Holds(g, t, depth[t]), Ordered(g), KeptOf(g, t, depth[t])
  PROVE  IInv'
<1>1. \A b \in Blocks : Disturbs(t, b)  BY DEF Disturbs
<1>2. written' \in [Blocks -> Users \cup {NULL}]  BY DEF IInv, CallTypes
<1>3. KeptNext(g, t)  BY DEF KeptOf, KeptStack, KeptNext, MarkedNext
<1>. QED  BY <1>1, <1>2, <1>3, PutKeeps

\* A call that ends its business with Goes has kept what it had, unless it
\* begins to read.
LEMMA PcKeeps ==
  ASSUME IInv, NEW t \in Threads, Inhand(t), NEW pc \in {"run", "paused", "fail", "wild"},
         Goes(t, pc), KeysInv', UNCHANGED <<depth, written>>,
         pc \in {"run", "paused"} => Reading(Top(t))
  PROVE  IInv'
<1> DEFINE g == [Top(t) EXCEPT !.pc = pc]
<1>1. /\ g \in Frames /\ g.pc = pc /\ g.call = Top(t).call
      /\ g.input = Top(t).input /\ g.ctns = Top(t).ctns
      /\ g.objs = Top(t).objs /\ g.enc = Top(t).enc
  BY DEF Inhand, Frames, Pcs
<1>2. Becomes(t, g)  BY DEF Goes
<1>3. FrameOK(t, depth[t])  BY DEF Inhand
<1> HIDE DEF g
<1>4. Holds(g, t, depth[t])  BY <1>1, <1>3 DEF FrameOK, Top, Holds
<1>5. Ordered(g)  BY <1>1, <1>3 DEF FrameOK, Top, Ordered
<1>6. KeptOf(g, t, depth[t])  BY <1>1, <1>3 DEF FrameOK, Top, KeptOf, Reading
<1>. QED  BY <1>1, <1>2, <1>4, <1>5, <1>6, GoesKeeps

LEMMA KeysStay == ASSUME IInv, UNCHANGED <<stage, keyOf, value>>
                  PROVE  KeysInv'
  BY DEF IInv, KeysInv

LEMMA StackGot ==
  ASSUME IInv, NEW t \in Threads, NEW s \in Stacks, NEW b \in StackBlocks,
         stage = "loaded", HasStack(t, s, b), UNCHANGED <<stage, keyOf>>
  PROVE  b = Stack(t, s) /\ KeysInv'
<1>1. /\ keyOf \in [Stacks -> KeyNumbers]
      /\ value \in [Threads -> [KeyNumbers -> StackBlocks \cup {NULL}]]
      /\ \A q, r \in Stacks : q # r => keyOf[q] # keyOf[r]
      /\ \A u \in Threads, r \in Stacks : value[u][keyOf[r]] \in {NULL, Stack(u, r)}
  BY DEF IInv, KeysInv
<1>2. CASE Kept(t, s) # NULL /\ b = Kept(t, s) /\ UNCHANGED <<value, live>>
  BY <1>1, <1>2, KeysStay DEF Kept
<1>3. CASE b = Stack(t, s) /\ value' = [value EXCEPT ![t][keyOf[s]] = b]
  <2>1. value' \in [Threads -> [KeyNumbers -> StackBlocks \cup {NULL}]]
    BY <1>1, <1>3
  <2>2. ASSUME NEW u \in Threads, NEW r \in Stacks
        PROVE  value'[u][keyOf[r]] \in {NULL, Stack(u, r)}
    BY <1>1, <1>3
  <2>. QED  BY <1>1, <1>3, <2>1, <2>2 DEF KeysInv, Early
<1>. QED  BY <1>2, <1>3 DEF HasStack

-----------------------------------------------------------------------------
\* One lemma for each action.

LEMMA PauseOK == ASSUME IInv, NEW t \in Threads, Pause(t) \/ Resume(t)
                 PROVE  IInv'
<1>1. ~Idle(t) /\ Reading(Top(t)) /\ UNCHANGED <<stage, keyOf, depth, value, written>>
  BY DEF Pause, Resume, Walks, At, Reading, moduleVars
<1>2. \E pc \in {"run", "paused"} : Goes(t, pc)  BY DEF Pause, Resume
<1>. QED  BY <1>1, <1>2, InHandOK, KeysStay, PcKeeps

LEMMA CtnStackOK == ASSUME IInv, NEW t \in Threads, GetCtnStack(t)
                    PROVE  IInv'
<1>1. /\ ~Idle(t) /\ Top(t).pc = "ctns" /\ stage = "loaded"
      /\ UNCHANGED <<stage, keyOf, depth, written>>
  BY DEF GetCtnStack, At, moduleVars
<1>2. Inhand(t)  BY <1>1, InHandOK
<1>3. ASSUME NEW b \in StackBlocks, HasStack(t, "decode_ctn", b),
             Becomes(t, [Top(t) EXCEPT !.pc = "objs", !.ctns = b])
      PROVE  IInv'
  <2> DEFINE g == [Top(t) EXCEPT !.pc = "objs", !.ctns = b]
  <2>1. b = Stack(t, "decode_ctn") /\ KeysInv'
    BY <1>1, <1>3, StackGot DEF Stacks
  <2>2. /\ g \in Frames /\ g.pc = "objs" /\ g.call = Top(t).call
        /\ g.input = Top(t).input /\ g.ctns = b
        /\ g.objs = Top(t).objs /\ g.enc = Top(t).enc
    BY <1>2, <2>1, BlockTypes DEF Inhand, Frames, Pcs, Stacks
  <2>3. FrameOK(t, depth[t])  BY <1>2 DEF Inhand
  <2> HIDE DEF g
  <2>4. Holds(g, t, depth[t])  BY <2>1, <2>2, <2>3 DEF FrameOK, Top, Holds
  <2>5. Ordered(g)  BY <1>1, <2>2, <2>3 DEF FrameOK, Top, Ordered
  <2>6. KeptOf(g, t, depth[t])  BY <2>2, <2>3 DEF FrameOK, Top, KeptOf, Reading
  <2>. QED  BY <1>1, <1>2, <1>3, <2>1, <2>2, <2>4, <2>5, <2>6, GoesKeeps DEF g
<1>4. CASE NoStack(t, "decode_ctn") /\ Goes(t, "wild")
  BY <1>1, <1>2, <1>4, KeysStay, PcKeeps DEF NoStack
<1>. QED  BY <1>3, <1>4 DEF GetCtnStack

LEMMA ObjStackOK == ASSUME IInv, NEW t \in Threads, GetObjStack(t)
                    PROVE  IInv'
<1>1. /\ ~Idle(t) /\ Top(t).pc = "objs" /\ stage = "loaded"
      /\ UNCHANGED <<stage, keyOf, depth, written>>
  BY DEF GetObjStack, At, moduleVars
<1>2. Inhand(t)  BY <1>1, InHandOK
<1>3. ASSUME NEW b \in StackBlocks, HasStack(t, "decode_obj", b),
             Becomes(t, [Top(t) EXCEPT !.pc = "str", !.objs = b])
      PROVE  IInv'
  <2> DEFINE g == [Top(t) EXCEPT !.pc = "str", !.objs = b]
  <2>1. b = Stack(t, "decode_obj") /\ KeysInv'
    BY <1>1, <1>3, StackGot DEF Stacks
  <2>2. /\ g \in Frames /\ g.pc = "str" /\ g.call = Top(t).call
        /\ g.input = Top(t).input /\ g.ctns = Top(t).ctns
        /\ g.objs = b /\ g.enc = Top(t).enc
    BY <1>2, <2>1, BlockTypes DEF Inhand, Frames, Pcs, Stacks
  <2>3. FrameOK(t, depth[t])  BY <1>2 DEF Inhand
  <2> HIDE DEF g
  <2>4. Holds(g, t, depth[t])  BY <2>1, <2>2, <2>3 DEF FrameOK, Top, Holds
  <2>5. Ordered(g)  BY <1>1, <2>2, <2>3 DEF FrameOK, Top, Ordered
  <2>6. KeptOf(g, t, depth[t])  BY <2>2, <2>3 DEF FrameOK, Top, KeptOf, Reading
  <2>. QED  BY <1>1, <1>2, <1>3, <2>1, <2>2, <2>4, <2>5, <2>6, GoesKeeps DEF g
<1>4. CASE NoStack(t, "decode_obj") /\ Goes(t, "wild")
  BY <1>1, <1>2, <1>4, KeysStay, PcKeeps DEF NoStack
<1>. QED  BY <1>3, <1>4 DEF GetObjStack

LEMMA EncodeStackOK == ASSUME IInv, NEW t \in Threads, GetEncodeStack(t)
                       PROVE  IInv'
<1>1. /\ ~Idle(t) /\ Top(t).pc = "enc" /\ stage = "loaded" /\ EncodeKey \in Stacks
      /\ UNCHANGED <<stage, keyOf, depth>>
  BY DEF GetEncodeStack, At, moduleVars, EncodeKey, Stacks
<1>2. Inhand(t)  BY <1>1, InHandOK
<1>3. ASSUME NEW b \in StackBlocks, HasStack(t, EncodeKey, b),
             Becomes(t, [Top(t) EXCEPT !.pc = "run", !.enc = b]),
             written' = Wrote(t, "enc", b)
      PROVE  IInv'
  <2> DEFINE g == [Top(t) EXCEPT !.pc = "run", !.enc = b]
  <2>1. b = Stack(t, EncodeKey) /\ KeysInv'
    BY <1>1, <1>3, StackGot
  <2>2. /\ g \in Frames /\ g.pc = "run" /\ g.call = Top(t).call
        /\ g.input = Top(t).input /\ g.ctns = Top(t).ctns
        /\ g.objs = Top(t).objs /\ g.enc = b
    BY <1>1, <1>2, <2>1, BlockTypes DEF Inhand, Frames, Pcs
  <2>3. FrameOK(t, depth[t])  BY <1>2 DEF Inhand
  <2> HIDE DEF g
  <2>4. Holds(g, t, depth[t])  BY <2>1, <2>2, <2>3 DEF FrameOK, Top, Holds, EncodeKey
  <2>5. Ordered(g)  BY <1>1, <2>2, <2>3 DEF FrameOK, Top, Ordered
  <2>6. depth[t] \in Depths /\ b \in Blocks /\ <<"enc", t, depth[t]>> \in Users
    BY <1>1, <1>2, <2>1, BlockTypes, UserTypes DEF Inhand, Roles
  <2>7. /\ written' \in [Blocks -> Users \cup {NULL}]
        /\ written'[b] = <<"enc", t, depth[t]>>
        /\ \A c \in Blocks : c # b => written'[c] = written[c]
    BY <1>3, <2>6 DEF IInv, CallTypes, Wrote
  <2>8. \A c \in Blocks : Disturbs(t, c)
    <3>1. RoleOf(EncodeKey) = "enc"  BY DEF RoleOf, EncodeKey
    <3>2. ASSUME NEW c \in Blocks, c = b PROVE Disturbs(t, c)
      BY <1>1, <2>1, <2>7, <3>1, <3>2 DEF Disturbs
    <3>. QED  BY <2>7, <3>2 DEF Disturbs
  <2>9. KeptNext(g, t)
    <3>1. g.ctns = NULL /\ g.objs = NULL
      BY <1>1, <2>2, <2>3 DEF FrameOK, Top, Ordered
    <3>2. g.input \in OwnBlocks => written'[g.input] = <<"input", t, depth[t]>>
      <4>1. SUFFICES ASSUME g.input \in OwnBlocks
                     PROVE  written'[g.input] = <<"input", t, depth[t]>>
        OBVIOUS
      <4>2. g.input = OwnBlock("input", t, depth[t])
        BY <4>1, <2>4, NotNull, NotBytesBuffer DEF Holds
      <4>3. g.input # b /\ g.input \in Blocks
        BY <4>1, <4>2, <2>1, <1>1 DEF OwnBlock, Stack, Stacks, Blocks
      <4>. QED  BY <4>1, <4>3, <2>2, <2>3, <2>7 DEF FrameOK, Top, KeptOf
    <3>3. MarkedNext(t, "enc", b)
      <4>1. depth[t] \in depth[t] .. MaxDepth
        BY <2>6, DepthType DEF Depths, IInv
      <4>. QED  BY <4>1, <2>7 DEF MarkedNext
    <3>. QED  BY <3>1, <3>2, <3>3, <2>2 DEF KeptNext, MarkedNext
  <2>. QED  BY <1>1, <1>2, <1>3, <2>1, <2>2, <2>4, <2>5, <2>7, <2>8, <2>9, PutKeeps DEF g
<1>4. CASE NoStack(t, EncodeKey) /\ Goes(t, "fail") /\ UNCHANGED written
  BY <1>1, <1>2, <1>4, KeysStay, PcKeeps DEF NoStack
<1>. QED  BY <1>3, <1>4 DEF GetEncodeStack

LEMMA CopyInputOK == ASSUME IInv, NEW t \in Threads, CopyInput(t)
                     PROVE  IInv'
<1> DEFINE f == Top(t)
           b == IF f.call.size = "long" THEN OwnBlock("input", t, depth[t])
                ELSE BytesBuffer
           g == [f EXCEPT !.pc = Parses(f.call), !.input = b]
<1>1. /\ ~Idle(t) /\ f.pc = "input"
      /\ UNCHANGED <<stage, keyOf, depth, value>>
  BY DEF CopyInput, At, moduleVars
<1>2. Inhand(t)  BY <1>1, InHandOK
<1>3. KeysInv'  BY <1>1, KeysStay
<1>4. CASE Becomes(t, g) /\ written' = Wrote(t, "input", b)
  <2>1. depth[t] \in Depths /\ b \in Blocks /\ <<"input", t, depth[t]>> \in Users
    BY <1>2, BlockTypes, UserTypes DEF Inhand, Roles
  <2>2. FrameOK(t, depth[t]) /\ f \in Frames  BY <1>2 DEF Inhand
  <2>3. f.call \in Calls /\ f.enc = NULL /\ f.ctns = NULL /\ f.objs = NULL
    BY <1>1, <2>2 DEF FrameOK, Ordered, Top
  <2>4. Parses(f.call) \in Pcs  BY DEF Parses, Pcs
  <2>5. /\ g \in Frames /\ g.pc = Parses(f.call) /\ g.call = f.call
        /\ g.input = b /\ g.ctns = NULL /\ g.objs = NULL /\ g.enc = NULL
    BY <2>1, <2>2, <2>3, <2>4 DEF Frames
  <2>6. b \in {BytesBuffer, OwnBlock("input", t, depth[t])}  OBVIOUS
  <2>7. Becomes(t, g)  BY <1>4
  <2>8. written' = Wrote(t, "input", b)  BY <1>4
  <2> HIDE DEF g, b
  <2>9. Holds(g, t, depth[t])  BY <2>5, <2>6 DEF Holds
  <2>10. Ordered(g)  BY <2>3, <2>5 DEF Ordered, Parses
  <2>11. /\ written' \in [Blocks -> Users \cup {NULL}]
         /\ written'[b] = <<"input", t, depth[t]>>
         /\ \A c \in Blocks : c # b => written'[c] = written[c]
    BY <2>1, <2>8 DEF IInv, CallTypes, Wrote
  <2>12. \A c \in Blocks : Disturbs(t, c)  BY <2>6, <2>11 DEF Disturbs
  <2>13. KeptNext(g, t)  BY <2>5, <2>11 DEF KeptNext, MarkedNext
  <2>. QED  BY <1>1, <1>2, <1>3, <2>5, <2>7, <2>9, <2>10, <2>11, <2>12, <2>13, PutKeeps
<1>5. CASE Goes(t, "fail") /\ UNCHANGED written
  BY <1>1, <1>2, <1>3, <1>5, PcKeeps
<1>. QED  BY <1>4, <1>5 DEF CopyInput

LEMMA ReserveStringOK == ASSUME IInv, NEW t \in Threads, ReserveString(t)
                         PROVE  IInv'
<1> DEFINE f == Top(t)
<1>1. /\ ~Idle(t) /\ f.pc = "str" /\ Starts(t, f)
      /\ UNCHANGED <<stage, keyOf, depth, value>>
      /\ \E b \in StringBlocks : Becomes(t, [f EXCEPT !.pc = "run", !.str = b])
  <2>1. ReserveString(t) => ~Idle(t)  BY DEF ReserveString, At
  <2>2. StringBuffer(t) \in StringBlocks /\ OwnBlock("string", t, depth[t]) \in StringBlocks
    BY <2>1, InHandOK, BlockTypes DEF StringBlocks, Inhand
  <2>. QED  BY <2>1, <2>2 DEF ReserveString, At, moduleVars
<1>2. PICK b \in StringBlocks : Becomes(t, [f EXCEPT !.pc = "run", !.str = b])
  BY <1>1
<1> DEFINE g == [f EXCEPT !.pc = "run", !.str = b]
<1>3. Inhand(t) /\ KeysInv'  BY <1>1, InHandOK, KeysStay
<1>4. FrameOK(t, depth[t]) /\ f \in Frames /\ depth[t] \in Depths  BY <1>3 DEF Inhand
<1>5. /\ g \in Frames /\ g.pc = "run" /\ g.call = f.call /\ g.input = f.input
      /\ g.ctns = f.ctns /\ g.objs = f.objs /\ g.enc = NULL
  BY <1>1, <1>4 DEF Frames, Pcs, FrameOK, Top, Ordered
<1>6. Becomes(t, g)  BY <1>2
<1> HIDE DEF g
<1>7. Holds(f, t, depth[t]) /\ Ordered(f)  BY <1>4 DEF FrameOK, Top
<1>8. Holds(g, t, depth[t]) /\ Ordered(g)  BY <1>5, <1>7 DEF Holds, Ordered
<1>9. f.input \in OwnBlocks => f.input = OwnBlock("input", t, depth[t])
                               /\ written[f.input] = <<"input", t, depth[t]>>
  BY <1>4, <1>7, NotNull, NotBytesBuffer DEF FrameOK, Top, KeptOf, Holds
<1>10. CASE f.call.root # "container"
  <2>1. written' = written /\ f.ctns = NULL /\ f.objs = NULL
    BY <1>1, <1>7, <1>10 DEF Starts, Ordered
  <2>2. written' \in [Blocks -> Users \cup {NULL}] /\ \A c \in Blocks : Disturbs(t, c)
    BY <2>1 DEF IInv, CallTypes, Disturbs
  <2>3. KeptNext(g, t)  BY <1>5, <1>9, <2>1 DEF KeptNext, MarkedNext
  <2>. QED  BY <1>1, <1>3, <1>5, <1>6, <1>8, <2>2, <2>3, PutKeeps
<1>11. CASE f.call.root = "container"
  <2> DEFINE mc == <<"ctns", t, depth[t]>>
             mo == <<"objs", t, depth[t]>>
  <2>1. written' = [[written EXCEPT ![f.ctns] = mc] EXCEPT ![f.objs] = mo]
    BY <1>1, <1>11 DEF Starts
  <2>2. mc \in Users /\ mo \in Users  BY <1>4, UserTypes DEF Roles
  <2>3. /\ f.ctns \in {NULL, Stack(t, "decode_ctn")}
        /\ f.objs \in {NULL, Stack(t, "decode_obj"), OwnBlock("grown", t, depth[t])}
    BY <1>7 DEF Holds
  <2>4. f.ctns # NULL => f.ctns # f.objs /\ f.ctns # f.input
    BY <2>3, <1>7, NotBytesBuffer, NotNull DEF Holds, Stack, OwnBlock, Stacks
  <2>5. f.objs # NULL => f.objs # f.input
    BY <2>3, <1>7, NotBytesBuffer, NotNull DEF Holds, Stack, OwnBlock, Stacks, OwnNames
  <2>6. (f.ctns # NULL => f.ctns \in Blocks) /\ (f.objs # NULL => f.objs \in Blocks)
    BY <2>3, <1>4, BlockTypes DEF Stacks
  <2>7. written \in [Blocks -> Users \cup {NULL}]  BY DEF IInv, CallTypes
  <2>8. /\ written' \in [Blocks -> Users \cup {NULL}]
        /\ \A c \in Blocks : c # f.ctns /\ c # f.objs => written'[c] = written[c]
        /\ f.ctns # NULL => written'[f.ctns] = mc
        /\ f.objs # NULL => written'[f.objs] = mo
    BY <2>1, <2>2, <2>4, <2>6, <2>7, NotNull
  <2>9. ASSUME NEW c \in Blocks PROVE Disturbs(t, c)
    <3>1. RoleOf("decode_ctn") = "ctns" /\ RoleOf("decode_obj") = "objs"  BY DEF RoleOf
    <3>2. c # NULL  BY NotNull
    <3>3. CASE c = f.ctns
      BY <3>1, <3>2, <3>3, <2>3, <2>8 DEF Disturbs, Stacks
    <3>4. CASE c = f.objs
      BY <3>1, <3>2, <3>4, <2>3, <2>8 DEF Disturbs, Stacks
    <3>. QED  BY <3>3, <3>4, <2>8 DEF Disturbs
  <2>10. KeptNext(g, t)
    <3>1. depth[t] \in depth[t] .. MaxDepth
      BY <1>4, DepthType DEF Depths, IInv
    <3>2. MarkedNext(t, "ctns", f.ctns) /\ MarkedNext(t, "objs", f.objs)
      BY <3>1, <2>8 DEF MarkedNext
    <3>3. MarkedNext(t, "enc", NULL)  BY DEF MarkedNext
    <3>4. f.input \in OwnBlocks => written'[f.input] = <<"input", t, depth[t]>>
      BY <1>9, <2>4, <2>5, <2>8, NotNull DEF Blocks
    <3>. QED  BY <3>2, <3>3, <3>4, <1>5 DEF KeptNext
  <2>. QED  BY <1>1, <1>3, <1>5, <1>6, <1>8, <2>8, <2>9, <2>10, PutKeeps
<1>. QED  BY <1>10, <1>11

LEMMA FramesStay == ASSUME IInv, UNCHANGED <<depth, frame, written>>
                    PROVE  CallTypes' /\ FramesOK'
<1>1. CallTypes'  BY DEF IInv, CallTypes
<1>2. SUFFICES ASSUME NEW t \in Threads, NEW i \in 1 .. depth[t]
               PROVE  FrameOK(t, i)'
  BY <1>1 DEF FramesOK
<1>3. FrameOK(t, i)  BY DEF IInv, FramesOK
<1>4. Holds(frame[t][i], t, i)'  BY <1>3 DEF FrameOK, Holds
<1>5. Ordered(frame[t][i])'  BY <1>3 DEF FrameOK, Ordered
<1>6. KeptOf(frame[t][i], t, i)'  BY <1>3 DEF FrameOK, KeptOf, KeptStack, Reading
<1>. QED  BY <1>4, <1>5, <1>6 DEF FrameOK

\* A step that ends the model: nothing is loaded any more.
LEMMA UndefinedKeeps ==
  ASSUME IInv, stage' = "undefined", UNCHANGED <<keyOf, callVars>>
  PROVE  IInv'
<1>1. KeysInv'  BY DEF IInv, KeysInv, Early, callVars
<1>. QED  BY <1>1, FramesStay DEF IInv, callVars

LEMMA NoStringOK == ASSUME IInv, NEW t \in Threads, NoString(t)
                    PROVE  IInv'
<1>1. CASE stage' = "undefined" /\ UNCHANGED frame
  BY <1>1, UndefinedKeeps DEF NoString, callVars
<1>2. CASE Goes(t, "fail") /\ UNCHANGED stage
  <2>1. ~Idle(t) /\ UNCHANGED <<stage, keyOf, depth, value, written>>
    BY <1>2 DEF NoString, At
  <2>. QED  BY <1>2, <2>1, InHandOK, KeysStay, PcKeeps
<1>. QED  BY <1>1, <1>2 DEF NoString

LEMMA GrowOK == ASSUME IInv, NEW t \in Threads, Grow(t)
                PROVE  IInv'
<1> DEFINE f == Top(t)
           b == OwnBlock("grown", t, depth[t])
           g == [f EXCEPT !.objs = b]
<1>1. /\ ~Idle(t) /\ f.pc = "run" /\ f.objs # NULL
      /\ UNCHANGED <<stage, keyOf, depth, value>>
  BY DEF Grow, Walks, At, moduleVars
<1>2. Inhand(t) /\ KeysInv'  BY <1>1, InHandOK, KeysStay
<1>3. CASE f.objs # b /\ Becomes(t, g) /\ written' = [written EXCEPT ![b] = written[f.objs]]
  <2>1. FrameOK(t, depth[t]) /\ f \in Frames /\ depth[t] \in Depths  BY <1>2 DEF Inhand
  <2>2. b \in Blocks  BY <2>1, BlockTypes
  <2>3. /\ g \in Frames /\ g.pc = "run" /\ g.call = f.call /\ g.input = f.input
        /\ g.ctns = f.ctns /\ g.objs = b /\ g.enc = f.enc
    BY <1>1, <2>1, <2>2 DEF Frames
  <2>4. Becomes(t, g)  BY <1>3
  <2>5. Holds(f, t, depth[t]) /\ Ordered(f) /\ KeptOf(f, t, depth[t])
    BY <2>1 DEF FrameOK, Top
  <2>6. f.objs \in Blocks
    BY <1>1, <2>1, <2>5, BlockTypes DEF Holds, Stacks
  <2>7. written \in [Blocks -> Users \cup {NULL}]  BY DEF IInv, CallTypes
  <2>8. /\ written' \in [Blocks -> Users \cup {NULL}]
        /\ written'[b] = written[f.objs]
        /\ \A c \in Blocks : c # b => written'[c] = written[c]
    BY <1>3, <2>2, <2>6, <2>7
  <2>9. /\ f.ctns # NULL => f.ctns # b /\ f.ctns \in Blocks
        /\ f.enc # NULL => f.enc # b /\ f.enc \in Blocks
        /\ f.input \in OwnBlocks => f.input # b /\ f.input \in Blocks
    <3>1. f.ctns # NULL => f.ctns = Stack(t, "decode_ctn")  BY <2>5 DEF Holds
    <3>2. f.enc # NULL => f.enc = Stack(t, "encode_obj")  BY <2>5 DEF Holds
    <3>3. \A s \in Stacks : Stack(t, s) # b /\ Stack(t, s) \in Blocks
      BY <2>1, BlockTypes DEF Stack, Stacks, OwnBlock
    <3>4. f.input \in OwnBlocks => f.input = OwnBlock("input", t, depth[t])
      BY <2>5, NotNull, NotBytesBuffer DEF Holds
    <3>5. OwnBlock("input", t, depth[t]) # b  BY DEF OwnBlock
    <3>. QED  BY <3>1, <3>2, <3>3, <3>4, <3>5 DEF Stacks, Blocks
  <2> HIDE DEF g
  <2>10. Holds(g, t, depth[t]) /\ Ordered(g)
    BY <2>3, <2>5 DEF Holds, Ordered
  <2>11. \A c \in Blocks : Disturbs(t, c)  BY <2>8 DEF Disturbs
  <2>12. KeptNext(g, t)
    <3>1. /\ KeptStack(t, depth[t], "ctns", f.ctns)
          /\ KeptStack(t, depth[t], "objs", f.objs)
          /\ KeptStack(t, depth[t], "enc", f.enc)
      BY <1>1, <2>5 DEF KeptOf, Reading
    <3>2. MarkedNext(t, "ctns", f.ctns)  BY <3>1, <2>8, <2>9 DEF KeptStack, MarkedNext
    <3>3. MarkedNext(t, "enc", f.enc)  BY <3>1, <2>8, <2>9 DEF KeptStack, MarkedNext
    <3>4. MarkedNext(t, "objs", b)  BY <1>1, <3>1, <2>8 DEF KeptStack, MarkedNext
    <3>5. f.input \in OwnBlocks => written'[f.input] = <<"input", t, depth[t]>>
      BY <2>5, <2>8, <2>9 DEF KeptOf
    <3>. QED  BY <3>2, <3>3, <3>4, <3>5, <2>3 DEF KeptNext
  <2>. QED  BY <1>1, <1>2, <2>3, <2>4, <2>8, <2>10, <2>11, <2>12, PutKeeps
<1>4. CASE Goes(t, "fail") /\ UNCHANGED <<live, written>>
  BY <1>1, <1>2, <1>4, PcKeeps
<1>. QED  BY <1>3, <1>4 DEF Grow

\* The call in hand ends; the others work on with what they have.
LEMMA LeaveOK == ASSUME IInv, NEW t \in Threads, ~Idle(t), Leave(t)
                 PROVE  IInv'
<1>1. /\ Inhand(t) /\ UNCHANGED <<stage, keyOf, value>>
      /\ depth[t] \in Nat /\ depth[t] <= MaxDepth /\ MaxDepth \in Nat /\ depth[t] # 0
  BY InHandOK, DepthType DEF IInv, Leave, moduleVars, Idle
<1>2. KeysInv'  BY <1>1, KeysStay
<1>3. NoCall \in Frames  BY DEF NoCall, Frames, Pcs
<1>4. /\ frame' \in [Threads -> [Depths -> Frames]]
      /\ \A u \in Threads : \A i \in Depths :
           <<u, i>> # <<t, depth[t]>> => frame'[u][i] = frame[u][i]
  BY <1>1, <1>3, Effect DEF Leave
<1>5. /\ depth' \in [Threads -> 0 .. MaxDepth]
      /\ depth'[t] = depth[t] - 1
      /\ \A u \in Threads : u # t => depth'[u] = depth[u]
  <2>1. depth \in [Threads -> 0 .. MaxDepth]  BY DEF IInv, CallTypes
  <2>2. depth' = [depth EXCEPT ![t] = depth[t] - 1]  BY DEF Leave
  <2>3. depth[t] - 1 \in 0 .. MaxDepth  BY <1>1
  <2>. QED  BY <2>1, <2>2, <2>3
<1>6. /\ written' \in [Blocks -> Users \cup {NULL}]
      /\ \A b \in Blocks : StillUsed(t, b) => written'[b] = written[b]
  BY DEF IInv, CallTypes, Leave
<1>7. ASSUME NEW u \in Threads, NEW i \in 1 .. depth'[u]
      PROVE  FrameOK(u, i)'
  <2>1. i \in 1 .. depth[u] /\ <<u, i>> # <<t, depth[t]>> /\ i \in Depths
    BY <1>1, <1>5, DepthType DEF IInv, Depths
  <2>2. FrameOK(u, i) /\ frame'[u][i] = frame[u][i]
    BY <2>1, <1>4 DEF IInv, FramesOK
  <2> DEFINE f == frame[u][i]
  <2>3. \A b \in Works(f) \cap Blocks : written'[b] = written[b]
    BY <2>1, <1>6 DEF StillUsed
  <2>4. Holds(f, u, i)' /\ Ordered(f)'
    BY <2>2 DEF FrameOK, Holds, Ordered
  <2>5. f.input \in OwnBlocks => written'[f.input] = <<"input", u, i>>
    BY <2>2, <2>3, NotNull DEF FrameOK, KeptOf, Works, Blocks
  <2>6. /\ f.ctns # NULL => f.ctns \in Blocks
        /\ f.objs # NULL => f.objs \in Blocks
        /\ f.enc # NULL => f.enc \in Blocks
    BY <2>1, <2>2, BlockTypes DEF FrameOK, Holds, Stacks
  <2>7. /\ f.ctns # NULL => written'[f.ctns] = written[f.ctns]
        /\ f.objs # NULL => written'[f.objs] = written[f.objs]
        /\ f.enc # NULL => written'[f.enc] = written[f.enc]
    BY <2>3, <2>6 DEF Works
  <2>8. KeptOf(f, u, i)'
    BY <2>2, <2>5, <2>7 DEF FrameOK, KeptOf, KeptStack, Reading
  <2>. QED  BY <2>4, <2>8 DEF FrameOK
<1>8. CallTypes'  BY <1>4, <1>5, <1>6 DEF CallTypes
<1>. QED  BY <1>2, <1>7, <1>8 DEF IInv, FramesOK

LEMMA CallOK == ASSUME IInv, NEW t \in Threads, Call(t)
                PROVE  IInv'
<1> DEFINE New(c) == [NoCall EXCEPT !.pc = First(c), !.call = c]
<1>1. PICK c \in Calls : frame' = [frame EXCEPT ![t][depth[t] + 1] = New(c)]
  BY DEF Call
<1> DEFINE g == New(c)
<1>2. /\ depth[t] \in Nat /\ MaxDepth \in Nat /\ depth[t] < MaxDepth
      /\ UNCHANGED <<stage, keyOf, value, written>>
  BY DepthType DEF IInv, Call, moduleVars
<1>3. KeysInv'  BY <1>2, KeysStay
<1>4. /\ g \in Frames /\ g.pc = First(c) /\ g.call = c /\ g.input = NULL
      /\ g.ctns = NULL /\ g.objs = NULL /\ g.enc = NULL
  BY DEF NoCall, Frames, First, Parses, Pcs
<1>5. depth[t] + 1 \in Depths  BY <1>2 DEF Depths
<1> HIDE DEF New
<1>6. /\ frame' \in [Threads -> [Depths -> Frames]]
      /\ frame'[t][depth[t] + 1] = g
      /\ \A u \in Threads : \A i \in Depths :
           <<u, i>> # <<t, depth[t] + 1>> => frame'[u][i] = frame[u][i]
  BY <1>1, <1>4, <1>5 DEF IInv, CallTypes
<1>7. /\ depth' \in [Threads -> 0 .. MaxDepth]
      /\ depth'[t] = depth[t] + 1
      /\ \A u \in Threads : u # t => depth'[u] = depth[u]
  BY <1>2 DEF IInv, CallTypes, Call
<1>8. CallTypes'  BY <1>2, <1>6, <1>7 DEF IInv, CallTypes
<1>9. ASSUME NEW u \in Threads, NEW i \in 1 .. depth'[u]
      PROVE  FrameOK(u, i)'
  <2>1. CASE u = t /\ i = depth[t] + 1
    <3>1. frame'[u][i] = g  BY <2>1, <1>6
    <3>2. Holds(frame[u][i], u, i)'  BY <3>1, <1>4 DEF Holds
    <3>3. Ordered(g)  BY <1>4 DEF Ordered, First, Parses
    <3>4. Ordered(frame[u][i])'  BY <3>1, <3>3 DEF Ordered
    <3>5. KeptOf(frame[u][i], u, i)'  BY <3>1, <1>4, NotNull DEF KeptOf, KeptStack
    <3>. QED  BY <3>2, <3>4, <3>5 DEF FrameOK
  <2>2. CASE ~(u = t /\ i = depth[t] + 1)
    <3>1. i \in 1 .. depth[u] /\ i \in Depths
      BY <2>2, <1>2, <1>7, DepthType DEF IInv, Depths
    <3>2. FrameOK(u, i) /\ frame'[u][i] = frame[u][i] /\ written' = written
      BY <2>2, <3>1, <1>2, <1>6 DEF IInv, FramesOK
    <3>3. Holds(frame[u][i], u, i)' /\ Ordered(frame[u][i])'
      BY <3>2 DEF FrameOK, Holds, Ordered
    <3>4. KeptOf(frame[u][i], u, i)'
      BY <3>2 DEF FrameOK, KeptOf, KeptStack, Reading
    <3>. QED  BY <3>3, <3>4 DEF FrameOK
  <2>. QED  BY <2>1, <2>2
<1>. QED  BY <1>3, <1>8, <1>9 DEF IInv, FramesOK

LEMMA ExitThreadOK == ASSUME IInv, NEW t \in Threads, ExitThread(t)
                      PROVE  IInv'
<1>1. UNCHANGED <<stage, keyOf, depth, frame, written>>  BY DEF ExitThread, moduleVars
<1>2. value \in [Threads -> [KeyNumbers -> StackBlocks \cup {NULL}]]
  BY DEF IInv, KeysInv
<1> DEFINE row == [n \in KeyNumbers |-> IF n \in ours THEN NULL ELSE value[t][n]]
<1>3. row \in [KeyNumbers -> StackBlocks \cup {NULL}]  BY <1>2
<1>4. value' = [value EXCEPT ![t] = row]  BY DEF ExitThread
<1>5. \A n \in KeyNumbers : row[n] \in {NULL, value[t][n]}  OBVIOUS
<1> HIDE DEF row
<1>6. /\ value' \in [Threads -> [KeyNumbers -> StackBlocks \cup {NULL}]]
      /\ \A u \in Threads, n \in KeyNumbers : value'[u][n] \in {NULL, value[u][n]}
  BY <1>2, <1>3, <1>4, <1>5
<1>7. KeysInv'
  <2>1. keyOf \in [Stacks -> KeyNumbers]  BY DEF IInv, KeysInv
  <2>2. stage \in Early => \A u \in Threads, n \in KeyNumbers : value'[u][n] = NULL
    BY <1>6 DEF IInv, KeysInv
  <2>3. stage = "loaded" =>
          \A u \in Threads, s \in Stacks : value'[u][keyOf[s]] \in {NULL, Stack(u, s)}
    BY <1>6, <2>1 DEF IInv, KeysInv
  <2>4. stage = "loaded" => \A r, s \in Stacks : r # s => keyOf[r] # keyOf[s]
    BY DEF IInv, KeysInv
  <2>. QED  BY <1>1, <1>6, <2>1, <2>2, <2>3, <2>4 DEF KeysInv
<1>. QED  BY <1>1, <1>7, FramesStay DEF IInv

LEMMA UnloadOK == ASSUME IInv, UnloadModule
                  PROVE  IInv'
<1>1. /\ stage' = "unloaded"
      /\ UNCHANGED <<keyOf, depth, frame, written>>
      /\ value' = [t \in Threads |-> [n \in KeyNumbers |->
                     IF n \in Deleted THEN NULL ELSE value[t][n]]]
  BY DEF UnloadModule, Unload, FreeKeys
<1>2. value' \in [Threads -> [KeyNumbers -> StackBlocks \cup {NULL}]]
  BY <1>1 DEF IInv, KeysInv
<1>3. KeysInv'  BY <1>1, <1>2 DEF IInv, KeysInv, Early
<1>. QED  BY <1>1, <1>3, FramesStay DEF IInv

\* The import: the three keys are different when it ends.
LEMMA ImportOK == ASSUME IInv, Import \/ OthersMakeKey, UNCHANGED callVars
                  PROVE  IInv'
<1>1. UNCHANGED <<depth, frame, value, written>>  BY DEF callVars
<1>2. CASE InitTls
  <2>1. PICK made \in Made, n \in Numberings :
          /\ \A s \in made : \A r \in made \ {s} : n[r] # n[s]
          /\ keyOf' = [s \in Stacks |-> IF s \in made THEN n[s] ELSE keyOf[s]]
          /\ IF Success(made) THEN stage' = "loaded" ELSE stage' = "undefined"
    BY <1>2 DEF InitTls
  <2>2. n \in [Stacks -> KeyNumbers]  BY KeysAssumption
  <2>3. stage \in Early  BY <1>2 DEF InitTls, Early
  <2>4. keyOf' \in [Stacks -> KeyNumbers]  BY <2>1, <2>2 DEF IInv, KeysInv
  <2>5. /\ value \in [Threads -> [KeyNumbers -> StackBlocks \cup {NULL}]]
        /\ \A t \in Threads, k \in KeyNumbers : value[t][k] = NULL
    BY <2>3 DEF IInv, KeysInv
  <2>6. stage' = "loaded" => made = Stacks  BY <2>1 DEF Success
  <2>7. stage' = "loaded" => \A r, s \in Stacks : r # s => keyOf'[r] # keyOf'[s]
    BY <2>1, <2>6
  <2>8. stage' \notin Early  BY <2>1 DEF Early
  <2>9. KeysInv'  BY <1>1, <2>4, <2>5, <2>7, <2>8 DEF KeysInv
  <2>. QED  BY <1>1, <2>9, FramesStay DEF IInv
<1>3. CASE CreateModule \/ AddDecodeError \/ AddEncodeError
  <2>1. stage \in Early /\ stage' \in Early /\ stage' # "loaded" /\ UNCHANGED keyOf
    BY <1>3 DEF CreateModule, AddDecodeError, AddEncodeError, Added, NotAdded,
                FreeKeys, Early
  <2>2. KeysInv'  BY <1>1, <2>1 DEF IInv, KeysInv
  <2>. QED  BY <1>1, <2>2, FramesStay DEF IInv
<1>4. CASE OthersMakeKey
  <2>1. UNCHANGED <<stage, keyOf>>  BY <1>4 DEF OthersMakeKey
  <2>. QED  BY <1>1, <2>1, KeysStay, FramesStay DEF IInv
<1>. QED  BY <1>2, <1>3, <1>4 DEF Import

-----------------------------------------------------------------------------
\* The invariant.

LEMMA InitOK == Init => IInv
<1> SUFFICES ASSUME Init PROVE IInv
  OBVIOUS
<1>1. MaxDepth \in Nat /\ MaxKeys \in Nat \ {0}  BY CallsAssumption, KeysAssumption
<1>2. NoCall \in Frames  BY DEF NoCall, Frames, Pcs
<1>3. CallTypes  BY <1>1, <1>2 DEF Init, CallTypes
<1>4. KeysInv
  <2>1. keyOf \in [Stacks -> KeyNumbers]  BY <1>1 DEF Init, ModuleInit, KeyNumbers
  <2>2. stage = "absent"  BY DEF Init, ModuleInit
  <2>3. value = [t \in Threads |-> [n \in KeyNumbers |-> NULL]]  BY DEF Init
  <2>. QED  BY <2>1, <2>2, <2>3 DEF KeysInv
<1>5. FramesOK  BY DEF Init, FramesOK
<1>. QED  BY <1>3, <1>4, <1>5 DEF IInv

LEMMA NextOK == IInv /\ [Next]_vars => IInv'
<1> SUFFICES ASSUME IInv, [Next]_vars PROVE IInv'
  OBVIOUS
<1>1. ASSUME NEW t \in Threads, Step(t) PROVE IInv'
  <2>1. CASE Return(t)
    BY <2>1, LeaveOK DEF Return, At
  <2>2. CASE CleanUpWild(t)
    BY <2>2, LeaveOK, UndefinedKeeps DEF CleanUpWild, At
  <2>. QED  BY <1>1, <2>1, <2>2, CallOK, CopyInputOK, CtnStackOK, ObjStackOK,
               EncodeStackOK, ReserveStringOK, NoStringOK, GrowOK, PauseOK, ExitThreadOK
            DEF Step
<1>2. CASE UNCHANGED vars
  BY <1>2, KeysStay, FramesStay DEF vars, moduleVars, callVars, IInv
<1>. QED  BY <1>1, <1>2, ImportOK, UnloadOK DEF Next

(***************************************************************************)
(* However many threads call loads() and dumps(), and however often a      *)
(* finalizer calls them again: what a call that walks a document has on    *)
(* its stacks was written by a call of its own thread that did not begin   *)
(* before it, in the same role, and the input in a block of its own by     *)
(* itself.                                                                 *)
(***************************************************************************)
THEOREM CallsAreKept == Spec => []OthersKeepOut
<1>1. IInv => OthersKeepOut
  BY DEF IInv, FramesOK, FrameOK, KeptOf, OthersKeepOut
<1>. QED  BY <1>1, InitOK, NextOK, PTL DEF Spec

-----------------------------------------------------------------------------
\* The module's life.  A class that an import has reached is whole, whatever
\* an earlier import left in the static variables.

WholeClass(e) == static[e] /\ added[e] /\ refs[e] = 2

LifeInv ==
  /\ refs \in [Errors -> Int]
  /\ static \in [Errors -> BOOLEAN]
  /\ added \in [Errors -> BOOLEAN]
  /\ ours \subseteq KeyNumbers
  /\ ours \cap others = {}
  /\ stage \in Early => ours = {}
  /\ stage \in {"decode_error", "encode_error", "loaded"} => WholeClass("decode")
  /\ stage \in {"encode_error", "loaded"} => WholeClass("encode")
  /\ stage = "loaded" => /\ \A s \in Stacks : keyOf[s] \in ours
                         /\ \A r, s \in Stacks : r # s => keyOf[r] # keyOf[s]

LEMMA AddedOK ==
  ASSUME LifeInv, NEW e \in Errors, NEW next,
         \/ e = "decode" /\ next = "decode_error" /\ stage = "module"
         \/ e = "encode" /\ next = "encode_error" /\ stage = "decode_error",
         Added(e, next) \/ NotAdded(e)
  PROVE  LifeInv'
<1>1. CASE Added(e, next)
  BY <1>1 DEF LifeInv, Added, NewClass, WholeClass, Errors, Early
<1>2. CASE NotAdded(e)
  <2>1. DictGone \in [Errors -> Int]  BY DEF LifeInv, DictGone
  <2>2. ours = {}  BY DEF LifeInv, Early
  <2>. QED  BY <1>2, <2>1, <2>2 DEF LifeInv, NotAdded, FreeKeys, Early
<1>. QED  BY <1>1, <1>2

LEMMA InitTlsOK == ASSUME LifeInv, InitTls
                   PROVE  LifeInv'
<1>1. PICK made \in Made, n \in Numberings :
        /\ \A s \in made : /\ n[s] \notin ours \cup others
                           /\ \A r \in made \ {s} : n[r] # n[s]
        /\ keyOf' = [s \in Stacks |-> IF s \in made THEN n[s] ELSE keyOf[s]]
        /\ ours' = ours \cup {n[s] : s \in made}
        /\ IF Success(made)
             THEN stage' = "loaded" /\ UNCHANGED refs
             ELSE stage' = "undefined" /\ refs' = [refs EXCEPT !["encode"] = 0]
  BY DEF InitTls
<1>2. stage = "encode_error" /\ UNCHANGED <<static, added, others>>
  BY DEF InitTls
<1>3. ours' \cap others' = {} /\ ours' \subseteq KeyNumbers
  <2>1. n \in [Stacks -> KeyNumbers] /\ made \subseteq Stacks
    BY <1>1, KeysAssumption DEF Made, Upto
  <2>. QED  BY <1>1, <1>2, <2>1 DEF LifeInv
<1>4. CASE Success(made)
  <2>1. made = Stacks /\ stage' = "loaded" /\ UNCHANGED refs  BY <1>1, <1>4 DEF Success
  <2>2. \A s \in Stacks : keyOf'[s] = n[s]  BY <1>1, <2>1
  <2>3. /\ \A s \in Stacks : keyOf'[s] \in ours'
        /\ \A r, s \in Stacks : r # s => keyOf'[r] # keyOf'[s]
    BY <1>1, <2>1, <2>2
  <2>. QED  BY <1>2, <1>3, <2>1, <2>3 DEF LifeInv, WholeClass, Early
<1>5. CASE ~Success(made)
  BY <1>1, <1>2, <1>3, <1>5 DEF LifeInv, Early
<1>. QED  BY <1>4, <1>5

LEMMA LifeInit == Init => LifeInv
  BY DEF Init, ModuleInit, LifeInv, Early

LEMMA LifeStays == ASSUME LifeInv, UNCHANGED moduleVars
                   PROVE  LifeInv'
  BY DEF LifeInv, moduleVars, WholeClass

LEMMA LifeEnds ==
  ASSUME LifeInv, stage' = "undefined",
         UNCHANGED <<refs, static, added, keyOf, ours, others>>
  PROVE  LifeInv'
  BY DEF LifeInv, Early

LEMMA LifeNext == LifeInv /\ [Next]_vars => LifeInv'
<1> SUFFICES ASSUME LifeInv, [Next]_vars PROVE LifeInv'
  OBVIOUS
<1>1. ASSUME NEW t \in Threads, Step(t) PROVE LifeInv'
  <2>1. UNCHANGED moduleVars \/ (stage' = "undefined"
                                 /\ UNCHANGED <<refs, static, added, keyOf, ours, others>>)
    BY <1>1 DEF Step, Call, CopyInput, GetCtnStack, GetObjStack, GetEncodeStack,
                ReserveString, NoString, Grow, Pause, Resume, Return, CleanUpWild,
                Leave, ExitThread, moduleVars
  <2>. QED  BY <2>1, LifeStays, LifeEnds
<1>2. CASE CreateModule
  BY <1>2 DEF CreateModule, LifeInv, WholeClass, Early
<1>3. CASE AddDecodeError \/ AddEncodeError
  BY <1>3, AddedOK DEF AddDecodeError, AddEncodeError, Errors
<1>4. CASE OthersMakeKey
  <2>1. UNCHANGED <<stage, refs, static, added, keyOf, ours>> /\ ours' \cap others' = {}
    BY <1>4 DEF OthersMakeKey, LifeInv
  <2>. QED  BY <2>1 DEF LifeInv, WholeClass
<1>5. CASE UnloadModule
  <2>1. DictGone \in [Errors -> Int]  BY DEF LifeInv, DictGone
  <2>. QED  BY <1>5, <2>1 DEF UnloadModule, Unload, FreeKeys, LifeInv, Early
<1>6. CASE UNCHANGED vars
  BY <1>6, LifeStays DEF vars
<1>. QED  BY <1>1, <1>2, <1>3, <1>4, <1>5, <1>6, InitTlsOK DEF Next, Import

(***************************************************************************)
(* Whatever imports failed before, a loaded module has three keys of its   *)
(* own with different numbers, and both exception classes twice: for the   *)
(* module's dict and for the variable that loads() and dumps() raise from. *)
(***************************************************************************)
THEOREM ImportIsWhole == Spec => []LoadedIsWhole
<1>1. LifeInv => LoadedIsWhole
  BY DEF LifeInv, LoadedIsWhole, WholeClass, Errors
<1>. QED  BY <1>1, LifeInit, LifeNext, PTL DEF Spec

-----------------------------------------------------------------------------
(***************************************************************************)
(* What loads() and dumps() allocate is freed or kept by somebody, for     *)
(* every number of threads, calls and keys.                                *)
(*                                                                         *)
(* The invariant says who has a live block: the key of a thread, or one    *)
(* call.  It rests on the invariant above, which says that a block's name  *)
(* tells whose it is, and on the module's life, which says that a loaded   *)
(* module has all the keys whose values a thread's exit frees.             *)
(***************************************************************************)

StrOK(f, t, i) ==
  /\ f.str \in {NULL, StringBuffer(t), OwnBlock("string", t, i)}
  /\ f.pc \in {"input", "ctns", "objs", "enc", "str"} => f.str = NULL

FramesHaveStr ==
  \A t \in Threads, i \in Depths : /\ StrOK(frame[t][i], t, i)
                                   /\ i > depth[t] => frame[t][i] = NoCall

LiveIs ==
  \A b : b \in live <=>
           \/ b # NULL /\ \E t \in Threads, n \in KeyNumbers : b = value[t][n]
           \/ \E t \in Threads, i \in Depths : b \in Freed(frame[t][i])

ValuesAreOurs ==
  \A t \in Threads, n \in KeyNumbers :
    value[t][n] # NULL => \E s \in Stacks : n = keyOf[s]

MemInv ==
  /\ FramesHaveStr
  /\ stage \in Early => live = {} /\ \A t \in Threads : Idle(t)
  /\ stage = "loaded" => LiveIs /\ ValuesAreOurs
  /\ stage = "unloaded" => live \subseteq StackBlocks

-----------------------------------------------------------------------------
\* Whose a block is.

LEMMA FreedNoCall == Freed(NoCall) = {}
  BY NotNull DEF Freed, NoCall

LEMMA OwnNamed ==
  ASSUME IInv, MemInv, NEW t \in Threads, NEW i \in Depths, NEW b \in Freed(frame[t][i])
  PROVE  b \in OwnBlocks /\ \E n \in OwnNames : b = OwnBlock(n, t, i)
<1>1. i \in Nat /\ depth[t] \in Nat  BY DepthType DEF IInv, Depths
<1>2. i <= depth[t]
  <2>1. SUFFICES ASSUME i > depth[t] PROVE FALSE
    BY <1>1
  <2>. QED  BY <2>1, FreedNoCall DEF MemInv, FramesHaveStr
<1>3. FrameOK(t, i)  BY <1>1, <1>2 DEF IInv, FramesOK, Depths
<1>4. StrOK(frame[t][i], t, i)  BY DEF MemInv, FramesHaveStr
<1>5. b \in OwnBlocks /\ b \in {frame[t][i].input, frame[t][i].objs, frame[t][i].str}
  BY DEF Freed
<1>6. \A s \in Stacks : Stack(t, s) \notin OwnBlocks
  BY DEF Stack, Stacks, OwnBlocks
<1>7. StringBuffer(t) \notin OwnBlocks  BY DEF StringBuffer, OwnBlocks
<1>. QED  BY <1>3, <1>4, <1>5, <1>6, <1>7, NotNull, NotBytesBuffer
          DEF FrameOK, Holds, StrOK, OwnNames, Stacks

LEMMA StacksAreNobodys == StackBlocks \cap OwnBlocks = {}
  BY DEF StackBlocks, Stacks, OwnBlocks

LEMMA OthersOwn ==
  ASSUME IInv, MemInv, NEW t \in Threads, NEW i \in Depths, NEW u \in Threads, NEW j \in Depths,
         <<u, j>> # <<t, i>>
  PROVE  Freed(frame[t][i]) \cap Freed(frame[u][j]) = {}
<1>1. SUFFICES ASSUME NEW b \in Freed(frame[t][i]), b \in Freed(frame[u][j]) PROVE FALSE
  OBVIOUS
<1>2. PICK n \in OwnNames : b = OwnBlock(n, t, i)  BY OwnNamed
<1>3. PICK m \in OwnNames : b = OwnBlock(m, u, j)  BY <1>1, OwnNamed
<1>. QED  BY <1>2, <1>3 DEF OwnBlock

\* The value of a key is a stack of the thread, and in the place of that stack.
LEMMA ValueNamed ==
  ASSUME IInv, ValuesAreOurs, stage = "loaded", NEW t \in Threads, NEW n \in KeyNumbers,
         value[t][n] # NULL
  PROVE  /\ value[t][n] \in StackBlocks
         /\ \E s \in Stacks : n = keyOf[s] /\ value[t][n] = Stack(t, s)
<1>1. PICK s \in Stacks : n = keyOf[s]  BY DEF ValuesAreOurs
<1>. QED  BY <1>1 DEF IInv, KeysInv

-----------------------------------------------------------------------------
\* The two ways in which a step changes what is live.

LEMMA OwnMoves ==
  ASSUME IInv, MemInv, stage = "loaded", NEW t \in Threads, Inhand(t),
         NEW STATE g, g \in Frames, Becomes(t, g), value' = value,
         \A b : b \in live' <=> (b \in live /\ b \notin Freed(Top(t))) \/ b \in Freed(g)
  PROVE  LiveIs'
<1>1. /\ frame'[t][depth[t]] = g
      /\ \A u \in Threads : \A i \in Depths :
           <<u, i>> # <<t, depth[t]>> => frame'[u][i] = frame[u][i]
  BY Effect
<1>2. depth[t] \in Depths  BY DEF Inhand
<1>3. LiveIs /\ ValuesAreOurs  BY DEF MemInv
<1>4. SUFFICES ASSUME NEW b
               PROVE  b \in live' <=>
                        \/ b # NULL /\ \E u \in Threads, n \in KeyNumbers : b = value[u][n]
                        \/ \E u \in Threads, i \in Depths : b \in Freed(frame'[u][i])
  BY DEF LiveIs, Freed
<1>5. ASSUME b \in live, b \notin Freed(Top(t))
      PROVE  \/ b # NULL /\ \E u \in Threads, n \in KeyNumbers : b = value[u][n]
             \/ \E u \in Threads, i \in Depths : b \in Freed(frame'[u][i])
  <2>1. CASE \E u \in Threads, i \in Depths : b \in Freed(frame[u][i])
    <3>1. PICK u \in Threads, i \in Depths : b \in Freed(frame[u][i])  BY <2>1
    <3>2. <<u, i>> # <<t, depth[t]>>  BY <1>5, <3>1 DEF Top
    <3>. QED  BY <1>1, <3>1, <3>2
  <2>. QED  BY <1>3, <1>5, <2>1 DEF LiveIs
<1>6. ASSUME b \in Freed(g)
      PROVE  \E u \in Threads, i \in Depths : b \in Freed(frame'[u][i])
  BY <1>1, <1>2, <1>6
<1>7. ASSUME b # NULL, NEW u \in Threads, NEW n \in KeyNumbers, b = value[u][n]
      PROVE  b \in live /\ b \notin Freed(Top(t))
  BY <1>3, <1>7, ValueNamed, StacksAreNobodys DEF LiveIs, Freed
<1>8. ASSUME NEW u \in Threads, NEW i \in Depths, b \in Freed(frame'[u][i])
      PROVE  (b \in live /\ b \notin Freed(Top(t))) \/ b \in Freed(g)
  <2>1. CASE <<u, i>> = <<t, depth[t]>>
    BY <1>1, <1>8, <2>1
  <2>2. CASE <<u, i>> # <<t, depth[t]>>
    <3>1. b \in Freed(frame[u][i])  BY <1>1, <1>8, <2>2
    <3>2. b \notin Freed(Top(t))  BY <1>2, <2>2, <3>1, OthersOwn DEF Top
    <3>. QED  BY <1>3, <3>1, <3>2 DEF LiveIs
  <2>. QED  BY <2>1, <2>2
<1>. QED  BY <1>5, <1>6, <1>7, <1>8

\* A stack is allocated or not; what the calls have of their own stays.
SameOwn == \A t \in Threads, i \in Depths : Freed(frame[t][i])' = Freed(frame[t][i])

LEMMA StackMoves ==
  ASSUME IInv, MemInv, stage = "loaded", NEW t \in Threads, NEW s \in Stacks, SameOwn,
         keyOf' = keyOf, (\E b \in StackBlocks : HasStack(t, s, b)) \/ NoStack(t, s)
  PROVE  LiveIs' /\ ValuesAreOurs'
<1>1. LiveIs /\ ValuesAreOurs  BY DEF MemInv
<1>2. /\ keyOf[s] \in KeyNumbers
      /\ value \in [Threads -> [KeyNumbers -> StackBlocks \cup {NULL}]]
  BY DEF IInv, KeysInv
<1>3. CASE UNCHANGED <<value, live>>
  BY <1>1, <1>3 DEF LiveIs, ValuesAreOurs, SameOwn
<1>4. ASSUME Kept(t, s) = NULL, value' = [value EXCEPT ![t][keyOf[s]] = Stack(t, s)],
             live' = live \cup {Stack(t, s)}
      PROVE  LiveIs' /\ ValuesAreOurs'
  <2> DEFINE b == Stack(t, s)
  <2>1. /\ value'[t][keyOf[s]] = b
        /\ \A u \in Threads, n \in KeyNumbers :
             <<u, n>> # <<t, keyOf[s]>> => value'[u][n] = value[u][n]
    BY <1>2, <1>4
  <2>2. value[t][keyOf[s]] = NULL  BY <1>4 DEF Kept
  <2>3. b # NULL  BY NotNull DEF Stack, Blocks, StackBlocks
  <2>4. ValuesAreOurs'  BY <1>1, <2>1 DEF ValuesAreOurs
  <2> HIDE DEF b
  <2>5. ASSUME NEW c
        PROVE  (c # NULL /\ \E u \in Threads, n \in KeyNumbers : c = value'[u][n])
               <=> \/ c = b
                   \/ c # NULL /\ \E u \in Threads, n \in KeyNumbers : c = value[u][n]
    BY <1>2, <2>1, <2>2, <2>3
  <2>6. \A c : c \in live' <=> c \in live \/ c = b  BY <1>4 DEF b
  <2>. QED  BY <1>1, <2>4, <2>5, <2>6 DEF LiveIs, SameOwn
<1>5. ASSUME Kept(t, s) = NULL, value' = value, live' = live \ {Stack(t, s)}
      PROVE  LiveIs' /\ ValuesAreOurs'
  <2>1. Stack(t, s) \notin live
    <3>1. SUFFICES ASSUME Stack(t, s) \in live PROVE FALSE
      OBVIOUS
    <3>2. Stack(t, s) \in StackBlocks  BY DEF Stack, StackBlocks
    <3>3. PICK u \in Threads, n \in KeyNumbers :
            Stack(t, s) = value[u][n] /\ value[u][n] # NULL
      BY <1>1, <3>1, <3>2, StacksAreNobodys DEF LiveIs, Freed
    <3>4. PICK r \in Stacks : n = keyOf[r] /\ value[u][n] = Stack(u, r)
      BY <1>1, <3>3, ValueNamed
    <3>5. u = t /\ r = s  BY <3>3, <3>4 DEF Stack
    <3>. QED  BY <1>5, <3>3, <3>4, <3>5 DEF Kept
  <2>2. live' = live  BY <1>5, <2>1
  <2>. QED  BY <1>3, <1>5, <2>2
<1>. QED  BY <1>3, <1>4, <1>5 DEF HasStack, NoStack, SetFails

-----------------------------------------------------------------------------
\* Steps that put a frame g in place of the one in hand.

LEMMA Assemble ==
  ASSUME IInv, MemInv, stage = "loaded", NEW t \in Threads, Inhand(t),
         NEW STATE g, g \in Frames, Becomes(t, g), UNCHANGED <<stage, depth>>,
         StrOK(g, t, depth[t]), LiveIs', ValuesAreOurs'
  PROVE  MemInv'
<1>1. /\ frame'[t][depth[t]] = g
      /\ \A u \in Threads : \A i \in Depths :
           <<u, i>> # <<t, depth[t]>> => frame'[u][i] = frame[u][i]
  BY Effect
<1>2. ASSUME NEW u \in Threads, NEW i \in Depths
      PROVE  StrOK(frame[u][i], u, i)' /\ (i > depth'[u] => frame'[u][i] = NoCall)
  <2>1. CASE <<u, i>> = <<t, depth[t]>>
    <3>1. frame'[u][i] = g /\ i = depth[u] /\ u = t  BY <1>1, <2>1
    <3>2. ~(i > depth'[u])  BY <3>1, DepthType DEF IInv
    <3>3. StrOK(frame[u][i], u, i)'  BY <3>1 DEF StrOK
    <3>. QED  BY <3>2, <3>3
  <2>2. CASE <<u, i>> # <<t, depth[t]>>
    BY <1>1, <2>2 DEF MemInv, FramesHaveStr, StrOK
  <2>. QED  BY <2>1, <2>2
<1>3. FramesHaveStr'  BY <1>2 DEF FramesHaveStr
<1>. QED  BY <1>3 DEF MemInv, Early

LEMMA OwnGrows ==
  ASSUME IInv, MemInv, stage = "loaded", NEW t \in Threads, Inhand(t),
         NEW STATE g, g \in Frames, Becomes(t, g), UNCHANGED <<stage, keyOf, depth, value>>,
         NEW STATE X, Freed(g) = Freed(Top(t)) \cup X, live' = live \cup X,
         StrOK(g, t, depth[t])
  PROVE  MemInv'
<1>1. LiveIs /\ ValuesAreOurs  BY DEF MemInv
<1>2. depth[t] \in Depths  BY DEF Inhand
<1>3. Freed(Top(t)) \subseteq live  BY <1>1, <1>2 DEF LiveIs, Top
<1>4. \A b : b \in live' <=> (b \in live /\ b \notin Freed(Top(t))) \/ b \in Freed(g)
  BY <1>3
<1>5. LiveIs'  BY <1>4, OwnMoves
<1>6. ValuesAreOurs'  BY <1>1 DEF ValuesAreOurs
<1>. QED  BY <1>5, <1>6, Assemble

LEMMA StackGiven ==
  ASSUME IInv, MemInv, stage = "loaded", NEW t \in Threads, Inhand(t),
         NEW STATE g, g \in Frames, Becomes(t, g), UNCHANGED <<stage, keyOf, depth>>,
         NEW s \in Stacks, (\E b \in StackBlocks : HasStack(t, s, b)) \/ NoStack(t, s),
         Freed(g) = Freed(Top(t)), StrOK(g, t, depth[t])
  PROVE  MemInv'
<1>1. /\ frame'[t][depth[t]] = g
      /\ \A u \in Threads : \A i \in Depths :
           <<u, i>> # <<t, depth[t]>> => frame'[u][i] = frame[u][i]
  BY Effect
<1>2. ASSUME NEW u \in Threads, NEW i \in Depths
      PROVE  Freed(frame[u][i])' = Freed(frame[u][i])
  <2>1. CASE <<u, i>> = <<t, depth[t]>>
    BY <1>1, <2>1 DEF Top, Freed
  <2>2. CASE <<u, i>> # <<t, depth[t]>>
    BY <1>1, <2>2 DEF Freed
  <2>. QED  BY <2>1, <2>2
<1>3. SameOwn  BY <1>2 DEF SameOwn
<1>. QED  BY <1>3, StackMoves, Assemble

LEMMA TopStr ==
  ASSUME MemInv, NEW t \in Threads, Inhand(t)
  PROVE  StrOK(Top(t), t, depth[t])
  BY DEF MemInv, FramesHaveStr, Inhand, Top

\* The frame in hand, moved on.
LEMMA MovedOn ==
  ASSUME MemInv, NEW t \in Threads, Inhand(t), NEW pc \in {"run", "paused", "fail", "wild"},
         NEW STATE g, g = [Top(t) EXCEPT !.pc = pc]
  PROVE  /\ g \in Frames
         /\ Freed(g) = Freed(Top(t))
         /\ StrOK(g, t, depth[t])
<1>1. Top(t) \in Frames  BY DEF Inhand
<1>2. /\ g \in Frames /\ g.pc = pc /\ g.input = Top(t).input
      /\ g.objs = Top(t).objs /\ g.str = Top(t).str
  BY <1>1 DEF Frames, Pcs
<1>. QED  BY <1>2, TopStr DEF Freed, StrOK

LEMMA GoesMem ==
  ASSUME IInv, MemInv, stage = "loaded", NEW t \in Threads, Inhand(t),
         NEW pc \in {"run", "paused", "fail", "wild"}, Goes(t, pc),
         UNCHANGED <<stage, keyOf, depth, value, live>>
  PROVE  MemInv'
<1> DEFINE g == [Top(t) EXCEPT !.pc = pc]
<1>1. Becomes(t, g)  BY DEF Goes
<1>2. g \in Frames /\ Freed(g) = Freed(Top(t)) /\ StrOK(g, t, depth[t])  BY MovedOn
<1> HIDE DEF g
<1>3. Freed(g) = Freed(Top(t)) \cup {} /\ live' = live \cup {}  BY <1>2
<1>. QED  BY <1>1, <1>2, <1>3, OwnGrows

LEMMA NoStackMem ==
  ASSUME IInv, MemInv, stage = "loaded", NEW t \in Threads, Inhand(t),
         NEW pc \in {"fail", "wild"}, Goes(t, pc), NEW s \in Stacks, NoStack(t, s),
         UNCHANGED <<stage, keyOf, depth>>
  PROVE  MemInv'
<1> DEFINE g == [Top(t) EXCEPT !.pc = pc]
<1>1. Becomes(t, g)  BY DEF Goes
<1>2. g \in Frames /\ Freed(g) = Freed(Top(t)) /\ StrOK(g, t, depth[t])  BY MovedOn
<1> HIDE DEF g
<1>. QED  BY <1>1, <1>2, StackGiven

-----------------------------------------------------------------------------
\* One lemma for each action.

LEMMA PauseMem == ASSUME IInv, MemInv, NEW t \in Threads, Pause(t) \/ Resume(t)
                  PROVE  MemInv'
<1>1. /\ ~Idle(t) /\ stage = "loaded"
      /\ UNCHANGED <<stage, keyOf, depth, value, live>>
      /\ \E pc \in {"run", "paused"} : Goes(t, pc)
  BY DEF Pause, Resume, Walks, At, moduleVars
<1>. QED  BY <1>1, InHandOK, GoesMem

LEMMA StacksMem ==
  ASSUME IInv, MemInv, NEW t \in Threads,
         GetCtnStack(t) \/ GetObjStack(t) \/ GetEncodeStack(t)
  PROVE  MemInv'
<1>1. ~Idle(t) /\ stage = "loaded" /\ UNCHANGED <<stage, keyOf, depth>>
  BY DEF GetCtnStack, GetObjStack, GetEncodeStack, At, moduleVars
<1>2. Inhand(t) /\ StrOK(Top(t), t, depth[t])  BY <1>1, InHandOK, TopStr
<1>3. Top(t) \in Frames /\ FrameOK(t, depth[t])  BY <1>2 DEF Inhand
<1>4. ASSUME NEW b \in StackBlocks PROVE b \in Blocks /\ b \notin OwnBlocks
  BY StacksAreNobodys DEF Blocks
<1>5. CASE GetCtnStack(t)
  <2>1. CASE NoStack(t, "decode_ctn") /\ Goes(t, "wild")
    BY <2>1, <1>1, <1>2, NoStackMem DEF Stacks
  <2>2. CASE \E b \in StackBlocks :
               /\ HasStack(t, "decode_ctn", b)
               /\ Becomes(t, [Top(t) EXCEPT !.pc = "objs", !.ctns = b])
    <3>1. PICK b \in StackBlocks :
            /\ HasStack(t, "decode_ctn", b)
            /\ Becomes(t, [Top(t) EXCEPT !.pc = "objs", !.ctns = b])
      BY <2>2
    <3> DEFINE g == [Top(t) EXCEPT !.pc = "objs", !.ctns = b]
    <3>2. /\ g \in Frames /\ g.input = Top(t).input /\ g.objs = Top(t).objs
          /\ g.str = Top(t).str /\ g.pc = "objs" /\ Top(t).pc = "ctns"
      BY <1>3, <1>4, <1>5 DEF Frames, Pcs, GetCtnStack, At
    <3> HIDE DEF g
    <3>3. Freed(g) = Freed(Top(t)) /\ StrOK(g, t, depth[t])
      BY <1>2, <3>2 DEF Freed, StrOK
    <3>. QED  BY <1>1, <1>2, <3>1, <3>2, <3>3, StackGiven DEF g, Stacks
  <2>. QED  BY <1>5, <2>1, <2>2 DEF GetCtnStack
<1>6. CASE GetObjStack(t)
  <2>1. CASE NoStack(t, "decode_obj") /\ Goes(t, "wild")
    BY <2>1, <1>1, <1>2, NoStackMem DEF Stacks
  <2>2. CASE \E b \in StackBlocks :
               /\ HasStack(t, "decode_obj", b)
               /\ Becomes(t, [Top(t) EXCEPT !.pc = "str", !.objs = b])
    <3>1. PICK b \in StackBlocks :
            /\ HasStack(t, "decode_obj", b)
            /\ Becomes(t, [Top(t) EXCEPT !.pc = "str", !.objs = b])
      BY <2>2
    <3> DEFINE g == [Top(t) EXCEPT !.pc = "str", !.objs = b]
    <3>2. /\ g \in Frames /\ g.input = Top(t).input /\ g.objs = b
          /\ g.str = Top(t).str /\ g.pc = "str" /\ Top(t).pc = "objs"
      BY <1>3, <1>4, <1>6 DEF Frames, Pcs, GetObjStack, At
    <3> HIDE DEF g
    <3>3. Top(t).objs = NULL  BY <1>3, <3>2 DEF FrameOK, Ordered, Top
    <3>4. Freed(g) = Freed(Top(t))  BY <1>4, <3>2, <3>3, NotNull DEF Freed
    <3>5. StrOK(g, t, depth[t])  BY <1>2, <3>2 DEF StrOK
    <3>. QED  BY <1>1, <1>2, <3>1, <3>2, <3>4, <3>5, StackGiven DEF g, Stacks
  <2>. QED  BY <1>6, <2>1, <2>2 DEF GetObjStack
<1>7. CASE GetEncodeStack(t)
  <2>1. CASE NoStack(t, EncodeKey) /\ Goes(t, "fail")
    BY <2>1, <1>1, <1>2, NoStackMem DEF Stacks, EncodeKey
  <2>2. CASE \E b \in StackBlocks :
               /\ HasStack(t, EncodeKey, b)
               /\ Becomes(t, [Top(t) EXCEPT !.pc = "run", !.enc = b])
    <3>1. PICK b \in StackBlocks :
            /\ HasStack(t, EncodeKey, b)
            /\ Becomes(t, [Top(t) EXCEPT !.pc = "run", !.enc = b])
      BY <2>2
    <3> DEFINE g == [Top(t) EXCEPT !.pc = "run", !.enc = b]
    <3>2. /\ g \in Frames /\ g.input = Top(t).input /\ g.objs = Top(t).objs
          /\ g.str = Top(t).str /\ g.pc = "run"
      BY <1>3, <1>4 DEF Frames, Pcs
    <3> HIDE DEF g
    <3>3. Freed(g) = Freed(Top(t)) /\ StrOK(g, t, depth[t])
      BY <1>2, <3>2 DEF Freed, StrOK
    <3>. QED  BY <1>1, <1>2, <3>1, <3>2, <3>3, StackGiven DEF g, EncodeKey, Stacks
  <2>. QED  BY <1>7, <2>1, <2>2 DEF GetEncodeStack
<1>. QED  BY <1>5, <1>6, <1>7

LEMMA CopyInputMem == ASSUME IInv, MemInv, NEW t \in Threads, CopyInput(t)
                      PROVE  MemInv'
<1> DEFINE f == Top(t)
           long == f.call.size = "long"
           b == IF long THEN OwnBlock("input", t, depth[t]) ELSE BytesBuffer
           X == IF long THEN {b} ELSE {}
           g == [f EXCEPT !.pc = Parses(f.call), !.input = b]
<1>1. /\ ~Idle(t) /\ stage = "loaded" /\ f.pc = "input"
      /\ UNCHANGED <<stage, keyOf, depth, value>>
  BY DEF CopyInput, At, moduleVars
<1>2. Inhand(t) /\ StrOK(f, t, depth[t])  BY <1>1, InHandOK, TopStr
<1>3. f \in Frames /\ FrameOK(t, depth[t]) /\ depth[t] \in Depths  BY <1>2 DEF Inhand
<1>4. CASE Becomes(t, g) /\ live' = live \cup X
  <2>1. b \in Blocks /\ Parses(f.call) \in Pcs
    BY <1>3, BlockTypes DEF Parses, Pcs
  <2>2. /\ g \in Frames /\ g.input = b /\ g.objs = f.objs /\ g.str = f.str
    BY <1>3, <2>1 DEF Frames
  <2>3. f.input = NULL /\ f.str = NULL
    BY <1>1, <1>2, <1>3 DEF FrameOK, Ordered, Top, StrOK
  <2>4. {b} \cap OwnBlocks = X
    BY <1>3, BlockTypes, NotBytesBuffer
  <2>5. Freed(g) = Freed(f) \cup X
    BY <2>2, <2>3, <2>4, NotNull DEF Freed
  <2>6. StrOK(g, t, depth[t])  BY <2>2, <2>3 DEF StrOK
  <2>7. Becomes(t, g) /\ live' = live \cup X  BY <1>4
  <2> HIDE DEF g, X
  <2>. QED  BY <1>1, <1>2, <2>2, <2>5, <2>6, <2>7, OwnGrows
<1>5. CASE Goes(t, "fail") /\ UNCHANGED live
  BY <1>1, <1>2, <1>5, GoesMem
<1>. QED  BY <1>4, <1>5 DEF CopyInput

LEMMA ReserveStringMem == ASSUME IInv, MemInv, NEW t \in Threads, ReserveString(t)
                          PROVE  MemInv'
<1> DEFINE f == Top(t)
           short == f.call.size = "short"
           b == IF short THEN StringBuffer(t) ELSE OwnBlock("string", t, depth[t])
           X == IF short THEN {} ELSE {b}
           g == [f EXCEPT !.pc = "run", !.str = b]
<1>1. /\ ~Idle(t) /\ stage = "loaded" /\ f.pc = "str"
      /\ UNCHANGED <<stage, keyOf, depth, value>>
      /\ Becomes(t, g) /\ live' = live \cup X
  BY DEF ReserveString, At, moduleVars
<1>2. Inhand(t) /\ StrOK(f, t, depth[t])  BY <1>1, InHandOK, TopStr
<1>3. f \in Frames /\ depth[t] \in Depths  BY <1>2 DEF Inhand
<1>4. b \in StringBlocks /\ {b} \cap OwnBlocks = X
  <2>1. OwnBlock("string", t, depth[t]) \in OwnBlocks  BY <1>3, BlockTypes
  <2>2. StringBuffer(t) \notin OwnBlocks  BY DEF StringBuffer, OwnBlocks
  <2>. QED  BY <2>1, <2>2 DEF StringBlocks
<1>5. /\ g \in Frames /\ g.pc = "run" /\ g.input = f.input /\ g.objs = f.objs /\ g.str = b
  BY <1>3, <1>4 DEF Frames, Pcs
<1>6. f.str = NULL  BY <1>1, <1>2 DEF StrOK
<1>7. Freed(g) = Freed(f) \cup X  BY <1>4, <1>5, <1>6, NotNull DEF Freed
<1>8. StrOK(g, t, depth[t])  BY <1>5 DEF StrOK
<1> HIDE DEF g, X
<1>. QED  BY <1>1, <1>2, <1>5, <1>7, <1>8, OwnGrows

LEMMA GrowMem == ASSUME IInv, MemInv, NEW t \in Threads, Grow(t)
                 PROVE  MemInv'
<1> DEFINE f == Top(t)
           b == OwnBlock("grown", t, depth[t])
           g == [f EXCEPT !.objs = b]
<1>1. /\ ~Idle(t) /\ stage = "loaded" /\ f.objs # NULL
      /\ UNCHANGED <<stage, keyOf, depth, value>>
  BY DEF Grow, Walks, At, moduleVars
<1>2. Inhand(t) /\ StrOK(f, t, depth[t])  BY <1>1, InHandOK, TopStr
<1>3. f \in Frames /\ FrameOK(t, depth[t]) /\ depth[t] \in Depths  BY <1>2 DEF Inhand
<1>4. CASE f.objs # b /\ Becomes(t, g) /\ live' = live \cup {b}
  <2>1. b \in Blocks /\ b \in OwnBlocks  BY <1>3, BlockTypes
  <2>2. f.objs = Stack(t, "decode_obj") /\ f.objs \notin OwnBlocks
    BY <1>1, <1>3, <1>4, BlockTypes, StacksAreNobodys DEF FrameOK, Holds, Top, Stacks
  <2>3. g \in Frames /\ g.pc = f.pc /\ g.input = f.input /\ g.objs = b /\ g.str = f.str
    BY <1>3, <2>1 DEF Frames
  <2>4. Becomes(t, g) /\ live' = live \cup {b}  BY <1>4
  <2> HIDE DEF g, b
  <2>5. Freed(g) = Freed(f) \cup {b}  BY <2>1, <2>2, <2>3 DEF Freed
  <2>6. StrOK(g, t, depth[t])  BY <1>2, <2>3 DEF StrOK
  <2>. QED  BY <1>1, <1>2, <2>3, <2>4, <2>5, <2>6, OwnGrows
<1>5. CASE Goes(t, "fail") /\ UNCHANGED <<live, written>>
  BY <1>1, <1>2, <1>5, GoesMem
<1>. QED  BY <1>4, <1>5 DEF Grow

LEMMA LeaveMem == ASSUME IInv, MemInv, NEW t \in Threads, ~Idle(t), stage = "loaded", Leave(t)
                  PROVE  MemInv'
<1>1. /\ Inhand(t) /\ UNCHANGED <<stage, keyOf, value>>
      /\ depth[t] \in Nat /\ depth[t] # 0 /\ depth[t] \in Depths
  BY InHandOK, DepthType DEF IInv, Leave, moduleVars, Idle, Inhand
<1>2. NoCall \in Frames  BY DEF NoCall, Frames, Pcs
<1>3. Becomes(t, NoCall) /\ live' = live \ Freed(Top(t))  BY DEF Leave
<1>4. LiveIs'
  <2>1. \A b : b \in live' <=> (b \in live /\ b \notin Freed(Top(t))) \/ b \in Freed(NoCall)
    BY <1>3, FreedNoCall
  <2> DEFINE g == NoCall
  <2>2. g \in Frames /\ Becomes(t, g) /\ value' = value
    BY <1>1, <1>2, <1>3
  <2>3. \A b : b \in live' <=> (b \in live /\ b \notin Freed(Top(t))) \/ b \in Freed(g)
    BY <2>1
  <2> HIDE DEF g
  <2>. QED  BY <1>1, <2>2, <2>3, OwnMoves
<1>5. ValuesAreOurs'  BY <1>1 DEF MemInv, ValuesAreOurs
<1>6. /\ frame'[t][depth[t]] = NoCall
      /\ \A u \in Threads : \A i \in Depths :
           <<u, i>> # <<t, depth[t]>> => frame'[u][i] = frame[u][i]
  BY <1>1, <1>2, <1>3, Effect
<1>7. depth'[t] = depth[t] - 1 /\ \A u \in Threads : u # t => depth'[u] = depth[u]
  BY DEF IInv, CallTypes, Leave
<1>8. ASSUME NEW u \in Threads, NEW i \in Depths
      PROVE  StrOK(frame[u][i], u, i)' /\ (i > depth'[u] => frame'[u][i] = NoCall)
  <2>1. CASE <<u, i>> = <<t, depth[t]>>
    BY <1>6, <2>1 DEF StrOK, NoCall
  <2>2. CASE <<u, i>> # <<t, depth[t]>>
    <3>1. frame'[u][i] = frame[u][i]  BY <1>6, <2>2
    <3>2. StrOK(frame[u][i], u, i)'  BY <3>1 DEF StrOK, MemInv, FramesHaveStr
    <3>3. i > depth'[u] => i > depth[u]
      BY <1>1, <1>7, <2>2, DepthType DEF IInv, Depths
    <3>. QED  BY <3>1, <3>2, <3>3 DEF MemInv, FramesHaveStr
  <2>. QED  BY <2>1, <2>2
<1>. QED  BY <1>1, <1>4, <1>5, <1>8 DEF MemInv, FramesHaveStr, Early

LEMMA CallMem == ASSUME IInv, MemInv, NEW t \in Threads, Call(t)
                 PROVE  MemInv'
<1> DEFINE New(c) == [NoCall EXCEPT !.pc = First(c), !.call = c]
<1>1. PICK c \in Calls : frame' = [frame EXCEPT ![t][depth[t] + 1] = New(c)]
  BY DEF Call
<1> DEFINE g == New(c)
<1>2. /\ stage = "loaded" /\ UNCHANGED <<stage, keyOf, value, live>>
      /\ depth[t] \in Nat /\ MaxDepth \in Nat /\ depth[t] < MaxDepth
  BY DepthType DEF IInv, Call, moduleVars
<1>3. depth[t] + 1 \in Depths  BY <1>2 DEF Depths
<1>4. g.input = NULL /\ g.objs = NULL /\ g.str = NULL  BY DEF NoCall
<1>5. Freed(g) = {}  BY <1>4, NotNull DEF Freed
<1> HIDE DEF New
<1>6. /\ frame'[t][depth[t] + 1] = g
      /\ \A u \in Threads : \A i \in Depths :
           <<u, i>> # <<t, depth[t] + 1>> => frame'[u][i] = frame[u][i]
  BY <1>1, <1>3 DEF IInv, CallTypes
<1>7. frame[t][depth[t] + 1] = NoCall
  <2>1. depth[t] + 1 > depth[t]  BY <1>2
  <2>. QED  BY <1>3, <2>1 DEF MemInv, FramesHaveStr
<1>8. depth'[t] = depth[t] + 1 /\ \A u \in Threads : u # t => depth'[u] = depth[u]
  BY DEF IInv, CallTypes, Call
<1>9. ASSUME NEW u \in Threads, NEW i \in Depths
      PROVE  Freed(frame[u][i])' = Freed(frame[u][i])
  <2>1. CASE <<u, i>> = <<t, depth[t] + 1>>
    <3>1. frame'[u][i] = g /\ frame[u][i] = NoCall  BY <1>6, <1>7, <2>1
    <3>. QED  BY <1>4, <3>1, FreedNoCall, NotNull DEF Freed
  <2>2. CASE <<u, i>> # <<t, depth[t] + 1>>
    BY <1>6, <2>2 DEF Freed
  <2>. QED  BY <2>1, <2>2
<1>10. LiveIs' /\ ValuesAreOurs'
  BY <1>2, <1>9 DEF MemInv, LiveIs, ValuesAreOurs
<1>11. ASSUME NEW u \in Threads, NEW i \in Depths
       PROVE  StrOK(frame[u][i], u, i)' /\ (i > depth'[u] => frame'[u][i] = NoCall)
  <2>1. CASE <<u, i>> = <<t, depth[t] + 1>>
    <3>1. frame'[u][i] = g /\ i = depth'[u]  BY <1>6, <1>8, <2>1
    <3>2. ~(i > depth'[u])  BY <1>2, <1>8, <2>1, <3>1
    <3>. QED  BY <1>4, <3>1, <3>2 DEF StrOK
  <2>2. CASE <<u, i>> # <<t, depth[t] + 1>>
    <3>1. frame'[u][i] = frame[u][i]  BY <1>6, <2>2
    <3>2. StrOK(frame[u][i], u, i)'  BY <3>1 DEF StrOK, MemInv, FramesHaveStr
    <3>3. i > depth'[u] => i > depth[u]
      BY <1>2, <1>8, DepthType DEF IInv, Depths
    <3>. QED  BY <3>1, <3>2, <3>3 DEF MemInv, FramesHaveStr
  <2>. QED  BY <2>1, <2>2
<1>. QED  BY <1>2, <1>10, <1>11 DEF MemInv, FramesHaveStr, Early

LEMMA ExitThreadMem == ASSUME IInv, LifeInv, MemInv, NEW t \in Threads, ExitThread(t)
                       PROVE  MemInv'
<1>1. /\ UNCHANGED <<stage, keyOf, depth, frame>>
      /\ stage \in {"loaded", "unloaded"}
      /\ live' = live \ {value[t][n] : n \in ours}
  BY DEF ExitThread, moduleVars
<1>2. FramesHaveStr'  BY <1>1 DEF MemInv, FramesHaveStr, StrOK
<1>3. CASE stage = "unloaded"
  BY <1>1, <1>2, <1>3 DEF MemInv, Early
<1>4. CASE stage = "loaded"
  <2>1. LiveIs /\ ValuesAreOurs /\ \A s \in Stacks : keyOf[s] \in ours
    BY <1>4 DEF MemInv, LifeInv
  <2>2. value \in [Threads -> [KeyNumbers -> StackBlocks \cup {NULL}]]
    BY DEF IInv, KeysInv
  <2>3. ASSUME NEW n \in KeyNumbers, n \notin ours PROVE value[t][n] = NULL
    BY <2>1, <2>3 DEF ValuesAreOurs
  <2>4. /\ \A n \in KeyNumbers : value'[t][n] = NULL
        /\ \A u \in Threads \ {t} : value'[u] = value[u]
    BY <2>2, <2>3 DEF ExitThread
  <2>5. ValuesAreOurs'
    BY <1>1, <2>1, <2>4 DEF ValuesAreOurs
  <2>6. ASSUME NEW b, NEW u \in Threads, NEW n \in KeyNumbers, b # NULL, b = value[u][n]
        PROVE  b \in StackBlocks /\ (b \in {value[t][k] : k \in ours} <=> u = t)
    <3>1. PICK s \in Stacks : n = keyOf[s] /\ b = Stack(u, s)
      BY <1>4, <2>1, <2>6, ValueNamed
    <3>2. ASSUME NEW k \in ours, b = value[t][k] PROVE u = t
      <4>1. k \in KeyNumbers  BY DEF LifeInv
      <4>2. PICK r \in Stacks : b = Stack(t, r)
        BY <1>4, <2>1, <2>6, <3>2, <4>1, ValueNamed
      <4>. QED  BY <3>1, <4>2 DEF Stack
    <3>3. u = t => b \in {value[t][k] : k \in ours}
      BY <2>1, <2>6, <3>1
    <3>. QED  BY <1>4, <2>1, <2>6, <3>2, <3>3, ValueNamed
  <2>7. ASSUME NEW b, NEW u \in Threads, NEW i \in Depths, b \in Freed(frame[u][i])
        PROVE  b \notin {value[t][k] : k \in ours}
    <3>1. b \in OwnBlocks /\ b # NULL  BY <2>7, OwnNamed, NotNull
    <3>2. \A k \in ours : value[t][k] \in StackBlocks \cup {NULL}
      BY <2>2 DEF LifeInv
    <3>. QED  BY <3>1, <3>2, StacksAreNobodys
  <2>8. ASSUME NEW b
        PROVE  b \in live' <=>
                 \/ b # NULL /\ \E u \in Threads, n \in KeyNumbers : b = value'[u][n]
                 \/ \E u \in Threads, i \in Depths : b \in Freed(frame[u][i])
    <3>1. b \in live <=>
            \/ b # NULL /\ \E u \in Threads, n \in KeyNumbers : b = value[u][n]
            \/ \E u \in Threads, i \in Depths : b \in Freed(frame[u][i])
      BY <2>1 DEF LiveIs
    <3>2. (b # NULL /\ \E u \in Threads, n \in KeyNumbers : b = value'[u][n]) <=>
            /\ b # NULL /\ \E u \in Threads, n \in KeyNumbers : b = value[u][n]
            /\ b \notin {value[t][k] : k \in ours}
      BY <2>4, <2>6
    <3>. QED  BY <1>1, <3>1, <3>2, <2>7
  <2>9. LiveIs'
    <3>1. \A u \in Threads, i \in Depths : Freed(frame[u][i])' = Freed(frame[u][i])
      BY <1>1 DEF Freed
    <3>. QED  BY <2>8, <3>1 DEF LiveIs
  <2>. QED  BY <1>1, <1>2, <1>4, <2>5, <2>9 DEF MemInv, Early
<1>. QED  BY <1>1, <1>3, <1>4

LEMMA UnloadMem == ASSUME IInv, MemInv, UnloadModule
                   PROVE  MemInv'
<1>1. /\ stage = "loaded" /\ stage' = "unloaded" /\ UNCHANGED <<depth, frame, live>>
      /\ \A t \in Threads : depth[t] = 0
  BY DEF UnloadModule, Unload, Idle
<1>2. FramesHaveStr'  BY <1>1 DEF MemInv, FramesHaveStr, StrOK
<1>3. \A t \in Threads, i \in Depths : Freed(frame[t][i]) = {}
  <2>1. \A i \in Depths : i > 0  BY DEF Depths
  <2>. QED  BY <1>1, <2>1, FreedNoCall DEF MemInv, FramesHaveStr
<1>4. live \subseteq StackBlocks
  BY <1>1, <1>3, ValueNamed DEF MemInv, LiveIs
<1>. QED  BY <1>1, <1>2, <1>4 DEF MemInv, Early

LEMMA UndefinedMem == ASSUME MemInv, stage' = "undefined", UNCHANGED callVars
                      PROVE  MemInv'
  BY DEF MemInv, FramesHaveStr, StrOK, callVars, Early

LEMMA StaysMem == ASSUME MemInv, UNCHANGED <<stage, keyOf, callVars>>
                  PROVE  MemInv'
<1>1. FramesHaveStr'  BY DEF MemInv, FramesHaveStr, StrOK, callVars
<1>2. LiveIs' <=> LiveIs  BY DEF LiveIs, Freed, callVars
<1>3. ValuesAreOurs' <=> ValuesAreOurs  BY DEF ValuesAreOurs, callVars
<1>4. (\A t \in Threads : Idle(t))' <=> \A t \in Threads : Idle(t)
  BY DEF Idle, callVars
<1>. QED  BY <1>1, <1>2, <1>3, <1>4 DEF MemInv, callVars

LEMMA ImportMem == ASSUME IInv, MemInv, Import, UNCHANGED callVars
                   PROVE  MemInv'
<1>1. stage \in Early /\ stage' \in Early \cup {"loaded", "undefined"}
  BY DEF Import, CreateModule, AddDecodeError, AddEncodeError, InitTls, Added, NotAdded, Early
<1>2. live = {} /\ \A t \in Threads : depth[t] = 0
  BY <1>1 DEF MemInv, Idle
<1>3. FramesHaveStr'  BY DEF MemInv, FramesHaveStr, StrOK, callVars
<1>4. \A t \in Threads, n \in KeyNumbers : value'[t][n] = NULL
  BY <1>1 DEF IInv, KeysInv, callVars
<1>5. \A t \in Threads, i \in Depths : Freed(frame[t][i])' = {}
  <2>1. \A i \in Depths : i > 0  BY DEF Depths
  <2>2. \A t \in Threads, i \in Depths : frame'[t][i] = NoCall
    BY <1>2, <2>1 DEF MemInv, FramesHaveStr, callVars
  <2>. QED  BY <2>2, FreedNoCall DEF Freed
<1>6. LiveIs'  BY <1>2, <1>4, <1>5 DEF LiveIs, callVars
<1>7. ValuesAreOurs'  BY <1>4 DEF ValuesAreOurs
<1>8. (\A t \in Threads : Idle(t))'  BY <1>2 DEF Idle, callVars
<1>. QED  BY <1>1, <1>2, <1>3, <1>6, <1>7, <1>8 DEF MemInv, Early, callVars

-----------------------------------------------------------------------------
\* The invariant.

AllInv == IInv /\ LifeInv /\ MemInv

LEMMA MemInit == Init => MemInv
<1> SUFFICES ASSUME Init PROVE MemInv
  OBVIOUS
<1>1. FramesHaveStr  BY DEF Init, FramesHaveStr, StrOK, NoCall
<1>. QED  BY <1>1 DEF Init, ModuleInit, MemInv, Early, Idle

LEMMA MemNext == AllInv /\ [Next]_vars => MemInv'
<1> SUFFICES ASSUME AllInv, [Next]_vars PROVE MemInv'
  OBVIOUS
<1> USE DEF AllInv
<1>1. ASSUME NEW t \in Threads, Step(t) PROVE MemInv'
  <2>1. CASE Return(t)
    BY <2>1, LeaveMem DEF Return, At
  <2>2. CASE CleanUpWild(t)
    BY <2>2, LeaveMem, UndefinedMem DEF CleanUpWild, At
  <2>3. CASE NoString(t)
    <3>1. CASE stage' = "undefined" /\ UNCHANGED frame
      BY <2>3, <3>1, UndefinedMem DEF NoString, callVars
    <3>2. CASE Goes(t, "fail") /\ UNCHANGED stage
      <4>1. /\ ~Idle(t) /\ stage = "loaded"
            /\ UNCHANGED <<keyOf, depth, value, live>>
        BY <2>3 DEF NoString, At
      <4>. QED  BY <3>2, <4>1, InHandOK, GoesMem
    <3>. QED  BY <2>3, <3>1, <3>2 DEF NoString
  <2>. QED  BY <1>1, <2>1, <2>2, <2>3, CallMem, CopyInputMem, StacksMem,
               ReserveStringMem, GrowMem, PauseMem, ExitThreadMem
            DEF Step
<1>2. CASE OthersMakeKey /\ UNCHANGED callVars
  BY <1>2, StaysMem DEF OthersMakeKey
<1>3. CASE UNCHANGED vars
  BY <1>3, StaysMem DEF vars, moduleVars
<1>. QED  BY <1>1, <1>2, <1>3, ImportMem, UnloadMem DEF Next

(***************************************************************************)
(* However many threads call, whatever allocation fails and whenever the   *)
(* keys cannot be set: a block is live exactly as long as a thread's key   *)
(* or a call in progress has it, and only stacks outlive the module.       *)
(***************************************************************************)
THEOREM MemoryIsKept == Spec => []NothingLeaks
<1>1. AllInv => NothingLeaks
  <2>1. SUFFICES ASSUME AllInv, stage = "loaded"
                 PROVE  live = Held \cup UNION {OwnOf(t) : t \in Threads}
    BY DEF NothingLeaks, AllInv, MemInv
  <2>2. LiveIs  BY <2>1 DEF AllInv, MemInv
  <2>3. \A b : b \in Held <=>
          b # NULL /\ \E t \in Threads, n \in KeyNumbers : b = value[t][n]
    BY DEF Held
  <2>4. \A b : b \in UNION {OwnOf(t) : t \in Threads} <=>
          \E t \in Threads, i \in Depths : b \in Freed(frame[t][i])
    BY DEF OwnOf
  <2>. QED  BY <2>2, <2>3, <2>4 DEF LiveIs
<1>2. Init => AllInv  BY InitOK, LifeInit, MemInit DEF AllInv
<1>3. AllInv /\ [Next]_vars => AllInv'  BY NextOK, LifeNext, MemNext DEF AllInv
<1>. QED  BY <1>1, <1>2, <1>3, PTL DEF Spec

-----------------------------------------------------------------------------
(* The key cache and the dicts made with it.                               *)

HeapString == [text : Keys, refs : Int]
AnyValue == Values \cup {NoValue}
Pair(n) == [key : 1 .. n, val : AnyValue]
Spelling == [text : Keys, val : AnyValue]
Dict(n) == [entries : SUBSET Pair(n), spelled : SUBSET Spelling]

Types ==
  /\ heap \in Seq(HeapString) /\ 1 \in Strings /\ heap[1].text = Empty
  /\ cache \in [Slots -> 0 .. Len(heap)]
  /\ pairs \in Seq(Pair(Len(heap))) /\ read \in Seq(Spelling) /\ Len(read) = Len(pairs)
  /\ dicts \in Seq(Dict(Len(heap)))

PairsAreRead ==
  \A i \in 1 .. Len(pairs) :
    read[i] = [text |-> heap[pairs[i].key].text, val |-> pairs[i].val]

TextInv == Types /\ PairsAreRead /\ DictIsSpelled

-----------------------------------------------------------------------------
(* Steps that keep the texts.                                              *)

HeapKept ==
  /\ heap' \in Seq(HeapString)
  /\ Len(heap') >= Len(heap)
  /\ \A str \in Strings : heap'[str].text = heap[str].text

LEMMA DroppedKeeps ==
  ASSUME Types, NEW h \in Seq(HeapString), Len(h) = Len(heap),
         NEW drop, \A str \in Strings : drop[str] \in Int
  PROVE  /\ Dropped(h, drop) \in Seq(HeapString)
         /\ Len(Dropped(h, drop)) = Len(heap)
         /\ \A str \in Strings : /\ Dropped(h, drop)[str].text = h[str].text
                                 /\ Dropped(h, drop)[str].refs = h[str].refs - drop[str]
<1>. DEFINE g == Dropped(h, drop)
<1>1. Len(heap) \in Nat /\ Strings = 1 .. Len(heap)  BY DEF Types, Strings
<1>2. \A str \in Strings : h[str] \in HeapString  BY <1>1
<1>3. \A str \in Strings : /\ [h[str] EXCEPT !.refs = @ - drop[str]] \in HeapString
                           /\ [h[str] EXCEPT !.refs = @ - drop[str]].text = h[str].text
                           /\ [h[str] EXCEPT !.refs = @ - drop[str]].refs = h[str].refs - drop[str]
  BY <1>2 DEF HeapString
<1>4. g = [str \in Strings |-> [h[str] EXCEPT !.refs = @ - drop[str]]]  BY DEF Dropped
<1>5. g \in [1 .. Len(heap) -> HeapString]  BY <1>1, <1>3, <1>4
<1>6. g \in Seq(HeapString) /\ Len(g) = Len(heap)  BY <1>1, <1>5
<1>. QED  BY <1>3, <1>4, <1>6

\* How often a string is a key is a number.
LEMMA TimesFinite ==
  ASSUME Types, NEW ps, ps \subseteq 1 .. Len(pairs), NEW str
  PROVE  /\ IsFiniteSet(ps)
         /\ IsFiniteSet({i \in ps : pairs[i].key = str})
         /\ Times(str, ps) \in Nat
<1>1. Len(pairs) \in Int /\ 1 \in Int  BY DEF Types
<1>2. IsFiniteSet(1 .. Len(pairs))  BY <1>1, FS_Interval
<1>3. IsFiniteSet(ps)  BY <1>2, FS_Subset
<1>4. {i \in ps : pairs[i].key = str} \in SUBSET ps  OBVIOUS
<1>5. IsFiniteSet({i \in ps : pairs[i].key = str})  BY <1>3, <1>4, FS_Subset
<1>. QED  BY <1>3, <1>5, FS_CardinalityType DEF Times

\* A key is counted once in each of two sets of pairs.
LEMMA TimesAdd ==
  ASSUME Types, NEW ps, NEW qs, ps \subseteq 1 .. Len(pairs),
         qs \subseteq 1 .. Len(pairs), ps \cap qs = {}, NEW str
  PROVE  Times(str, ps \cup qs) = Times(str, ps) + Times(str, qs)
<1>. DEFINE P == {i \in ps : pairs[i].key = str}
            Q == {i \in qs : pairs[i].key = str}
<1>1. IsFiniteSet(P) /\ IsFiniteSet(Q) /\ Times(str, ps) \in Nat /\ Times(str, qs) \in Nat
  BY TimesFinite
<1>2. P \cap Q = {}  OBVIOUS
<1>3. {i \in ps \cup qs : pairs[i].key = str} = P \cup Q  OBVIOUS
<1>4. Cardinality(P \cup Q) = Cardinality(P) + Cardinality(Q) - Cardinality(P \cap Q)
  BY <1>1, FS_Union
<1>5. Cardinality({}) = 0  BY FS_EmptySet
<1>6. Times(str, ps) = Cardinality(P) /\ Times(str, qs) = Cardinality(Q)  BY DEF Times
<1>7. Times(str, ps \cup qs) = Cardinality(P \cup Q)  BY <1>3 DEF Times
<1>. HIDE DEF P, Q
<1>8. Cardinality(P \cap Q) = 0  BY <1>2, <1>5, Zenon
<1>. QED  BY <1>1, <1>4, <1>6, <1>7, <1>8

\* Where the heap keeps its texts, dicts stay as they are spelled.
LEMMA DictsKept ==
  ASSUME Types, DictIsSpelled, HeapKept, UNCHANGED dicts
  PROVE  DictIsSpelled' /\ dicts' \in Seq(Dict(Len(heap')))
<1>1. Len(heap) \in Nat /\ Len(heap') \in Nat /\ 1 .. Len(heap) \subseteq 1 .. Len(heap')
  BY DEF Types, HeapKept
<1>2. Pair(Len(heap)) \subseteq Pair(Len(heap'))  BY <1>1 DEF Pair
<1>3. \A d \in 1 .. Len(dicts) : \A e \in dicts[d].entries :
        heap'[e.key].text = heap[e.key].text
  <2>. TAKE d \in 1 .. Len(dicts)
  <2>1. dicts[d] \in Dict(Len(heap))  BY DEF Types
  <2>2. dicts[d].entries \subseteq Pair(Len(heap))  BY <2>1 DEF Dict
  <2>. QED  BY <2>2 DEF HeapKept, Pair, Strings
<1>4. DictIsSpelled'  BY <1>3 DEF DictIsSpelled
<1>5. Dict(Len(heap)) \subseteq Dict(Len(heap'))  BY <1>2 DEF Dict
<1>. QED  BY <1>4, <1>5 DEF Types

-----------------------------------------------------------------------------
(* Reading a key.                                                          *)

LEMMA SlotType == ASSUME NEW k \in Keys PROVE Slot(k) \in Slots
<1>1. Hash[k.bytes] \in Nat /\ CacheSize \in Nat /\ CacheSize > 0
  BY KeyAssumption, CacheAssumption
<1>. QED  BY <1>1 DEF Slot, Slots

\* A string that the cache takes for a text has it.
LEMMA HitIsText ==
  ASSUME Types, NEW k \in Keys, NEW str \in Strings, Hit(k, str)
  PROVE  heap[str].text = k
<1>0. heap[str] \in HeapString  BY DEF Types, Strings
<1>1. heap[str].text \in Keys  BY <1>0 DEF HeapString
<1>2. heap[str].text = [bytes |-> k.bytes, size |-> k.size, kind |-> k.kind, ascii |-> k.ascii]
  BY <1>1, KeyAssumption DEF Hit
<1>. QED  BY <1>2, KeyAssumption

LEMMA WithRefsKeeps ==
  ASSUME Types, NEW k \in Keys, NEW n \in Int, NEW str,
         str = Len(heap) + 1 \/ (str \in Strings /\ heap[str].text = k)
  PROVE  LET h == WithRefs(str, n, k)
         IN /\ h \in Seq(HeapString) /\ Len(h) >= Len(heap)
            /\ str \in 1 .. Len(h) /\ h[str].text = k
            /\ \A x \in Strings : /\ h[x].text = heap[x].text
                                  /\ h[x].refs = heap[x].refs + (IF x = str THEN n ELSE 0)
            /\ \A x \in 1 .. Len(h) : x \notin Strings => x = str /\ h[x].refs = n
<1>. DEFINE h == WithRefs(str, n, k)
<1>1. Len(heap) \in Nat /\ Strings = 1 .. Len(heap)  BY DEF Types, Strings
<1>2. \A x \in Strings : heap[x] \in HeapString  BY <1>1 DEF Types
<1>3. CASE str \in Strings
  <2>1. h = [heap EXCEPT ![str].refs = @ + n]  BY <1>3 DEF WithRefs
  <2>2. heap \in Seq(HeapString)  BY DEF Types
  <2>3. [heap[str] EXCEPT !.refs = @ + n] \in HeapString
    BY <1>2, <1>3 DEF HeapString
  <2>4. [heap[str] EXCEPT !.refs = @ + n].text = heap[str].text
        /\ [heap[str] EXCEPT !.refs = @ + n].refs = heap[str].refs + n
    BY <1>2, <1>3 DEF HeapString
  <2>5. h = [heap EXCEPT ![str] = [heap[str] EXCEPT !.refs = @ + n]]  BY <2>1
  <2>6. h \in Seq(HeapString) /\ Len(h) = Len(heap)  BY <1>1, <1>3, <2>2, <2>3, <2>5
  <2>7. h[str] = [heap[str] EXCEPT !.refs = @ + n]
        /\ \A x \in Strings \ {str} : h[x] = heap[x]
    BY <1>1, <1>3, <2>2, <2>5
  <2>8. \A x \in Strings : heap[x].refs \in Int  BY <1>2 DEF HeapString
  <2>. HIDE DEF h
  <2>9. str = Len(heap) + 1 => FALSE  BY <1>1, <1>3
  <2>10. h[str].text = k  BY <2>4, <2>7, <2>9
  <2>11. \A x \in Strings : /\ h[x].text = heap[x].text
                            /\ h[x].refs = heap[x].refs + (IF x = str THEN n ELSE 0)
    <3>1. h[str].text = heap[str].text /\ h[str].refs = heap[str].refs + n  BY <2>4, <2>7, Zenon
    <3>. TAKE x \in Strings
    <3>2. CASE x = str  BY <3>1, <3>2
    <3>3. CASE x # str
      <4>1. h[x] = heap[x] /\ heap[x].refs \in Int  BY <2>7, <2>8, <3>3
      <4>. QED  BY <3>3, <4>1
    <3>. QED  BY <3>2, <3>3
  <2>. QED  BY <1>1, <1>3, <2>6, <2>10, <2>11 DEF h
<1>4. CASE str \notin Strings
  <2>1. h = Append(heap, [text |-> k, refs |-> n]) /\ str = Len(heap) + 1  BY <1>4 DEF WithRefs
  <2>2. [text |-> k, refs |-> n] \in HeapString  BY DEF HeapString
  <2>3. heap \in Seq(HeapString)  BY DEF Types
  <2>4. h \in Seq(HeapString) /\ Len(h) = Len(heap) + 1 /\ h[str] = [text |-> k, refs |-> n]
        /\ \A x \in Strings : h[x] = heap[x]
    BY <1>1, <2>1, <2>2, <2>3
  <2>5. \A x \in Strings : heap[x].refs \in Int  BY <1>2 DEF HeapString
  <2>. QED  BY <1>1, <1>4, <2>1, <2>4, <2>5
<1>. QED  BY <1>3, <1>4

\* The heap h has n references more to the string str of text k.
RefsGiven(h, str, n, k) ==
  /\ h \in Seq(HeapString) /\ Len(h) >= Len(heap)
  /\ str \in 1 .. Len(h) /\ h[str].text = k
  /\ \A x \in Strings : /\ h[x].text = heap[x].text
                        /\ h[x].refs = heap[x].refs + (IF x = str THEN n ELSE 0)
  /\ \A x \in 1 .. Len(h) : x \notin Strings => x = str /\ h[x].refs = n

LEMMA WithRefsGives ==
  ASSUME Types, NEW k \in Keys, NEW n \in Int, NEW str,
         str = Len(heap) + 1 \/ (str \in Strings /\ heap[str].text = k)
  PROVE  RefsGiven(WithRefs(str, n, k), str, n, k)
  BY WithRefsKeeps DEF RefsGiven

LEMMA NewStringType ==
  ASSUME Types, NEW k \in Keys
  PROVE  NewString(k) = Len(heap) + 1 \/ (NewString(k) \in Strings /\ heap[NewString(k)].text = k)
  BY DEF Types, NewString, Strings

\* The string for a text, in the heap that has it.
LEMMA MakeKeyKeeps ==
  ASSUME Types, NEW k \in Keys, NEW path, NEW str, MakeKey(k, path, str)
  PROVE  /\ HeapKept
         /\ str \in 1 .. Len(heap') /\ heap'[str].text = k
         /\ cache' \in [Slots -> 0 .. Len(heap')]
<1>. DEFINE old == cache[Slot(k)]
            hit == MayCache(k, path) /\ old # 0 /\ Hit(k, old)
<1>1. Len(heap) \in Nat /\ Strings = 1 .. Len(heap)  BY DEF Types, Strings
<1>2. old \in 0 .. Len(heap)  BY SlotType DEF Types
<1>3. cache \in [Slots -> 0 .. Len(heap)] /\ Slot(k) \in Slots  BY SlotType DEF Types
<1>4. CASE hit /\ str = old /\ heap' = WithRefs(str, 1, k) /\ UNCHANGED <<cache, freed>>
  <2>1. str \in Strings /\ heap[str].text = k  BY <1>1, <1>2, <1>4, HitIsText
  <2>. QED  BY <1>1, <1>3, <1>4, <2>1, WithRefsKeeps DEF HeapKept
<1>5. CASE str = NewString(k) /\ Cached(str, k, old)
  <2>. DEFINE h == WithRefs(str, 2, k)
  <2>1. str = Len(heap) + 1 \/ (str \in Strings /\ heap[str].text = k)  BY <1>5, NewStringType
  <2>2. /\ h \in Seq(HeapString) /\ Len(h) >= Len(heap)
        /\ str \in 1 .. Len(h) /\ h[str].text = k
        /\ \A x \in Strings : h[x].text = heap[x].text
    <3>1. 2 \in Int  OBVIOUS
    <3>2. RefsGiven(h, str, 2, k)  BY <2>1, <3>1, WithRefsGives
    <3>. HIDE DEF h
    <3>. QED  BY <3>2 DEF RefsGiven
  <2>3. cache' = [cache EXCEPT ![Slot(k)] = str]  BY <1>5 DEF Cached
  <2>4. heap' = IF old = 0 THEN h ELSE [h EXCEPT ![old].refs = @ - 1]  BY <1>5 DEF Cached
  <2>. HIDE DEF h
  <2>5. CASE old = 0
    <3>1. heap' = h  BY <2>4, <2>5
    <3>. QED  BY <1>1, <1>3, <2>2, <2>3, <3>1 DEF HeapKept
  <2>6. CASE old # 0
    <3>1. old \in 1 .. Len(h)  BY <1>1, <1>2, <2>2, <2>6
    <3>2. h[old] \in HeapString  BY <2>2, <3>1
    <3>3. [h[old] EXCEPT !.refs = @ - 1] \in HeapString
          /\ [h[old] EXCEPT !.refs = @ - 1].text = h[old].text
      BY <3>2 DEF HeapString
    <3>4. heap' = [h EXCEPT ![old] = [h[old] EXCEPT !.refs = @ - 1]]  BY <2>4, <2>6
    <3>. HIDE DEF old
    <3>5. heap' \in Seq(HeapString) /\ Len(heap') = Len(h)  BY <2>2, <3>1, <3>3, <3>4
    <3>6. \A x \in 1 .. Len(h) : heap'[x].text = h[x].text  BY <2>2, <3>1, <3>3, <3>4
    <3>. QED  BY <1>1, <1>3, <2>2, <2>3, <3>5, <3>6 DEF HeapKept
  <2>. QED  BY <2>5, <2>6
<1>6. CASE str = NewString(k) /\ heap' = WithRefs(str, 1, k) /\ UNCHANGED <<cache, freed>>
  <2>1. str = Len(heap) + 1 \/ (str \in Strings /\ heap[str].text = k)  BY <1>6, NewStringType
  <2>. QED  BY <1>1, <1>3, <1>6, <2>1, WithRefsKeeps DEF HeapKept
<1>. QED  BY <1>4, <1>5, <1>6 DEF MakeKey

-----------------------------------------------------------------------------
(* The dict of the pairs is what they spell.                               *)

LEMMA LeastExists ==
  ASSUME NEW S, S \subseteq Nat, S # {}
  PROVE  \E x \in S : \A y \in S : x <= y
<1>1. \E x \in S : \A y \in S : <<y, x>> \notin OpToRel(<, Nat)
  BY NatLessThanWellFounded, WFMin
<1>2. PICK x \in S : \A y \in S : <<y, x>> \notin OpToRel(<, Nat)  BY <1>1
<1>3. \A y \in S : ~ y < x  BY <1>2 DEF OpToRel
<1>. QED  BY <1>3

LEMMA GreatestExists ==
  ASSUME NEW n \in Nat, NEW S, S \subseteq 1 .. n, S # {}
  PROVE  \E x \in S : \A y \in S : y <= x
<1>. DEFINE R == {n - x : x \in S}
<1>0. \A x \in S : x \in 1 .. n /\ n - x \in Nat  OBVIOUS
<1>1. R \subseteq Nat /\ R # {}  BY <1>0
<1>2. PICK r \in R : \A q \in R : r <= q  BY <1>1, LeastExists
<1>3. PICK x \in S : r = n - x  OBVIOUS
<1>4. \A y \in S : n - x <= n - y  BY <1>2, <1>3
<1>. QED  BY <1>4

\* The last of the first n pairs with the key of pair i.
Last(n, i) == CHOOSE l \in 1 .. n : SameText(i, l) /\ \A m \in l + 1 .. n : ~SameText(i, m)

LEMMA LastIs ==
  ASSUME Types, NEW i \in 1 .. Len(pairs)
  PROVE  /\ Last(Len(pairs), i) \in 1 .. Len(pairs)
         /\ SameText(i, Last(Len(pairs), i))
         /\ \A m \in Last(Len(pairs), i) + 1 .. Len(pairs) : ~SameText(i, m)
<1>. DEFINE n == Len(pairs)
            S == {l \in 1 .. n : SameText(i, l)}
<1>1. n \in Nat  BY DEF Types
<1>2. i \in S  BY DEF SameText
<1>3. PICK l \in S : \A y \in S : y <= l  BY <1>1, <1>2, GreatestExists
<1>4. l \in 1 .. n /\ SameText(i, l)  OBVIOUS
<1>5. \A m \in l + 1 .. n : ~SameText(i, m)
  <2>. SUFFICES ASSUME NEW m \in l + 1 .. n, SameText(i, m) PROVE FALSE
    OBVIOUS
  <2>1. m \in S /\ m > l  BY <1>1, <1>4
  <2>. QED  BY <1>1, <1>3, <1>4, <2>1
<1>. QED  BY <1>4, <1>5 DEF Last

\* The first pair with the key of pair i.
LEMMA FirstIs ==
  ASSUME Types, NEW i \in 1 .. Len(pairs)
  PROVE  \E f \in 1 .. Len(pairs) : SameText(i, f) /\ ~Repeats(f)
<1>. DEFINE n == Len(pairs)
            S == {l \in 1 .. n : SameText(i, l)}
<1>1. n \in Nat  BY DEF Types
<1>2. i \in S /\ S \subseteq Nat  BY <1>1 DEF SameText
<1>3. PICK f \in S : \A y \in S : f <= y  BY <1>2, LeastExists
<1>4. ~Repeats(f)
  <2>. SUFFICES ASSUME NEW j \in 1 .. f - 1, SameText(f, j) PROVE FALSE
    BY DEF Repeats
  <2>1. j \in S /\ j < f  BY <1>1, <1>3 DEF SameText
  <2>. QED  BY <1>1, <1>3, <2>1
<1>. QED  BY <1>4

LEMMA DictOfIs ==
  DictOf(Len(pairs)) =
    {[key |-> pairs[i].key, val |-> pairs[Last(Len(pairs), i)].val] :
       i \in {j \in 1 .. Len(pairs) : ~Repeats(j)}}
  BY DEF DictOf, Last

LEMMA PairType ==
  ASSUME Types, NEW i \in 1 .. Len(pairs)
  PROVE  pairs[i] \in Pair(Len(heap)) /\ pairs[i].key \in Strings /\ pairs[i].val \in AnyValue
<1>1. pairs[i] \in Pair(Len(heap))  BY DEF Types
<1>. QED  BY <1>1 DEF Pair, Strings

LEMMA ReadIs ==
  ASSUME TextInv, NEW i \in 1 .. Len(pairs)
  PROVE  /\ i \in 1 .. Len(read)
         /\ read[i].text = heap[pairs[i].key].text
         /\ read[i].val = pairs[i].val
         /\ read[i] \in Spelling
<1>1. Types /\ Len(read) = Len(pairs)  BY DEF TextInv, Types
<1>2. read[i] = [text |-> heap[pairs[i].key].text, val |-> pairs[i].val]
  BY DEF TextInv, PairsAreRead
<1>3. read \in Seq(Spelling)  BY DEF TextInv, Types
<1>. QED  BY <1>1, <1>2, <1>3

LEMMA DictIsSpelling ==
  ASSUME TextInv
  PROVE  LET es == DictOf(Len(pairs))
         IN /\ es \subseteq Pair(Len(heap))
            /\ {[text |-> heap[e.key].text, val |-> e.val] : e \in es} = Spelled
            /\ \A e, f \in es : heap[e.key].text = heap[f.key].text => e = f
            /\ Spelled \subseteq Spelling
<1>. DEFINE n == Len(pairs)
            es == DictOf(n)
            Firsts == {j \in 1 .. n : ~Repeats(j)}
            Lasts == {j \in 1 .. n : \A l \in j + 1 .. n : ~SameText(j, l)}
            entry(i) == [key |-> pairs[i].key, val |-> pairs[Last(n, i)].val]
<1>1. n \in Nat /\ Types /\ Len(read) = n  BY DEF TextInv, Types
<1>2. es = {entry(i) : i \in Firsts}  BY DictOfIs
<1>3. Spelled = {[text |-> heap[pairs[i].key].text, val |-> pairs[i].val] : i \in Lasts}
  <2>1. \A j, l \in 1 .. n : SameText(j, l) <=> read[l].text = read[j].text
    BY ReadIs DEF SameText
  <2>2. Lasts = {j \in 1 .. Len(read) : \A l \in j + 1 .. Len(read) : read[l].text # read[j].text}
    BY <1>1, <2>1
  <2>3. Spelled = {[text |-> read[i].text, val |-> read[i].val] : i \in Lasts}
    BY <2>2 DEF Spelled
  <2>4. \A i \in Lasts : read[i].text = heap[pairs[i].key].text /\ read[i].val = pairs[i].val
    BY ReadIs
  <2>. QED  BY <2>3, <2>4
<1>4. es \subseteq Pair(Len(heap))
  <2>. SUFFICES ASSUME NEW i \in Firsts PROVE entry(i) \in Pair(Len(heap))
    BY <1>2
  <2>1. Last(n, i) \in 1 .. n  BY <1>1, LastIs
  <2>. QED  BY <1>1, <2>1, PairType DEF Pair, Strings
<1>5. \A i, j \in Firsts : SameText(i, j) => i = j
  <2>. SUFFICES ASSUME NEW i \in Firsts, NEW j \in Firsts, SameText(i, j), i < j PROVE FALSE
    BY <1>1 DEF SameText
  <2>1. i \in 1 .. j - 1 /\ SameText(j, i)  BY <1>1 DEF SameText
  <2>. QED  BY <2>1 DEF Repeats
<1>6. \A i \in Firsts : entry(i).key = pairs[i].key /\ entry(i).val = pairs[Last(n, i)].val
  OBVIOUS
<1>7. \A e, f \in es : heap[e.key].text = heap[f.key].text => e = f
  <2>. SUFFICES ASSUME NEW i \in Firsts, NEW j \in Firsts,
                       heap[entry(i).key].text = heap[entry(j).key].text
                PROVE  entry(i) = entry(j)
    BY <1>2
  <2>1. SameText(i, j)  BY <1>6 DEF SameText
  <2>. QED  BY <1>5, <2>1
<1>8. \A i \in Firsts : Last(n, i) \in Lasts /\ heap[pairs[Last(n, i)].key].text = heap[pairs[i].key].text
  BY <1>1, LastIs DEF SameText
<1>9. \A j \in Lasts : \E i \in Firsts : SameText(i, j) /\ Last(n, i) = j
  <2>. TAKE j \in Lasts
  <2>1. PICK i \in Firsts : SameText(j, i)  BY <1>1, FirstIs
  <2>2. Last(n, i) \in Lasts /\ SameText(i, Last(n, i)) /\ SameText(i, j)
    BY <1>1, <1>8, <2>1, LastIs DEF SameText
  <2>3. SameText(j, Last(n, i)) /\ SameText(Last(n, i), j)  BY <2>2 DEF SameText
  <2>4. j \in 1 .. n /\ Last(n, i) \in 1 .. n  BY <2>2
  <2>5. j \notin Last(n, i) + 1 .. n /\ Last(n, i) \notin j + 1 .. n  BY <2>2, <2>3
  <2>. QED  BY <1>1, <2>2, <2>4, <2>5
<1>10. {[text |-> heap[e.key].text, val |-> e.val] : e \in es} = Spelled
  <2>1. {[text |-> heap[e.key].text, val |-> e.val] : e \in es}
          = {[text |-> heap[pairs[i].key].text, val |-> pairs[Last(n, i)].val] : i \in Firsts}
    <3>1. es = {entry(i) : i \in Firsts}  BY <1>2
    <3>. HIDE DEF es
    <3>2. {[text |-> heap[e.key].text, val |-> e.val] : e \in es}
            = {[text |-> heap[entry(i).key].text, val |-> entry(i).val] : i \in Firsts}
      BY <3>1
    <3>. QED  BY <3>2
  <2>2. \A i \in Firsts : [text |-> heap[pairs[i].key].text, val |-> pairs[Last(n, i)].val] \in Spelled
    BY <1>3, <1>8
  <2>3. \A j \in Lasts : \E i \in Firsts :
          [text |-> heap[pairs[j].key].text, val |-> pairs[j].val]
            = [text |-> heap[pairs[i].key].text, val |-> pairs[Last(n, i)].val]
    BY <1>9 DEF SameText
  <2>. HIDE DEF Firsts, Lasts, es
  <2>. QED  BY <1>3, <2>1, <2>2, <2>3
<1>11. Spelled \subseteq Spelling
  <2>1. \A i \in 1 .. Len(read) : [text |-> read[i].text, val |-> read[i].val] \in Spelling
    BY <1>1, ReadIs DEF Spelling
  <2>. QED  BY <2>1 DEF Spelled
<1>. QED  BY <1>4, <1>7, <1>10, <1>11

-----------------------------------------------------------------------------
(* Every step keeps the texts.                                             *)

LEMMA ReleasedIs ==
  ASSUME Types, NEW n \in Int, n <= Len(pairs)
  PROVE  \A str \in Strings : /\ Released(n)[str] = Times(str, {i \in 1 .. n : Repeats(i)})
                              /\ Released(n)[str] \in Nat
<1>1. {i \in 1 .. n : Repeats(i)} \subseteq 1 .. Len(pairs)  BY DEF Types
<1>. QED  BY <1>1, TimesFinite DEF Released

LEMMA ReleasedInt ==
  ASSUME Types, NEW n \in Int, n <= Len(pairs), NEW str \in Strings
  PROVE  Released(n)[str] \in Int
<1>1. Released(n)[str] \in Nat  BY ReleasedIs
<1>. HIDE DEF Released
<1>. QED  BY <1>1

\* A dict has at most one reference to a string.
LEMMA HeldByDict ==
  ASSUME DictIsSpelled, NEW d \in 1 .. Len(dicts), NEW str
  PROVE  Cardinality({e \in dicts[d].entries : e.key = str}) =
           IF \E e \in dicts[d].entries : e.key = str THEN 1 ELSE 0
<1>. DEFINE E == {e \in dicts[d].entries : e.key = str}
<1>1. CASE \E e \in dicts[d].entries : e.key = str
  <2>1. PICK e \in dicts[d].entries : e.key = str  BY <1>1
  <2>2. \A f \in E : f = e  BY <2>1 DEF DictIsSpelled
  <2>3. E = {e}  BY <2>1, <2>2
  <2>. QED  BY <1>1, <2>3, FS_Singleton
<1>2. CASE ~ \E e \in dicts[d].entries : e.key = str
  <2>1. E = {}  BY <1>2
  <2>. QED  BY <1>2, <2>1, FS_EmptySet
<1>. QED  BY <1>1, <1>2

LEMMA SlotsFinite ==
  ASSUME NEW P, P \subseteq Slots PROVE IsFiniteSet(P) /\ Cardinality(P) \in Nat
<1>1. 0 \in Int /\ CacheSize - 1 \in Int  BY CacheAssumption
<1>2. IsFiniteSet(Slots)  BY <1>1, FS_Interval DEF Slots
<1>3. IsFiniteSet(P)  BY <1>2, FS_Subset
<1>. QED  BY <1>3, FS_CardinalityType

LEMMA DropKeeps ==
  ASSUME Types, NEW h \in Seq(HeapString), Len(h) = Len(heap),
         \A str \in Strings : h[str].text = heap[str].text,
         NEW drop, \A str \in Strings : drop[str] \in Int,
         heap' = Dropped(h, drop)
  PROVE  HeapKept
<1>1. /\ Dropped(h, drop) \in Seq(HeapString)
      /\ Len(Dropped(h, drop)) = Len(heap)
      /\ \A str \in Strings : Dropped(h, drop)[str].text = h[str].text
  BY DroppedKeeps
<1>2. Len(heap) \in Nat  BY DEF Types
<1>. QED  BY <1>1, <1>2 DEF HeapKept

LEMMA DropHeapKeeps ==
  ASSUME Types, NEW drop, \A str \in Strings : drop[str] \in Int,
         heap' = Dropped(heap, drop)
  PROVE  HeapKept
  BY DropKeeps DEF Types

\* What the heap's growth alone does to the types.
LEMMA KeptTypes ==
  ASSUME Types, HeapKept
  PROVE  /\ 1 \in Strings' /\ heap'[1].text = Empty
         /\ 0 .. Len(heap) \subseteq 0 .. Len(heap')
         /\ 1 .. Len(heap) \subseteq 1 .. Len(heap')
         /\ Pair(Len(heap)) \subseteq Pair(Len(heap'))
         /\ Dict(Len(heap)) \subseteq Dict(Len(heap'))
<1>1. Len(heap) \in Nat /\ Len(heap') \in Nat /\ Len(heap) <= Len(heap')
  BY DEF Types, HeapKept
<1>2. 0 .. Len(heap) \subseteq 0 .. Len(heap') /\ 1 .. Len(heap) \subseteq 1 .. Len(heap')
  BY <1>1
<1>3. Pair(Len(heap)) \subseteq Pair(Len(heap'))  BY <1>2 DEF Pair
<1>4. Dict(Len(heap)) \subseteq Dict(Len(heap'))  BY <1>3 DEF Dict
<1>5. 1 \in Strings' /\ heap'[1].text = Empty  BY <1>2 DEF Types, HeapKept, Strings
<1>. QED  BY <1>2, <1>3, <1>4, <1>5

\* The object on the stack ends, in a dict or not.
LEMMA ObjectGone ==
  ASSUME TextInv, HeapKept, pairs' = <<>>, read' = <<>>, UNCHANGED cache,
         dicts' \in Seq(Dict(Len(heap'))), DictIsSpelled'
  PROVE  TextInv'
<1>1. Types  BY DEF TextInv
<1>2. heap' \in Seq(HeapString)  BY DEF HeapKept
<1>3. cache' \in [Slots -> 0 .. Len(heap')]  BY <1>1, KeptTypes DEF Types
<1>4. pairs' \in Seq(Pair(Len(heap'))) /\ read' \in Seq(Spelling) /\ Len(read') = Len(pairs')
  OBVIOUS
<1>5. Types'  BY <1>1, <1>2, <1>3, <1>4, KeptTypes DEF Types
<1>6. PairsAreRead'  BY DEF PairsAreRead
<1>. QED  BY <1>5, <1>6 DEF TextInv

\* The object on the stack goes on.
LEMMA ObjectStays ==
  ASSUME TextInv, HeapKept, cache' \in [Slots -> 0 .. Len(heap')],
         pairs' \in Seq(Pair(Len(heap'))), read' \in Seq(Spelling), Len(read') = Len(pairs'),
         PairsAreRead', UNCHANGED dicts
  PROVE  TextInv'
<1>1. Types /\ DictIsSpelled  BY DEF TextInv
<1>2. heap' \in Seq(HeapString)  BY DEF HeapKept
<1>3. DictIsSpelled' /\ dicts' \in Seq(Dict(Len(heap')))  BY <1>1, DictsKept
<1>4. Types'  BY <1>1, <1>2, <1>3, KeptTypes DEF Types
<1>. QED  BY <1>3, <1>4 DEF TextInv

LEMMA PairsReadAgain ==
  ASSUME TextInv, HeapKept, NEW i \in 1 .. Len(pairs)
  PROVE  read[i] = [text |-> heap'[pairs[i].key].text, val |-> pairs[i].val]
<1>1. pairs[i].key \in Strings  BY PairType DEF TextInv
<1>. QED  BY <1>1 DEF TextInv, PairsAreRead, HeapKept

LEMMA ReadKeyText ==
  ASSUME TextInv, NEW k \in Keys, NEW path, ReadKey(k, path) PROVE TextInv'
<1>1. PICK str \in 1 .. MaxHeap : /\ MakeKey(k, path, str)
                                  /\ pairs' = Append(pairs, [key |-> str, val |-> NoValue])
  BY DEF ReadKey
<1>2. read' = Append(read, [text |-> k, val |-> NoValue]) /\ UNCHANGED dicts  BY DEF ReadKey
<1>3. Types  BY DEF TextInv
<1>4. /\ HeapKept
      /\ str \in 1 .. Len(heap') /\ heap'[str].text = k
      /\ cache' \in [Slots -> 0 .. Len(heap')]
  BY <1>1, <1>3, MakeKeyKeeps
<1>5. pairs \in Seq(Pair(Len(heap'))) /\ read \in Seq(Spelling) /\ Len(read) = Len(pairs)
  BY <1>3, <1>4, KeptTypes DEF Types
<1>6. [key |-> str, val |-> NoValue] \in Pair(Len(heap')) /\ [text |-> k, val |-> NoValue] \in Spelling
  BY <1>4 DEF Pair, Spelling, AnyValue
<1>7. /\ pairs' \in Seq(Pair(Len(heap'))) /\ Len(pairs') = Len(pairs) + 1
      /\ pairs'[Len(pairs) + 1] = [key |-> str, val |-> NoValue]
      /\ \A i \in 1 .. Len(pairs) : pairs'[i] = pairs[i]
  BY <1>1, <1>5, <1>6
<1>8. /\ read' \in Seq(Spelling) /\ Len(read') = Len(pairs) + 1
      /\ read'[Len(pairs) + 1] = [text |-> k, val |-> NoValue]
      /\ \A i \in 1 .. Len(pairs) : read'[i] = read[i]
  BY <1>2, <1>5, <1>6
<1>9. ASSUME NEW i \in 1 .. Len(pairs')
      PROVE  read'[i] = [text |-> heap'[pairs'[i].key].text, val |-> pairs'[i].val]
  <2>1. CASE i = Len(pairs) + 1
    <3>1. pairs'[i].key = str /\ pairs'[i].val = NoValue  BY <1>7, <2>1
    <3>. QED  BY <1>4, <1>8, <2>1, <3>1
  <2>2. CASE i # Len(pairs) + 1
    <3>1. i \in 1 .. Len(pairs)  BY <1>5, <1>7, <1>9, <2>2
    <3>. QED  BY <1>4, <1>7, <1>8, <3>1, PairsReadAgain
  <2>. QED  BY <2>1, <2>2
<1>10. PairsAreRead'  BY <1>9 DEF PairsAreRead
<1>. QED  BY <1>2, <1>4, <1>7, <1>8, <1>10, ObjectStays

LEMMA ReadValueText ==
  ASSUME TextInv, NEW v \in Values, ReadValue(v) PROVE TextInv'
<1>. DEFINE n == Len(pairs)
<1>1. Types /\ UNCHANGED <<cache, heap, dicts>> /\ pairs # <<>>  BY DEF TextInv, ReadValue
<1>2. n \in Nat /\ n # 0 /\ Len(read) = n /\ pairs \in Seq(Pair(Len(heap))) /\ read \in Seq(Spelling)
  BY <1>1 DEF Types
<1>3. n \in 1 .. n  BY <1>2
<1>4. pairs' = [pairs EXCEPT ![n].val = v] /\ read' = [read EXCEPT ![n].val = v]
  BY <1>2 DEF ReadValue
<1>5. pairs[n] \in Pair(Len(heap)) /\ read[n] \in Spelling  BY <1>2, <1>3
<1>6. v \in AnyValue  BY DEF AnyValue
<1>7. /\ [pairs[n] EXCEPT !.val = v] \in Pair(Len(heap))
      /\ [pairs[n] EXCEPT !.val = v] = [key |-> pairs[n].key, val |-> v]
  BY <1>5, <1>6 DEF Pair
<1>8. /\ [read[n] EXCEPT !.val = v] \in Spelling
      /\ [read[n] EXCEPT !.val = v] = [text |-> read[n].text, val |-> v]
  BY <1>5, <1>6 DEF Spelling
<1>9. pairs' = [pairs EXCEPT ![n] = [key |-> pairs[n].key, val |-> v]]
      /\ read' = [read EXCEPT ![n] = [text |-> read[n].text, val |-> v]]
  BY <1>4, <1>7, <1>8
<1>10. pairs' \in Seq(Pair(Len(heap))) /\ Len(pairs') = n /\ read' \in Seq(Spelling) /\ Len(read') = n
  BY <1>2, <1>3, <1>7, <1>8, <1>9
<1>11. HeapKept  BY <1>1 DEF HeapKept, Types
<1>12. ASSUME NEW i \in 1 .. Len(pairs')
       PROVE  read'[i] = [text |-> heap'[pairs'[i].key].text, val |-> pairs'[i].val]
  <2>0. i \in 1 .. n  BY <1>10, <1>12
  <2>1. CASE i = n
    <3>1. pairs'[n] = [key |-> pairs[n].key, val |-> v] /\ read'[n] = [text |-> read[n].text, val |-> v]
      BY <1>2, <1>3, <1>9
    <3>2. read[n].text = heap[pairs[n].key].text  BY <1>3, ReadIs
    <3>3. pairs'[n].key = pairs[n].key /\ pairs'[n].val = v  BY <3>1
    <3>. QED  BY <1>1, <2>1, <3>1, <3>2, <3>3
  <2>2. CASE i # n
    <3>1. pairs'[i] = pairs[i] /\ read'[i] = read[i]  BY <1>2, <1>9, <2>0, <2>2
    <3>. QED  BY <1>11, <2>0, <3>1, PairsReadAgain
  <2>. QED  BY <2>1, <2>2
<1>13. PairsAreRead'  BY <1>12 DEF PairsAreRead
<1>. QED  BY <1>1, <1>2, <1>10, <1>11, <1>13, ObjectStays DEF Types

LEMMA CloseObjectText ==
  ASSUME TextInv, CloseObject PROVE TextInv'
<1>. DEFINE n == Len(pairs)
            d == [entries |-> DictOf(n), spelled |-> Spelled]
<1>1. Types /\ DictIsSpelled  BY DEF TextInv
<1>2. n \in Int /\ n <= Len(pairs)  BY <1>1 DEF Types
<1>3. \A str \in Strings : Released(n)[str] \in Int  BY <1>1, <1>2, ReleasedInt
<1>4. heap' = Dropped(heap, Released(n)) /\ dicts' = Append(dicts, d)  BY DEF CloseObject
<1>5. HeapKept  BY <1>1, <1>3, <1>4, DropHeapKeeps
<1>6. /\ d.entries \subseteq Pair(Len(heap))
      /\ {[text |-> heap[e.key].text, val |-> e.val] : e \in d.entries} = d.spelled
      /\ \A e, f \in d.entries : heap[e.key].text = heap[f.key].text => e = f
      /\ d.spelled \subseteq Spelling
  BY DictIsSpelling
<1>7. d \in Dict(Len(heap))  BY <1>6 DEF Dict
<1>8. /\ dicts \in Seq(Dict(Len(heap))) /\ Len(dicts) \in Nat
      /\ dicts' \in Seq(Dict(Len(heap))) /\ Len(dicts') = Len(dicts) + 1
      /\ dicts'[Len(dicts) + 1] = d
      /\ \A i \in 1 .. Len(dicts) : dicts'[i] = dicts[i]
  BY <1>1, <1>4, <1>7 DEF Types
<1>9. dicts' \in Seq(Dict(Len(heap')))  BY <1>1, <1>5, <1>8, KeptTypes
<1>10. ASSUME NEW i \in 1 .. Len(dicts')
       PROVE  /\ dicts'[i] \in Dict(Len(heap))
              /\ {[text |-> heap[e.key].text, val |-> e.val] : e \in dicts'[i].entries}
                   = dicts'[i].spelled
              /\ \A e, f \in dicts'[i].entries : heap[e.key].text = heap[f.key].text => e = f
  <2>1. CASE i = Len(dicts) + 1  BY <1>6, <1>7, <1>8, <2>1
  <2>2. CASE i # Len(dicts) + 1
    <3>1. i \in 1 .. Len(dicts)  BY <1>8, <1>10, <2>2
    <3>2. dicts'[i] = dicts[i]  BY <1>8, <3>1
    <3>. QED  BY <1>1, <1>8, <3>1, <3>2 DEF DictIsSpelled
  <2>. QED  BY <2>1, <2>2
<1>11. ASSUME NEW i \in 1 .. Len(dicts')
       PROVE  \A e \in dicts'[i].entries : heap'[e.key].text = heap[e.key].text
  <2>1. dicts'[i].entries \subseteq Pair(Len(heap))  BY <1>10 DEF Dict
  <2>2. \A e \in dicts'[i].entries : e.key \in 1 .. Len(heap)  BY <2>1 DEF Pair
  <2>. QED  BY <1>5, <2>2 DEF HeapKept, Strings
<1>12. ASSUME NEW i \in 1 .. Len(dicts')
       PROVE  /\ {[text |-> heap'[e.key].text, val |-> e.val] : e \in dicts'[i].entries}
                   = dicts'[i].spelled
              /\ \A e, f \in dicts'[i].entries : heap'[e.key].text = heap'[f.key].text => e = f
  <2>1. {[text |-> heap'[e.key].text, val |-> e.val] : e \in dicts'[i].entries}
          = {[text |-> heap[e.key].text, val |-> e.val] : e \in dicts'[i].entries}
    BY <1>11, <1>12
  <2>2. \A e, f \in dicts'[i].entries : heap'[e.key].text = heap'[f.key].text => e = f
    BY <1>10, <1>11, <1>12
  <2>3. {[text |-> heap[e.key].text, val |-> e.val] : e \in dicts'[i].entries}
          = dicts'[i].spelled
    BY <1>10, <1>12
  <2>. QED  BY <2>1, <2>2, <2>3
<1>13. DictIsSpelled'  BY <1>12 DEF DictIsSpelled
<1>. QED  BY <1>5, <1>9, <1>13, ObjectGone DEF CloseObject, EndOfObject

\* What is given back when the insertion of pair n fails.
Rest(n) == [str \in Strings |-> Times(str, {i \in 1 .. Len(pairs) : i >= n \/ ~Repeats(i)})]

LEMMA RestIs ==
  ASSUME Types, NEW n \in 1 .. Len(pairs), NEW str \in Strings
  PROVE  Rest(n)[str] = Times(str, {i \in 1 .. Len(pairs) : i >= n \/ ~Repeats(i)})
         /\ Rest(n)[str] \in Int
<1>. DEFINE ps == {i \in 1 .. Len(pairs) : i >= n \/ ~Repeats(i)}
<1>1. ps \subseteq 1 .. Len(pairs)  OBVIOUS
<1>2. Times(str, ps) \in Nat  BY <1>1, TimesFinite
<1>3. Rest(n)[str] = Times(str, ps)  BY DEF Rest
<1>. HIDE DEF ps
<1>4. Rest(n)[str] \in Int  BY <1>2, <1>3
<1>. QED  BY <1>3, <1>4 DEF ps

LEMMA LeftIs ==
  ASSUME Types, NEW n \in 1 .. Len(pairs)
  PROVE  LET left == Dropped(heap, Released(n - 1))
         IN /\ left \in Seq(HeapString) /\ Len(left) = Len(heap)
            /\ \A str \in Strings : /\ left[str].text = heap[str].text
                                    /\ left[str].refs = heap[str].refs - Released(n - 1)[str]
<1>1. n - 1 \in Int /\ n - 1 <= Len(pairs)  BY DEF Types
<1>2. \A str \in Strings : Released(n - 1)[str] \in Int  BY <1>1, ReleasedInt
<1>3. heap \in Seq(HeapString)  BY DEF Types
<1>. QED  BY <1>2, <1>3, DroppedKeeps

LEMMA InsertFailsText ==
  ASSUME TextInv, NEW n \in 1 .. MaxPairs, InsertFails(n) PROVE TextInv'
<1>. DEFINE left == Dropped(heap, Released(n - 1))
<1>1. Types /\ DictIsSpelled  BY DEF TextInv
<1>2. n \in 1 .. Len(pairs) /\ heap' = Dropped(left, Rest(n)) /\ UNCHANGED dicts
  BY DEF InsertFails, Rest
<1>3. left \in Seq(HeapString) /\ Len(left) = Len(heap)
      /\ \A str \in Strings : left[str].text = heap[str].text
  BY <1>1, <1>2, LeftIs
<1>4. \A str \in Strings : Rest(n)[str] \in Int  BY <1>1, <1>2, RestIs
<1>. HIDE DEF left
<1>5. HeapKept  BY <1>1, <1>2, <1>3, <1>4, DropKeeps
<1>6. DictIsSpelled' /\ dicts' \in Seq(Dict(Len(heap')))  BY <1>1, <1>2, <1>5, DictsKept
<1>. QED  BY <1>5, <1>6, ObjectGone DEF InsertFails, EndOfObject

All == [str \in Strings |-> Times(str, 1 .. Len(pairs))]

LEMMA AllIs ==
  ASSUME Types, NEW str \in Strings
  PROVE  All[str] = Times(str, 1 .. Len(pairs)) /\ All[str] \in Int
<1>1. Times(str, 1 .. Len(pairs)) \in Nat  BY TimesFinite
<1>2. All[str] = Times(str, 1 .. Len(pairs))  BY DEF All
<1>3. All[str] \in Int  BY <1>1, <1>2
<1>. QED  BY <1>2, <1>3

LEMMA AbandonText ==
  ASSUME TextInv, Abandon PROVE TextInv'
<1>1. Types /\ DictIsSpelled  BY DEF TextInv
<1>2. heap' = Dropped(heap, All) /\ UNCHANGED dicts  BY DEF Abandon, All
<1>3. \A str \in Strings : All[str] \in Int  BY <1>1, AllIs
<1>4. HeapKept  BY <1>1, <1>2, <1>3, DropHeapKeeps
<1>5. DictIsSpelled' /\ dicts' \in Seq(Dict(Len(heap')))  BY <1>1, <1>2, <1>4, DictsKept
<1>. QED  BY <1>4, <1>5, ObjectGone DEF Abandon, EndOfObject

OfDict(d) == [str \in Strings |-> Cardinality({e \in dicts[d].entries : e.key = str})]

LEMMA OfDictIs ==
  ASSUME DictIsSpelled, NEW d \in 1 .. Len(dicts), NEW str \in Strings
  PROVE  OfDict(d)[str] = IF \E e \in dicts[d].entries : e.key = str THEN 1 ELSE 0
  BY HeldByDict DEF OfDict

\* The dicts behind the one that is dropped move up.
LEMMA WithoutDict ==
  ASSUME NEW S, dicts \in Seq(S), NEW d \in 1 .. Len(dicts),
         dicts' = SubSeq(dicts, 1, d - 1) \o SubSeq(dicts, d + 1, Len(dicts))
  PROVE  /\ dicts' \in Seq(S) /\ Len(dicts') = Len(dicts) - 1
         /\ \A i \in 1 .. Len(dicts') : dicts'[i] = dicts[IF i < d THEN i ELSE i + 1]
<1>. DEFINE a == SubSeq(dicts, 1, d - 1)
            b == SubSeq(dicts, d + 1, Len(dicts))
<1>1. Len(dicts) \in Nat /\ d \in Nat /\ d >= 1 /\ d <= Len(dicts) /\ d - 1 \in Nat
      /\ d - 1 <= Len(dicts)
  OBVIOUS
<1>2. a \in Seq(S) /\ Len(a) = d - 1 /\ \A i \in 1 .. d - 1 : a[i] = dicts[i]
  BY <1>1
<1>3. b \in Seq(S) /\ Len(b) = Len(dicts) - d
      /\ \A i \in 1 .. Len(dicts) - d : b[i] = dicts[d + i]
  BY <1>1
<1>. HIDE DEF a, b
<1>4. dicts' = a \o b  BY DEF a, b
<1>5. /\ a \o b \in Seq(S) /\ Len(a \o b) = Len(a) + Len(b)
      /\ \A i \in 1 .. Len(a) : (a \o b)[i] = a[i]
      /\ \A i \in Len(a) + 1 .. Len(a) + Len(b) : (a \o b)[i] = b[i - Len(a)]
  <2>1. Len(a) \in Nat /\ Len(b) \in Nat  BY <1>2, <1>3
  <2>2. /\ a \o b \in Seq(S) /\ Len(a \o b) = Len(a) + Len(b)
        /\ \A i \in 1 .. Len(a) + Len(b) :
             (a \o b)[i] = IF i <= Len(a) THEN a[i] ELSE b[i - Len(a)]
    BY <1>2, <1>3, ConcatProperties
  <2>3. \A i \in 1 .. Len(a) : i \in 1 .. Len(a) + Len(b) /\ i <= Len(a)  BY <2>1
  <2>4. \A i \in Len(a) + 1 .. Len(a) + Len(b) : i \in 1 .. Len(a) + Len(b) /\ ~ i <= Len(a)
    BY <2>1
  <2>. QED  BY <2>2, <2>3, <2>4, Zenon
<1>7. Len(a) + Len(b) = Len(dicts) - 1  BY <1>1, <1>2, <1>3
<1>8. dicts' \in Seq(S) /\ Len(dicts') = Len(dicts) - 1  BY <1>4, <1>5, <1>7
<1>6. ASSUME NEW i \in 1 .. Len(dicts) - 1 PROVE dicts'[i] = dicts[IF i < d THEN i ELSE i + 1]
  <2>0. i \in Int /\ 1 <= i /\ i <= Len(dicts) - 1
    BY <1>1, <1>6
  <2>1. CASE i < d
    <3>1. i \in 1 .. d - 1  BY <1>1, <2>0, <2>1
    <3>. QED  BY <1>2, <1>4, <1>5, <2>1, <3>1
  <2>2. CASE i >= d
    <3>0. i \in Len(a) + 1 .. Len(a) + Len(b)  BY <1>1, <1>2, <1>7, <2>0, <2>2
    <3>1. dicts'[i] = b[i - (d - 1)]  BY <1>2, <1>4, <1>5, <3>0
    <3>2. i - (d - 1) \in 1 .. Len(dicts) - d  BY <1>1, <2>0, <2>2
    <3>3. d + (i - (d - 1)) = i + 1  BY <1>1, <2>0
    <3>4. dicts'[i] = dicts[i + 1]  BY <1>3, <3>1, <3>2, <3>3
    <3>5. ~ i < d  BY <1>1, <2>0, <2>2
    <3>. QED  BY <3>4, <3>5
  <2>3. i < d \/ i >= d  BY <1>1, <2>0
  <2>. QED  BY <2>1, <2>2, <2>3, Zenon
<1>. QED  BY <1>6, <1>8

LEMMA DropDictText ==
  ASSUME TextInv, NEW d \in 1 .. Len(dicts), DropDict(d) PROVE TextInv'
<1>1. Types /\ DictIsSpelled  BY DEF TextInv
<1>2. heap' = Dropped(heap, OfDict(d)) /\ UNCHANGED <<cache, pairs, read>>
  BY DEF DropDict, OfDict
<1>3. \A str \in Strings : OfDict(d)[str] \in Int  BY <1>1, OfDictIs
<1>4. HeapKept  BY <1>1, <1>2, <1>3, DropHeapKeeps
<1>5. dicts \in Seq(Dict(Len(heap)))  BY <1>1 DEF Types
<1>6. dicts' = SubSeq(dicts, 1, d - 1) \o SubSeq(dicts, d + 1, Len(dicts))  BY DEF DropDict
<1>7. /\ dicts' \in Seq(Dict(Len(heap))) /\ Len(dicts') = Len(dicts) - 1
      /\ \A i \in 1 .. Len(dicts') : dicts'[i] = dicts[IF i < d THEN i ELSE i + 1]
  BY <1>5, <1>6, WithoutDict
<1>8. dicts' \in Seq(Dict(Len(heap')))  BY <1>1, <1>4, <1>7, KeptTypes
<1>9. ASSUME NEW i \in 1 .. Len(dicts')
      PROVE  \E j \in 1 .. Len(dicts) : dicts'[i] = dicts[j]
  <2>1. Len(dicts) \in Nat  BY <1>5
  <2>2. (IF i < d THEN i ELSE i + 1) \in 1 .. Len(dicts)  BY <1>7, <1>9, <2>1
  <2>. QED  BY <1>7, <2>2
<1>10. \A j \in 1 .. Len(dicts) : \A e \in dicts[j].entries : heap'[e.key].text = heap[e.key].text
  <2>. TAKE j \in 1 .. Len(dicts)
  <2>0. dicts[j] \in Dict(Len(heap))  BY <1>5
  <2>1. dicts[j].entries \subseteq Pair(Len(heap))  BY <2>0 DEF Dict
  <2>2. \A e \in dicts[j].entries : e.key \in 1 .. Len(heap)  BY <2>1 DEF Pair
  <2>. QED  BY <1>4, <2>2 DEF HeapKept, Strings
<1>11. \A j \in 1 .. Len(dicts) :
         /\ {[text |-> heap'[e.key].text, val |-> e.val] : e \in dicts[j].entries} = dicts[j].spelled
         /\ \A e, f \in dicts[j].entries : heap'[e.key].text = heap'[f.key].text => e = f
  <2>. TAKE j \in 1 .. Len(dicts)
  <2>1. \A e \in dicts[j].entries : heap'[e.key].text = heap[e.key].text  BY <1>10
  <2>2. /\ {[text |-> heap[e.key].text, val |-> e.val] : e \in dicts[j].entries} = dicts[j].spelled
        /\ \A e, f \in dicts[j].entries : heap[e.key].text = heap[f.key].text => e = f
    BY <1>1 DEF DictIsSpelled
  <2>3. {[text |-> heap'[e.key].text, val |-> e.val] : e \in dicts[j].entries}
          = {[text |-> heap[e.key].text, val |-> e.val] : e \in dicts[j].entries}
    BY <2>1
  <2>4. \A e, f \in dicts[j].entries : heap'[e.key].text = heap'[f.key].text => e = f
    BY <2>1, <2>2
  <2>. QED  BY <2>2, <2>3, <2>4
<1>12. DictIsSpelled'  BY <1>9, <1>11 DEF DictIsSpelled
<1>13. heap' \in Seq(HeapString) /\ cache' \in [Slots -> 0 .. Len(heap')]
       /\ pairs' \in Seq(Pair(Len(heap'))) /\ read' \in Seq(Spelling) /\ Len(read') = Len(pairs')
  BY <1>1, <1>2, <1>4, KeptTypes DEF Types, HeapKept
<1>14. Types'  BY <1>1, <1>4, <1>8, <1>13, KeptTypes DEF Types
<1>15. PairsAreRead'  BY <1>2, <1>4, PairsReadAgain DEF PairsAreRead
<1>. QED  BY <1>12, <1>14, <1>15 DEF TextInv

OfCache == [str \in Strings |-> Cardinality({s \in Slots : cache[s] = str})]

LEMMA OfCacheIs ==
  ASSUME NEW str \in Strings
  PROVE  OfCache[str] = Cardinality({s \in Slots : cache[s] = str}) /\ OfCache[str] \in Int
<1>1. Cardinality({s \in Slots : cache[s] = str}) \in Nat  BY SlotsFinite
<1>2. OfCache[str] = Cardinality({s \in Slots : cache[s] = str})  BY DEF OfCache
<1>3. OfCache[str] \in Int  BY <1>1, <1>2
<1>. QED  BY <1>2, <1>3

LEMMA ModuleFreeText ==
  ASSUME TextInv, ModuleFree PROVE TextInv'
<1>1. Types  BY DEF TextInv
<1>2. heap' = Dropped(heap, OfCache) /\ UNCHANGED <<cache, pairs, read, dicts>>
  BY DEF ModuleFree, OfCache
<1>3. \A str \in Strings : OfCache[str] \in Int  BY OfCacheIs
<1>4. HeapKept  BY <1>1, <1>2, <1>3, DropHeapKeeps
<1>5. /\ cache' \in [Slots -> 0 .. Len(heap')] /\ pairs' \in Seq(Pair(Len(heap')))
      /\ read' \in Seq(Spelling) /\ Len(read') = Len(pairs')
  BY <1>1, <1>2, <1>4, KeptTypes DEF Types
<1>6. PairsAreRead'  BY <1>2, <1>4, PairsReadAgain DEF PairsAreRead
<1>. QED  BY <1>2, <1>4, <1>5, <1>6, ObjectStays

LEMMA InitText == CacheInit => TextInv
<1>. SUFFICES ASSUME CacheInit PROVE TextInv
  OBVIOUS
<1>1. heap = <<[text |-> Empty, refs |-> 1]>>  BY DEF CacheInit
<1>2. [text |-> Empty, refs |-> 1] \in HeapString  BY KeyAssumption DEF HeapString
<1>3. heap \in Seq(HeapString) /\ Len(heap) = 1 /\ heap[1].text = Empty  BY <1>1, <1>2
<1>4. pairs = <<>> /\ read = <<>> /\ dicts = <<>> /\ cache = [s \in Slots |-> 0]  BY DEF CacheInit
<1>5. Types  BY <1>3, <1>4 DEF Types, Strings
<1>6. PairsAreRead /\ DictIsSpelled  BY <1>4 DEF PairsAreRead, DictIsSpelled
<1>. QED  BY <1>5, <1>6 DEF TextInv

LEMMA StepText == TextInv /\ [CacheNext]_cacheVars => TextInv'
<1>. SUFFICES ASSUME TextInv, [CacheNext]_cacheVars PROVE TextInv'
  OBVIOUS
<1>1. ASSUME UNCHANGED cacheVars  PROVE TextInv'
  <2>1. UNCHANGED <<cache, heap, pairs, read, dicts>>  BY <1>1 DEF cacheVars
  <2>. QED  BY <2>1 DEF TextInv, Types, PairsAreRead, DictIsSpelled, Strings
<1>2. ASSUME NEW k \in Keys, NEW path \in Paths, ReadKey(k, path)  PROVE TextInv'
  BY <1>2, ReadKeyText
<1>3. ASSUME NEW v \in Values, ReadValue(v)  PROVE TextInv'  BY <1>3, ReadValueText
<1>4. ASSUME CloseObject  PROVE TextInv'  BY <1>4, CloseObjectText
<1>5. ASSUME NEW n \in 1 .. MaxPairs, InsertFails(n)  PROVE TextInv'  BY <1>5, InsertFailsText
<1>6. ASSUME Abandon  PROVE TextInv'  BY <1>6, AbandonText
<1>7. ASSUME NEW d \in 1 .. Len(dicts), DropDict(d)  PROVE TextInv'  BY <1>7, DropDictText
<1>8. ASSUME ModuleFree  PROVE TextInv'  BY <1>8, ModuleFreeText
<1>. QED  BY <1>1, <1>2, <1>3, <1>4, <1>5, <1>6, <1>7, <1>8 DEF CacheNext

-----------------------------------------------------------------------------
(* The owners of a string.                                                 *)

CacheCount(str) == Cardinality({s \in Slots : cache[s] = str})
SlotCount(str) == IF loaded THEN CacheCount(str) ELSE 0
PairCount(str) == Times(str, 1 .. Len(pairs))
DictsWith(str) == {d \in 1 .. Len(dicts) : \E e \in dicts[d].entries : e.key = str}
DictCount(str) == Cardinality(DictsWith(str))
Own(str) == IF str = 1 THEN 1 ELSE 0

LEMMA OwnersAre ==
  ASSUME NEW str
  PROVE  Owners(str) = SlotCount(str) + PairCount(str) + DictCount(str) + Own(str)
  BY DEF Owners, SlotCount, CacheCount, PairCount, DictCount, DictsWith, Own

LEMMA DictsFinite ==
  ASSUME Types, NEW str PROVE IsFiniteSet(DictsWith(str)) /\ DictCount(str) \in Nat
<1>1. 1 \in Int /\ Len(dicts) \in Int  BY DEF Types
<1>2. IsFiniteSet(1 .. Len(dicts))  BY <1>1, FS_Interval
<1>3. DictsWith(str) \in SUBSET (1 .. Len(dicts))  BY DEF DictsWith
<1>4. IsFiniteSet(DictsWith(str))  BY <1>2, <1>3, FS_Subset
<1>. QED  BY <1>4, FS_CardinalityType DEF DictCount

LEMMA CountsAreNat ==
  ASSUME Types, NEW str
  PROVE  /\ CacheCount(str) \in Nat /\ SlotCount(str) \in Nat
         /\ PairCount(str) \in Nat /\ DictCount(str) \in Nat /\ Own(str) \in Nat
<1>1. CacheCount(str) \in Nat  BY SlotsFinite DEF CacheCount
<1>2. PairCount(str) \in Nat  BY TimesFinite DEF PairCount
<1>3. DictCount(str) \in Nat  BY DictsFinite
<1>4. Own(str) \in Nat  BY DEF Own
<1>5. SlotCount(str) \in Nat  BY <1>1 DEF SlotCount
<1>. QED  BY <1>1, <1>2, <1>3, <1>4, <1>5

LEMMA RefsAreNat ==
  ASSUME Types, RefsCountOwners, NEW str \in Strings
  PROVE  heap[str].refs \in Nat
<1>1. heap[str].refs = SlotCount(str) + PairCount(str) + DictCount(str) + Own(str)
  BY OwnersAre DEF RefsCountOwners
<1>2. SlotCount(str) \in Nat /\ PairCount(str) \in Nat /\ DictCount(str) \in Nat /\ Own(str) \in Nat
  BY CountsAreNat
<1>. QED  BY <1>1, <1>2

\* Nobody has a string that was not made yet.
LEMMA NewHasNoOwner ==
  ASSUME Types, NEW str \in Nat, str > Len(heap)
  PROVE  CacheCount(str) = 0 /\ PairCount(str) = 0 /\ DictCount(str) = 0 /\ Own(str) = 0
<1>0. Len(heap) \in Nat /\ str # 1  BY DEF Types, Strings
<1>1. {s \in Slots : cache[s] = str} = {}
  <2>1. \A s \in Slots : cache[s] \in 0 .. Len(heap)  BY DEF Types
  <2>. QED  BY <1>0, <2>1
<1>2. {i \in 1 .. Len(pairs) : pairs[i].key = str} = {}
  <2>1. \A i \in 1 .. Len(pairs) : pairs[i].key \in 1 .. Len(heap)  BY PairType DEF Strings
  <2>. QED  BY <1>0, <2>1
<1>3. DictsWith(str) = {}
  <2>1. ASSUME NEW d \in 1 .. Len(dicts), NEW e \in dicts[d].entries  PROVE e.key # str
    <3>1. dicts[d] \in Dict(Len(heap))  BY DEF Types
    <3>2. e \in Pair(Len(heap))  BY <2>1, <3>1 DEF Dict
    <3>3. e.key \in 1 .. Len(heap)  BY <3>2 DEF Pair
    <3>. QED  BY <1>0, <3>3
  <2>. QED  BY <2>1 DEF DictsWith
<1>. QED  BY <1>0, <1>1, <1>2, <1>3, FS_EmptySet DEF CacheCount, PairCount, Times, DictCount, Own

\* A string takes a slot from another one.
LEMMA SlotTaken ==
  ASSUME Types, NEW sl \in Slots, NEW str, cache[sl] # str,
         cache' = [cache EXCEPT ![sl] = str]
  PROVE  \A x : CacheCount(x)' = CacheCount(x) + (IF x = str THEN 1 ELSE 0)
                                               - (IF x = cache[sl] THEN 1 ELSE 0)
<1>. TAKE x
<1>. DEFINE A == {s \in Slots : cache[s] = x}
            B == {s \in Slots : cache'[s] = x}
<1>0. cache \in [Slots -> 0 .. Len(heap)]  BY DEF Types
<1>1. IsFiniteSet(A) /\ Cardinality(A) \in Nat  BY SlotsFinite
<1>2. cache'[sl] = str /\ \A s \in Slots \ {sl} : cache'[s] = cache[s]  BY <1>0
<1>3. CacheCount(x) = Cardinality(A) /\ CacheCount(x)' = Cardinality(B)  BY DEF CacheCount
<1>4. CASE x = str
  <2>1. sl \notin A /\ B = A \cup {sl}  BY <1>2, <1>4
  <2>2. Cardinality(B) = Cardinality(A) + 1  BY <1>1, <2>1, FS_AddElement
  <2>. HIDE DEF A, B
  <2>. QED  BY <1>1, <1>3, <1>4, <2>2
<1>5. CASE x = cache[sl]
  <2>1. sl \in A /\ B = A \ {sl}  BY <1>2, <1>5
  <2>2. Cardinality(B) = Cardinality(A) - 1  BY <1>1, <2>1, FS_RemoveElement
  <2>. HIDE DEF A, B
  <2>. QED  BY <1>1, <1>3, <1>5, <2>2
<1>6. CASE x # str /\ x # cache[sl]
  <2>1. B = A  BY <1>2, <1>6
  <2>. HIDE DEF A, B
  <2>. QED  BY <1>1, <1>3, <1>6, <2>1
<1>. QED  BY <1>4, <1>5, <1>6

Before(x) == IF x \in Strings THEN heap[x].refs ELSE 0

LEMMA MakeKeyCounts ==
  ASSUME Types, NEW k \in Keys, NEW path, NEW str, MakeKey(k, path, str),
         NEW x \in 1 .. Len(heap')
  PROVE  heap'[x].refs = Before(x) + (IF x = str THEN 1 ELSE 0) + CacheCount(x)' - CacheCount(x)
<1>. DEFINE old == cache[Slot(k)]
            hit == MayCache(k, path) /\ old # 0 /\ Hit(k, old)
<1>1. Len(heap) \in Nat /\ Strings = 1 .. Len(heap)  BY DEF Types, Strings
<1>2. old \in 0 .. Len(heap) /\ Slot(k) \in Slots  BY SlotType DEF Types
<1>3. \A y \in Strings : heap[y].refs \in Int
  <2>1. \A y \in Strings : heap[y] \in HeapString  BY <1>1 DEF Types
  <2>. QED  BY <2>1 DEF HeapString
<1>4. CacheCount(x) \in Nat  BY CountsAreNat
<1>5. ASSUME str = Len(heap) + 1 \/ (str \in Strings /\ heap[str].text = k),
             heap' = WithRefs(str, 1, k), UNCHANGED cache
      PROVE  heap'[x].refs = Before(x) + (IF x = str THEN 1 ELSE 0) + CacheCount(x)' - CacheCount(x)
  <2>1. /\ \A y \in Strings : heap'[y].refs = heap[y].refs + (IF y = str THEN 1 ELSE 0)
        /\ \A y \in 1 .. Len(heap') : y \notin Strings => y = str /\ heap'[y].refs = 1
    BY <1>5, WithRefsKeeps
  <2>2. CacheCount(x)' = CacheCount(x)  BY <1>5 DEF CacheCount
  <2>. QED  BY <1>3, <1>4, <2>1, <2>2 DEF Before
<1>6. CASE hit /\ str = old /\ heap' = WithRefs(str, 1, k) /\ UNCHANGED <<cache, freed>>
  <2>1. str \in Strings /\ heap[str].text = k  BY <1>1, <1>2, <1>6, HitIsText
  <2>. QED  BY <1>5, <1>6, <2>1
<1>7. CASE str = NewString(k) /\ heap' = WithRefs(str, 1, k) /\ UNCHANGED <<cache, freed>>
  BY <1>5, <1>7, NewStringType
<1>8. CASE MayCache(k, path) /\ ~hit /\ str = NewString(k) /\ Cached(str, k, old)
  <2>. DEFINE h == WithRefs(str, 2, k)
  <2>1. str = Len(heap) + 1 \/ (str \in Strings /\ heap[str].text = k)  BY <1>8, NewStringType
  <2>2. old # str
    <3>1. CASE k = Empty
      <4>1. str = 1 /\ heap[1].text = k  BY <1>8, <3>1 DEF NewString, Types
      <4>2. Hit(k, 1)  BY <4>1 DEF Hit
      <4>. QED  BY <1>8, <4>1, <4>2
    <3>2. CASE k # Empty
      <4>1. str = Len(heap) + 1  BY <1>8, <3>2 DEF NewString
      <4>. QED  BY <1>1, <1>2, <4>1
    <3>. QED  BY <3>1, <3>2
  <2>3. /\ h \in Seq(HeapString) /\ Len(h) >= Len(heap)
        /\ \A y \in Strings : h[y].refs = heap[y].refs + (IF y = str THEN 2 ELSE 0)
        /\ \A y \in 1 .. Len(h) : y \notin Strings => y = str /\ h[y].refs = 2
    <3>1. 2 \in Int  OBVIOUS
    <3>2. RefsGiven(h, str, 2, k)  BY <2>1, <3>1, WithRefsGives
    <3>. HIDE DEF h
    <3>. QED  BY <3>2 DEF RefsGiven
  <2>4. cache' = [cache EXCEPT ![Slot(k)] = str]  BY <1>8 DEF Cached
  <2>5. heap' = IF old = 0 THEN h ELSE [h EXCEPT ![old].refs = @ - 1]  BY <1>8 DEF Cached
  <2>6. CacheCount(x)' = CacheCount(x) + (IF x = str THEN 1 ELSE 0) - (IF x = old THEN 1 ELSE 0)
    BY <1>2, <2>2, <2>4, SlotTaken
  <2>. HIDE DEF h
  <2>7. Len(heap') = Len(h) /\ heap'[x].refs = h[x].refs - (IF x = old THEN 1 ELSE 0)
    <3>1. CASE old = 0
      <4>1. heap' = h /\ x # old  BY <2>5, <3>1
      <4>2. h[x] \in HeapString  BY <2>3, <4>1
      <4>3. h[x].refs \in Int  BY <4>2 DEF HeapString
      <4>. QED  BY <4>1, <4>3
    <3>2. CASE old # 0
      <4>1. old \in 1 .. Len(h)  BY <1>1, <1>2, <2>3, <3>2
      <4>2. h[old] \in HeapString  BY <2>3, <4>1
      <4>3. [h[old] EXCEPT !.refs = @ - 1] \in HeapString
            /\ [h[old] EXCEPT !.refs = @ - 1].refs = h[old].refs - 1
        BY <4>2 DEF HeapString
      <4>4. heap' = [h EXCEPT ![old] = [h[old] EXCEPT !.refs = @ - 1]]  BY <2>5, <3>2
      <4>. HIDE DEF old
      <4>5. Len(heap') = Len(h)  BY <2>3, <4>1, <4>3, <4>4
      <4>6. h[x] \in HeapString  BY <2>3, <4>5
      <4>7. h[x].refs \in Int  BY <4>6 DEF HeapString
      <4>8. CASE x = old
        <5>1. heap'[x] = [h[old] EXCEPT !.refs = @ - 1]  BY <2>3, <4>1, <4>4, <4>8
        <5>2. heap'[x].refs = h[x].refs - 1  BY <4>3, <4>8, <5>1, Zenon
        <5>. QED  BY <4>5, <4>8, <5>2
      <4>9. CASE x # old
        <5>1. heap'[x] = h[x]  BY <2>3, <4>1, <4>4, <4>5, <4>9
        <5>. QED  BY <4>5, <4>7, <4>9, <5>1
      <4>. QED  BY <4>8, <4>9
    <3>. QED  BY <3>1, <3>2
  <2>8. h[x].refs = Before(x) + (IF x = str THEN 2 ELSE 0)
    <3>1. CASE x \in Strings  BY <2>3, <3>1 DEF Before
    <3>2. CASE x \notin Strings  BY <2>3, <2>7, <3>2 DEF Before
    <3>. QED  BY <3>1, <3>2
  <2>9. Before(x) \in Int  BY <1>3 DEF Before
  <2>. HIDE DEF old
  <2>. QED  BY <1>4, <2>2, <2>6, <2>7, <2>8, <2>9
<1>. QED  BY <1>6, <1>7, <1>8 DEF MakeKey

-----------------------------------------------------------------------------
(* Every step keeps the counts.                                            *)

LEMMA RefsAre ==
  ASSUME RefsCountOwners, NEW str \in Strings
  PROVE  heap[str].refs
           = SlotCount(str) + PairCount(str) + DictCount(str) + Own(str)
  BY OwnersAre DEF RefsCountOwners

LEMMA CountsSuffice ==
  ASSUME \A str \in Strings' :
           heap'[str].refs
             = SlotCount(str)' + PairCount(str)' + DictCount(str)' + Own(str)
  PROVE  RefsCountOwners'
  BY DEF RefsCountOwners, Owners, SlotCount, CacheCount, PairCount, DictCount, DictsWith, Own

\* A pair is pushed.
LEMMA PairPushed ==
  ASSUME Types, NEW p, pairs' = Append(pairs, p), NEW x
  PROVE  PairCount(x)' = PairCount(x) + (IF x = p.key THEN 1 ELSE 0)
<1>. DEFINE n == Len(pairs)
            A == {i \in 1 .. n : pairs[i].key = x}
            B == {i \in 1 .. Len(pairs') : pairs'[i].key = x}
<1>1. n \in Nat /\ Len(pairs') = n + 1 /\ pairs'[n + 1] = p
      /\ \A i \in 1 .. n : pairs'[i] = pairs[i]
  BY DEF Types
<1>2. IsFiniteSet(A) /\ PairCount(x) \in Nat  BY TimesFinite, CountsAreNat
<1>3. PairCount(x) = Cardinality(A) /\ PairCount(x)' = Cardinality(B)  BY DEF PairCount, Times
<1>4. 1 .. Len(pairs') = 1 .. n \cup {n + 1} /\ n + 1 \notin 1 .. n  BY <1>1
<1>5. CASE x = p.key
  <2>1. B = A \cup {n + 1} /\ n + 1 \notin A  BY <1>1, <1>4, <1>5
  <2>2. Cardinality(B) = Cardinality(A) + 1  BY <1>2, <2>1, FS_AddElement
  <2>. HIDE DEF A, B
  <2>. QED  BY <1>2, <1>3, <1>5, <2>2
<1>6. CASE x # p.key
  <2>1. B = A  BY <1>1, <1>4, <1>6
  <2>. HIDE DEF A, B
  <2>. QED  BY <1>2, <1>3, <1>6, <2>1
<1>. QED  BY <1>5, <1>6

LEMMA ReadKeyCounts ==
  ASSUME TextInv, RefsCountOwners, NEW k \in Keys, NEW path, ReadKey(k, path)
  PROVE  RefsCountOwners'
<1>1. PICK str \in 1 .. MaxHeap : /\ MakeKey(k, path, str)
                                  /\ pairs' = Append(pairs, [key |-> str, val |-> NoValue])
  BY DEF ReadKey
<1>2. loaded /\ loaded' /\ dicts' = dicts  BY DEF ReadKey
<1>3. Types  BY DEF TextInv
<1>4. HeapKept  BY <1>1, <1>3, MakeKeyKeeps
<1>5. Len(heap) \in Nat /\ Len(heap') \in Nat /\ Strings = 1 .. Len(heap) /\ Strings' = 1 .. Len(heap')
  BY <1>3, <1>4 DEF Types, HeapKept, Strings
<1>6. ASSUME NEW x \in Strings'
      PROVE  heap'[x].refs = CacheCount(x)' + PairCount(x)' + DictCount(x)' + Own(x)
  <2>1. heap'[x].refs = Before(x) + (IF x = str THEN 1 ELSE 0) + CacheCount(x)' - CacheCount(x)
    BY <1>1, <1>3, <1>5, <1>6, MakeKeyCounts
  <2>2. PairCount(x)' = PairCount(x) + (IF x = str THEN 1 ELSE 0)  BY <1>1, <1>3, PairPushed
  <2>3. DictCount(x)' = DictCount(x)  BY <1>2 DEF DictCount, DictsWith
  <2>4. Before(x) = CacheCount(x) + PairCount(x) + DictCount(x) + Own(x)
    <3>1. CASE x \in Strings  BY <1>2, <3>1, RefsAre DEF Before, SlotCount
    <3>2. CASE x \notin Strings
      <4>1. x \in Nat /\ x > Len(heap)  BY <1>5, <1>6, <3>2
      <4>. QED  BY <1>3, <3>2, <4>1, NewHasNoOwner DEF Before
    <3>. QED  BY <3>1, <3>2
  <2>5. CacheCount(x) \in Nat /\ PairCount(x) \in Nat /\ DictCount(x) \in Nat /\ Own(x) \in Nat
    BY <1>3, CountsAreNat
  <2>6. CacheCount(x)' \in Nat  BY SlotsFinite DEF CacheCount
  <2>. QED  BY <2>1, <2>2, <2>3, <2>4, <2>5, <2>6
<1>. QED  BY <1>2, <1>6, CountsSuffice DEF SlotCount

LEMMA ReadValueCounts ==
  ASSUME TextInv, RefsCountOwners, NEW v \in Values, ReadValue(v)
  PROVE  RefsCountOwners'
<1>. DEFINE n == Len(pairs)
<1>1. Types /\ UNCHANGED <<loaded, cache, heap, dicts>> /\ pairs # <<>>  BY DEF TextInv, ReadValue
<1>2. n \in Nat /\ n \in 1 .. n /\ pairs \in Seq(Pair(Len(heap)))  BY <1>1 DEF Types
<1>3. pairs' = [pairs EXCEPT ![n].val = v]  BY DEF ReadValue
<1>4. pairs[n] \in Pair(Len(heap))  BY <1>2
<1>5. v \in AnyValue  BY DEF AnyValue
<1>6. [pairs[n] EXCEPT !.val = v] \in Pair(Len(heap)) /\ [pairs[n] EXCEPT !.val = v].key = pairs[n].key
  BY <1>4, <1>5 DEF Pair
<1>7. Len(pairs') = n /\ \A i \in 1 .. n : pairs'[i].key = pairs[i].key
  BY <1>2, <1>3, <1>6
<1>8. \A x : PairCount(x)' = PairCount(x)
  <2>. TAKE x
  <2>1. {i \in 1 .. Len(pairs') : pairs'[i].key = x} = {i \in 1 .. Len(pairs) : pairs[i].key = x}
    BY <1>7
  <2>. QED  BY <2>1 DEF PairCount, Times
<1>9. \A x : SlotCount(x)' = SlotCount(x) /\ DictCount(x)' = DictCount(x)
  BY <1>1 DEF SlotCount, CacheCount, DictCount, DictsWith
<1>10. ASSUME NEW x \in Strings'
       PROVE  heap'[x].refs = SlotCount(x)' + PairCount(x)' + DictCount(x)' + Own(x)
  <2>1. x \in Strings /\ heap' = heap  BY <1>1, <1>10 DEF Strings
  <2>. QED  BY <1>1, <1>8, <1>9, <2>1, RefsAre
<1>. QED  BY <1>10, CountsSuffice

\* References are given back, and as many owners go.
LEMMA DropCounts ==
  ASSUME Types, RefsCountOwners, NEW gone, \A str \in Strings : gone[str] \in Int,
         Len(heap') = Len(heap),
         \A str \in Strings : heap'[str].refs = heap[str].refs - gone[str],
         \A str \in Strings :
           /\ SlotCount(str)' + PairCount(str)' + DictCount(str)'
                = SlotCount(str) + PairCount(str) + DictCount(str) - gone[str]
           /\ SlotCount(str)' \in Nat /\ PairCount(str)' \in Nat /\ DictCount(str)' \in Nat
  PROVE  RefsCountOwners'
<1>2. Strings' = Strings  BY DEF Strings
<1>3. ASSUME NEW x \in Strings
      PROVE  heap'[x].refs = SlotCount(x)' + PairCount(x)' + DictCount(x)' + Own(x)
  <2>1. heap'[x].refs = heap[x].refs - gone[x] /\ gone[x] \in Int
    OBVIOUS
  <2>2. heap[x].refs = SlotCount(x) + PairCount(x) + DictCount(x) + Own(x)
    BY RefsAre
  <2>3. SlotCount(x) \in Nat /\ PairCount(x) \in Nat /\ DictCount(x) \in Nat /\ Own(x) \in Nat
    BY CountsAreNat
  <2>4. /\ SlotCount(x)' + PairCount(x)' + DictCount(x)'
             = SlotCount(x) + PairCount(x) + DictCount(x) - gone[x]
        /\ SlotCount(x)' \in Nat /\ PairCount(x)' \in Nat /\ DictCount(x)' \in Nat
    OBVIOUS
  <2>. DEFINE r == heap[x].refs  r1 == heap'[x].refs  g == gone[x]
              a == SlotCount(x)  b == PairCount(x)  c == DictCount(x)  o == Own(x)
              a1 == SlotCount(x)'  b1 == PairCount(x)'  c1 == DictCount(x)'
  <2>5. r1 = r - g /\ g \in Int  BY <2>1
  <2>6. r = a + b + c + o  BY <2>2
  <2>7. a \in Nat /\ b \in Nat /\ c \in Nat /\ o \in Nat  BY <2>3
  <2>8. a1 + b1 + c1 = a + b + c - g /\ a1 \in Nat /\ b1 \in Nat /\ c1 \in Nat  BY <2>4
  <2>. HIDE DEF r, r1, g, a, b, c, o, a1, b1, c1
  <2>9. r1 = a1 + b1 + c1 + o  BY <2>5, <2>6, <2>7, <2>8
  <2>. QED  BY <2>9 DEF r1, a1, b1, c1, o
<1>. QED  BY <1>2, <1>3, CountsSuffice

\* A repeated key and a new one: each pair is one or the other.
LEMMA FirstPairs ==
  ASSUME TextInv, NEW x \in Strings
  PROVE  LET ps == {i \in 1 .. Len(pairs) : ~Repeats(i)}
         IN Times(x, ps) = IF \E e \in DictOf(Len(pairs)) : e.key = x THEN 1 ELSE 0
<1>. DEFINE n == Len(pairs)
            ps == {i \in 1 .. n : ~Repeats(i)}
            A == {i \in ps : pairs[i].key = x}
<1>0. n \in Nat  BY DEF TextInv, Types
<1>1. Times(x, ps) = Cardinality(A)  BY DEF Times
<1>2. (\E e \in DictOf(n) : e.key = x) <=> A # {}
  <2>1. DictOf(n) = {[key |-> pairs[i].key, val |-> pairs[Last(n, i)].val] : i \in ps}
    BY DictOfIs
  <2>2. \A i \in ps : [key |-> pairs[i].key, val |-> pairs[Last(n, i)].val].key = pairs[i].key
    OBVIOUS
  <2>. HIDE DEF ps
  <2>3. (\E e \in DictOf(n) : e.key = x) <=> \E i \in ps : pairs[i].key = x  BY <2>1, <2>2
  <2>. QED  BY <2>3
<1>3. \A i, j \in A : i = j
  <2>. SUFFICES ASSUME NEW i \in A, NEW j \in A, i < j PROVE FALSE
    BY <1>0
  <2>1. i \in 1 .. j - 1 /\ SameText(j, i)  BY <1>0 DEF SameText
  <2>. QED  BY <2>1 DEF Repeats
<1>4. CASE A = {}
  <2>. HIDE DEF A
  <2>. QED  BY <1>1, <1>2, <1>4, FS_EmptySet
<1>5. CASE A # {}
  <2>1. PICK i \in A : TRUE  BY <1>5
  <2>2. A = {i}  BY <1>3, <2>1
  <2>. HIDE DEF A
  <2>. QED  BY <1>1, <1>2, <1>5, <2>2, FS_Singleton
<1>. QED  BY <1>4, <1>5

LEMMA NoPairs ==
  ASSUME pairs' = <<>>, NEW x PROVE PairCount(x)' = 0
<1>1. {i \in 1 .. Len(pairs') : pairs'[i].key = x} = {}  OBVIOUS
<1>. QED  BY <1>1, FS_EmptySet DEF PairCount, Times

LEMMA CloseObjectCounts ==
  ASSUME TextInv, RefsCountOwners, CloseObject PROVE RefsCountOwners'
<1>. DEFINE n == Len(pairs)
            d == [entries |-> DictOf(n), spelled |-> Spelled]
            gone == Released(n)
<1>1. Types  BY DEF TextInv
<1>2. n \in Nat /\ n \in Int /\ n <= Len(pairs)  BY <1>1 DEF Types
<1>3. \A str \in Strings : gone[str] \in Int  BY <1>1, <1>2, ReleasedInt
<1>4. heap' = Dropped(heap, gone) /\ dicts' = Append(dicts, d) /\ pairs' = <<>>
      /\ UNCHANGED <<loaded, cache>>
  BY DEF CloseObject, EndOfObject
<1>5. heap \in Seq(HeapString)  BY <1>1 DEF Types
<1>6. /\ Len(heap') = Len(heap)
      /\ \A str \in Strings : heap'[str].refs = heap[str].refs - gone[str]
  BY <1>1, <1>3, <1>4, <1>5, DroppedKeeps
<1>7. ASSUME NEW x \in Strings
      PROVE  DictCount(x)' = DictCount(x) + (IF \E e \in DictOf(n) : e.key = x THEN 1 ELSE 0)
  <2>. DEFINE m == Len(dicts)
  <2>1. m \in Nat /\ Len(dicts') = m + 1 /\ dicts'[m + 1] = d /\ \A i \in 1 .. m : dicts'[i] = dicts[i]
    BY <1>1, <1>4 DEF Types
  <2>2. d.entries = DictOf(n)  OBVIOUS
  <2>3. 1 .. Len(dicts') = 1 .. m \cup {m + 1} /\ m + 1 \notin 1 .. m  BY <2>1
  <2>4. IsFiniteSet(DictsWith(x)) /\ DictCount(x) \in Nat  BY <1>1, DictsFinite
  <2>5. DictCount(x)' = Cardinality(DictsWith(x)')  BY DEF DictCount
  <2>6. CASE \E e \in DictOf(n) : e.key = x
    <3>1. DictsWith(x)' = DictsWith(x) \cup {m + 1} /\ m + 1 \notin DictsWith(x)
      BY <2>1, <2>2, <2>3, <2>6 DEF DictsWith
    <3>2. Cardinality(DictsWith(x) \cup {m + 1}) = Cardinality(DictsWith(x)) + 1
      BY <2>4, <3>1, FS_AddElement
    <3>. QED  BY <2>5, <2>6, <3>1, <3>2 DEF DictCount
  <2>7. CASE ~ \E e \in DictOf(n) : e.key = x
    <3>1. DictsWith(x)' = DictsWith(x)
      BY <2>1, <2>2, <2>3, <2>7 DEF DictsWith
    <3>. QED  BY <2>4, <2>5, <2>7, <3>1 DEF DictCount
  <2>. QED  BY <2>6, <2>7
<1>8. ASSUME NEW x \in Strings
      PROVE  PairCount(x) = gone[x] + (IF \E e \in DictOf(n) : e.key = x THEN 1 ELSE 0)
  <2>. DEFINE ps == {i \in 1 .. n : Repeats(i)}
              qs == {i \in 1 .. n : ~Repeats(i)}
  <2>1. ps \subseteq 1 .. n /\ qs \subseteq 1 .. n /\ ps \cap qs = {} /\ ps \cup qs = 1 .. n
    OBVIOUS
  <2>2. Times(x, ps \cup qs) = Times(x, ps) + Times(x, qs)  BY <1>1, <2>1, TimesAdd
  <2>3. gone[x] = Times(x, ps)  BY <1>1, <1>2, ReleasedIs
  <2>4. Times(x, qs) = IF \E e \in DictOf(n) : e.key = x THEN 1 ELSE 0  BY FirstPairs
  <2>. HIDE DEF ps, qs, gone
  <2>5. PairCount(x) = Times(x, ps \cup qs)  BY <2>1 DEF PairCount
  <2>. QED  BY <2>2, <2>3, <2>4, <2>5
<1>9. \A x : SlotCount(x)' = SlotCount(x)  BY <1>4 DEF SlotCount, CacheCount
<1>10. \A x : PairCount(x)' = 0  BY <1>4, NoPairs
<1>. HIDE DEF gone
<1>11. ASSUME NEW x \in Strings
       PROVE /\ SlotCount(x)' + PairCount(x)' + DictCount(x)'
                  = SlotCount(x) + PairCount(x) + DictCount(x) - gone[x]
             /\ SlotCount(x)' \in Nat /\ PairCount(x)' \in Nat /\ DictCount(x)' \in Nat
  <2>1. SlotCount(x) \in Nat /\ DictCount(x) \in Nat /\ PairCount(x) \in Nat /\ gone[x] \in Int
    BY <1>1, <1>3, CountsAreNat
  <2>2. SlotCount(x)' = SlotCount(x) /\ PairCount(x)' = 0  BY <1>9, <1>10
  <2>3. CASE \E e \in DictOf(n) : e.key = x
    <3>1. DictCount(x)' = DictCount(x) + 1 /\ PairCount(x) = gone[x] + 1  BY <1>7, <1>8, <2>3
    <3>. QED  BY <2>1, <2>2, <3>1
  <2>4. CASE ~ \E e \in DictOf(n) : e.key = x
    <3>1. DictCount(x)' = DictCount(x) + 0 /\ PairCount(x) = gone[x] + 0  BY <1>7, <1>8, <2>4
    <3>. QED  BY <2>1, <2>2, <3>1
  <2>. QED  BY <2>3, <2>4
<1>. QED  BY <1>1, <1>3, <1>6, <1>11, DropCounts

\* The object ends without a dict: every pair's reference is given back.
LEMMA PairsGivenBack ==
  ASSUME TextInv, RefsCountOwners, pairs' = <<>>, UNCHANGED <<loaded, cache, dicts>>,
         Len(heap') = Len(heap),
         \A str \in Strings : heap'[str].refs = heap[str].refs - PairCount(str)
  PROVE  RefsCountOwners'
<1>. DEFINE gone == [str \in Strings |-> PairCount(str)]
<1>1. Types  BY DEF TextInv
<1>2. \A str \in Strings : PairCount(str) \in Nat  BY <1>1, CountsAreNat
<1>3. \A str \in Strings : gone[str] = PairCount(str)  OBVIOUS
<1>. HIDE DEF gone
<1>4. \A str \in Strings : gone[str] \in Int /\ heap'[str].refs = heap[str].refs - gone[str]
  BY <1>2, <1>3
<1>5. ASSUME NEW x \in Strings
      PROVE /\ SlotCount(x)' + PairCount(x)' + DictCount(x)'
                 = SlotCount(x) + PairCount(x) + DictCount(x) - gone[x]
            /\ SlotCount(x)' \in Nat /\ PairCount(x)' \in Nat /\ DictCount(x)' \in Nat
  <2>1. SlotCount(x)' = SlotCount(x) /\ DictCount(x)' = DictCount(x)
    BY DEF SlotCount, CacheCount, DictCount, DictsWith
  <2>2. PairCount(x)' = 0  BY NoPairs
  <2>3. SlotCount(x) \in Nat /\ DictCount(x) \in Nat /\ PairCount(x) \in Nat  BY <1>1, CountsAreNat
  <2>. QED  BY <1>3, <2>1, <2>2, <2>3
<1>. QED  BY <1>1, <1>4, <1>5, DropCounts

LEMMA InsertFailsCounts ==
  ASSUME TextInv, RefsCountOwners, NEW n \in 1 .. MaxPairs, InsertFails(n)
  PROVE  RefsCountOwners'
<1>. DEFINE left == Dropped(heap, Released(n - 1))
            ps == {i \in 1 .. n - 1 : Repeats(i)}
            qs == {i \in 1 .. Len(pairs) : i >= n \/ ~Repeats(i)}
<1>1. Types  BY DEF TextInv
<1>2. /\ n \in 1 .. Len(pairs) /\ heap' = Dropped(left, Rest(n))
      /\ pairs' = <<>> /\ UNCHANGED <<loaded, cache, dicts>>
  BY DEF InsertFails, Rest, EndOfObject
<1>3. n \in Nat /\ Len(pairs) \in Nat /\ n - 1 \in Int /\ n - 1 <= Len(pairs)  BY <1>1, <1>2 DEF Types
<1>4. /\ left \in Seq(HeapString) /\ Len(left) = Len(heap)
      /\ \A str \in Strings : left[str].refs = heap[str].refs - Released(n - 1)[str]
  BY <1>1, <1>2, LeftIs
<1>5. \A str \in Strings : Rest(n)[str] \in Int  BY <1>1, <1>2, RestIs
<1>. HIDE DEF left
<1>6. /\ Len(heap') = Len(heap)
      /\ \A str \in Strings : heap'[str].refs = left[str].refs - Rest(n)[str]
  BY <1>1, <1>2, <1>4, <1>5, DroppedKeeps
<1>7. ASSUME NEW x \in Strings  PROVE heap'[x].refs = heap[x].refs - PairCount(x)
  <2>1. ps \subseteq 1 .. Len(pairs) /\ qs \subseteq 1 .. Len(pairs)
        /\ ps \cap qs = {} /\ ps \cup qs = 1 .. Len(pairs)
    BY <1>2, <1>3
  <2>2. Times(x, ps \cup qs) = Times(x, ps) + Times(x, qs)  BY <1>1, <2>1, TimesAdd
  <2>3. Released(n - 1)[x] = Times(x, ps) /\ Times(x, ps) \in Nat
    BY <1>1, <1>3, <2>1, ReleasedIs, TimesFinite
  <2>4. Rest(n)[x] = Times(x, qs) /\ Times(x, qs) \in Nat
    BY <1>1, <1>2, <2>1, RestIs, TimesFinite
  <2>5. heap[x].refs \in Nat  BY <1>1, RefsAreNat
  <2>. HIDE DEF ps, qs
  <2>6. PairCount(x) = Times(x, ps) + Times(x, qs)  BY <2>1, <2>2 DEF PairCount
  <2>7. heap'[x].refs = heap[x].refs - Times(x, ps) - Times(x, qs)  BY <1>4, <1>6, <2>3, <2>4
  <2>. QED  BY <2>3, <2>4, <2>5, <2>6, <2>7
<1>. QED  BY <1>2, <1>6, <1>7, PairsGivenBack

LEMMA AbandonCounts ==
  ASSUME TextInv, RefsCountOwners, Abandon PROVE RefsCountOwners'
<1>1. Types  BY DEF TextInv
<1>2. /\ heap' = Dropped(heap, All) /\ pairs' = <<>> /\ UNCHANGED <<loaded, cache, dicts>>
  BY DEF Abandon, All, EndOfObject
<1>3. \A str \in Strings : All[str] \in Int /\ All[str] = PairCount(str)  BY <1>1, AllIs DEF PairCount
<1>4. heap \in Seq(HeapString)  BY <1>1 DEF Types
<1>5. /\ Len(heap') = Len(heap)
      /\ \A str \in Strings : heap'[str].refs = heap[str].refs - All[str]
  BY <1>1, <1>2, <1>3, <1>4, DroppedKeeps
<1>. QED  BY <1>2, <1>3, <1>5, PairsGivenBack

\* Of the dicts with a string there is one fewer, or as many.
LEMMA DictsMoveUp ==
  ASSUME Types, NEW d \in 1 .. Len(dicts), Len(dicts') = Len(dicts) - 1,
         \A i \in 1 .. Len(dicts') : dicts'[i] = dicts[IF i < d THEN i ELSE i + 1],
         NEW x
  PROVE  DictCount(x)' = DictCount(x) - (IF \E e \in dicts[d].entries : e.key = x THEN 1 ELSE 0)
<1>. DEFINE m == Len(dicts)
            A == DictsWith(x) \ {d}
            B == {i \in 1 .. m - 1 : \E e \in dicts[IF i < d THEN i ELSE i + 1].entries : e.key = x}
            f == [i \in B |-> IF i < d THEN i ELSE i + 1]
<1>1. m \in Nat /\ d \in Nat  BY DEF Types
<1>2. IsFiniteSet(DictsWith(x)) /\ DictCount(x) \in Nat  BY DictsFinite
<1>3. DictsWith(x)' = B  BY DEF DictsWith
<1>4. f \in [B -> A]
  <2>. SUFFICES ASSUME NEW i \in B PROVE (IF i < d THEN i ELSE i + 1) \in A
    OBVIOUS
  <2>1. (IF i < d THEN i ELSE i + 1) \in 1 .. m /\ (IF i < d THEN i ELSE i + 1) # d  BY <1>1
  <2>. QED  BY <2>1 DEF DictsWith
<1>5. \A i, j \in B : f[i] = f[j] => i = j  BY <1>1
<1>6. \A a \in A : \E i \in B : f[i] = a
  <2>. TAKE a \in A
  <2>0. a \in 1 .. m /\ a # d /\ \E e \in dicts[a].entries : e.key = x  BY DEF DictsWith
  <2>1. CASE a < d
    <3>1. a \in B  BY <1>1, <2>0, <2>1
    <3>. QED  BY <2>1, <3>1
  <2>2. CASE a > d
    <3>1. a - 1 \in 1 .. m - 1 /\ ~ a - 1 < d /\ (a - 1) + 1 = a  BY <1>1, <2>0, <2>2
    <3>2. a - 1 \in B  BY <2>0, <3>1
    <3>. WITNESS a - 1 \in B
    <3>. QED  BY <3>1, <3>2
  <2>3. a < d \/ a > d  BY <1>1, <2>0
  <2>. QED  BY <2>1, <2>2, <2>3, Zenon
<1>. HIDE DEF f, A, B
<1>7. f \in Bijection(B, A)
  <2>1. f \in Injection(B, A)  BY <1>4, <1>5 DEF Injection, IsInjective
  <2>2. f \in Surjection(B, A)  BY <1>4, <1>6 DEF Surjection
  <2>. QED  BY <2>1, <2>2 DEF Bijection
<1>8. IsFiniteSet(A) /\ Cardinality(A) = IF d \in DictsWith(x) THEN DictCount(x) - 1 ELSE DictCount(x)
  BY <1>2, FS_RemoveElement DEF A, DictCount
<1>9. ExistsBijection(A, B)
  <2>1. ExistsBijection(B, A)  BY <1>7 DEF ExistsBijection
  <2>. QED  BY <2>1, Fun_ExistsBijSymmetric
<1>10. Cardinality(B) = Cardinality(A)  BY <1>8, <1>9, FS_Bijection
<1>11. d \in DictsWith(x) <=> \E e \in dicts[d].entries : e.key = x  BY DEF DictsWith
<1>12. DictCount(x)' = Cardinality(B)  BY <1>3 DEF DictCount
<1>. QED  BY <1>2, <1>8, <1>10, <1>11, <1>12

LEMMA DropDictCounts ==
  ASSUME TextInv, RefsCountOwners, NEW d \in 1 .. Len(dicts), DropDict(d) PROVE RefsCountOwners'
<1>. DEFINE gone == OfDict(d)
<1>1. Types /\ DictIsSpelled  BY DEF TextInv
<1>2. heap' = Dropped(heap, gone) /\ UNCHANGED <<loaded, cache, pairs>>
  BY DEF DropDict, OfDict
<1>3. \A str \in Strings : gone[str] = IF \E e \in dicts[d].entries : e.key = str THEN 1 ELSE 0
  BY <1>1, OfDictIs
<1>. HIDE DEF gone
<1>4. \A str \in Strings : gone[str] \in Int  BY <1>3
<1>5. heap \in Seq(HeapString) /\ dicts \in Seq(Dict(Len(heap)))  BY <1>1 DEF Types
<1>6. /\ Len(heap') = Len(heap)
      /\ \A str \in Strings : heap'[str].refs = heap[str].refs - gone[str]
  BY <1>1, <1>2, <1>4, <1>5, DroppedKeeps
<1>7. dicts' = SubSeq(dicts, 1, d - 1) \o SubSeq(dicts, d + 1, Len(dicts))  BY DEF DropDict
<1>8. /\ Len(dicts') = Len(dicts) - 1
      /\ \A i \in 1 .. Len(dicts') : dicts'[i] = dicts[IF i < d THEN i ELSE i + 1]
  BY <1>5, <1>7, WithoutDict
<1>9. ASSUME NEW x \in Strings
      PROVE /\ SlotCount(x)' + PairCount(x)' + DictCount(x)'
                 = SlotCount(x) + PairCount(x) + DictCount(x) - gone[x]
            /\ SlotCount(x)' \in Nat /\ PairCount(x)' \in Nat /\ DictCount(x)' \in Nat
  <2>1. DictCount(x)' = DictCount(x) - gone[x]  BY <1>1, <1>3, <1>8, DictsMoveUp
  <2>2. SlotCount(x)' = SlotCount(x) /\ PairCount(x)' = PairCount(x)
    BY <1>2 DEF SlotCount, CacheCount, PairCount, Times
  <2>3. SlotCount(x) \in Nat /\ DictCount(x) \in Nat /\ PairCount(x) \in Nat /\ gone[x] \in Int
    BY <1>1, <1>4, CountsAreNat
  <2>4. gone[x] = 1 => DictCount(x) > 0
    <3>. SUFFICES ASSUME gone[x] = 1 PROVE DictCount(x) # 0
      BY <2>3
    <3>1. d \in DictsWith(x)  BY <1>3 DEF DictsWith
    <3>2. IsFiniteSet(DictsWith(x))  BY <1>1, DictsFinite
    <3>. QED  BY <3>1, <3>2, FS_EmptySet DEF DictCount
  <2>5. gone[x] \in {0, 1}  BY <1>3
  <2>. QED  BY <2>1, <2>2, <2>3, <2>4, <2>5
<1>. QED  BY <1>1, <1>4, <1>6, <1>9, DropCounts

LEMMA ModuleFreeCounts ==
  ASSUME TextInv, RefsCountOwners, ModuleFree PROVE RefsCountOwners'
<1>1. Types  BY DEF TextInv
<1>2. /\ loaded /\ ~loaded' /\ heap' = Dropped(heap, OfCache) /\ UNCHANGED <<cache, pairs, dicts>>
  BY DEF ModuleFree, OfCache
<1>3. \A str \in Strings : OfCache[str] \in Int /\ OfCache[str] = CacheCount(str)
  BY OfCacheIs DEF CacheCount
<1>4. heap \in Seq(HeapString)  BY <1>1 DEF Types
<1>5. /\ Len(heap') = Len(heap)
      /\ \A str \in Strings : heap'[str].refs = heap[str].refs - OfCache[str]
  BY <1>1, <1>2, <1>3, <1>4, DroppedKeeps
<1>6. ASSUME NEW x \in Strings
      PROVE /\ SlotCount(x)' + PairCount(x)' + DictCount(x)'
                 = SlotCount(x) + PairCount(x) + DictCount(x) - OfCache[x]
            /\ SlotCount(x)' \in Nat /\ PairCount(x)' \in Nat /\ DictCount(x)' \in Nat
  <2>1. SlotCount(x)' = 0 /\ SlotCount(x) = OfCache[x]  BY <1>2, <1>3 DEF SlotCount
  <2>2. DictCount(x)' = DictCount(x) /\ PairCount(x)' = PairCount(x)
    BY <1>2 DEF DictCount, DictsWith, PairCount, Times
  <2>3. SlotCount(x) \in Nat /\ DictCount(x) \in Nat /\ PairCount(x) \in Nat
    BY <1>1, CountsAreNat
  <2>. QED  BY <2>1, <2>2, <2>3
<1>. QED  BY <1>1, <1>3, <1>5, <1>6, DropCounts

LEMMA InitCounts == CacheInit => RefsCountOwners
<1>. SUFFICES ASSUME CacheInit PROVE RefsCountOwners
  OBVIOUS
<1>1. heap = <<[text |-> Empty, refs |-> 1]>> /\ pairs = <<>> /\ dicts = <<>>
      /\ cache = [s \in Slots |-> 0]
  BY DEF CacheInit
<1>2. Strings = {1} /\ heap[1].refs = 1  BY <1>1 DEF Strings
<1>3. {s \in Slots : cache[s] = 1} = {} /\ {i \in 1 .. Len(pairs) : pairs[i].key = 1} = {}
      /\ DictsWith(1) = {}
  BY <1>1 DEF DictsWith
<1>4. SlotCount(1) = 0 /\ PairCount(1) = 0 /\ DictCount(1) = 0 /\ Own(1) = 1
  BY <1>3, FS_EmptySet DEF SlotCount, CacheCount, PairCount, Times, DictCount, Own
<1>5. Owners(1) = 1  BY <1>4, OwnersAre
<1>. QED  BY <1>2, <1>5 DEF RefsCountOwners

LEMMA StepCounts == TextInv /\ RefsCountOwners /\ [CacheNext]_cacheVars => RefsCountOwners'
<1>. SUFFICES ASSUME TextInv, RefsCountOwners, [CacheNext]_cacheVars PROVE RefsCountOwners'
  OBVIOUS
<1>1. ASSUME UNCHANGED cacheVars  PROVE RefsCountOwners'
  <2>1. UNCHANGED <<loaded, cache, heap, pairs, dicts>>  BY <1>1 DEF cacheVars
  <2>. QED  BY <2>1 DEF RefsCountOwners, Owners, Times, Strings
<1>2. ASSUME NEW k \in Keys, NEW path \in Paths, ReadKey(k, path)  PROVE RefsCountOwners'
  BY <1>2, ReadKeyCounts
<1>3. ASSUME NEW v \in Values, ReadValue(v)  PROVE RefsCountOwners'  BY <1>3, ReadValueCounts
<1>4. ASSUME CloseObject  PROVE RefsCountOwners'  BY <1>4, CloseObjectCounts
<1>5. ASSUME NEW n \in 1 .. MaxPairs, InsertFails(n)  PROVE RefsCountOwners'
  BY <1>5, InsertFailsCounts
<1>6. ASSUME Abandon  PROVE RefsCountOwners'  BY <1>6, AbandonCounts
<1>7. ASSUME NEW d \in 1 .. Len(dicts), DropDict(d)  PROVE RefsCountOwners'  BY <1>7, DropDictCounts
<1>8. ASSUME ModuleFree  PROVE RefsCountOwners'  BY <1>8, ModuleFreeCounts
<1>. QED  BY <1>1, <1>2, <1>3, <1>4, <1>5, <1>6, <1>7, <1>8 DEF CacheNext

-----------------------------------------------------------------------------
(* What is freed.                                                          *)

\* The strings whose last reference a step gives back are freed, as long as
\* the references it gives back without a look are none.
LEMMA DropFrees ==
  ASSUME Types, LeaksOnlyRepeated, ~repeated,
         NEW h \in Seq(HeapString), Len(h) = Len(heap),
         \A str \in Strings : h[str].refs = heap[str].refs,
         NEW drop, \A str \in Strings : drop[str] \in Nat,
         heap' = Dropped(h, drop), freed' = freed \union FreedBy(h, drop)
  PROVE  LeaksOnlyRepeated'
<1>1. \A str \in Strings : drop[str] \in Int
  OBVIOUS
<1>2. Len(heap') = Len(heap) /\ \A str \in Strings : heap'[str].refs = h[str].refs - drop[str]
  BY <1>1, DroppedKeeps
<1>3. Strings' = Strings  BY <1>2 DEF Strings
<1>4. ASSUME NEW x \in Strings, heap'[x].refs = 0  PROVE x \in freed'
  <2>1. heap[x] \in HeapString  BY DEF Types, Strings
  <2>2. heap[x].refs \in Int /\ drop[x] \in Nat /\ h[x].refs = heap[x].refs
    BY <2>1 DEF HeapString
  <2>3. h[x].refs - drop[x] = 0  BY <1>2, <1>4
  <2>4. CASE drop[x] = 0
    <3>1. heap[x].refs = 0  BY <2>2, <2>3, <2>4
    <3>. QED  BY <3>1 DEF LeaksOnlyRepeated
  <2>5. CASE drop[x] > 0
    <3>1. h[x].refs = drop[x]  BY <2>2, <2>3
    <3>. QED  BY <2>5, <3>1 DEF FreedBy
  <2>. QED  BY <2>2, <2>4, <2>5
<1>. QED  BY <1>3, <1>4 DEF LeaksOnlyRepeated

\* An object that repeats no key gives no reference back without a look.
LEMMA NothingReleased ==
  ASSUME TextInv, EndOfObject, ~repeated', NEW n \in Int, n <= Len(pairs)
  PROVE  /\ ~repeated
         /\ \A str \in Strings : Released(n)[str] = 0
<1>1. Types  BY DEF TextInv
<1>2. \A i, j \in 1 .. Len(read) : i # j => read[i].text # read[j].text  BY DEF EndOfObject
<1>3. Len(read) = Len(pairs) /\ Len(pairs) \in Nat  BY <1>1 DEF Types
<1>4. ASSUME NEW i \in 1 .. n, NEW j \in 1 .. i - 1  PROVE ~SameText(i, j)
  <2>1. i \in 1 .. Len(pairs) /\ j \in 1 .. Len(pairs) /\ i # j  BY <1>3, <1>4
  <2>2. read[i].text = heap[pairs[i].key].text /\ read[j].text = heap[pairs[j].key].text
    BY <2>1, ReadIs
  <2>3. read[i].text # read[j].text  BY <1>2, <1>3, <2>1
  <2>. QED  BY <2>2, <2>3 DEF SameText
<1>5. {i \in 1 .. n : Repeats(i)} = {}  BY <1>4 DEF Repeats
<1>6. ASSUME NEW str \in Strings  PROVE Released(n)[str] = 0
  <2>1. Released(n)[str] = Times(str, {})  BY <1>1, <1>5, ReleasedIs
  <2>2. {i \in {} : pairs[i].key = str} = {}  OBVIOUS
  <2>3. Times(str, {}) = 0  BY <2>2, FS_EmptySet DEF Times
  <2>. QED  BY <2>1, <2>3, Zenon
<1>. QED  BY <1>6 DEF EndOfObject

\* The only string that is new is the one that was asked for.
LEMMA NewIsMade ==
  ASSUME Types, NEW k \in Keys, NEW path, NEW str, MakeKey(k, path, str),
         NEW x \in 1 .. Len(heap'), x \notin Strings
  PROVE  x = str
<1>. DEFINE old == cache[Slot(k)]
            hit == MayCache(k, path) /\ old # 0 /\ Hit(k, old)
<1>1. Len(heap) \in Nat /\ Strings = 1 .. Len(heap)  BY DEF Types, Strings
<1>2. old \in 0 .. Len(heap) /\ Slot(k) \in Slots  BY SlotType DEF Types
<1>3. CASE hit /\ str = old /\ heap' = WithRefs(str, 1, k)
  <2>1. str \in Strings /\ heap[str].text = k  BY <1>1, <1>2, <1>3, HitIsText
  <2>. QED  BY <1>3, <2>1, WithRefsKeeps
<1>4. CASE str = NewString(k) /\ heap' = WithRefs(str, 1, k)
  BY <1>4, NewStringType, WithRefsKeeps
<1>5. CASE str = NewString(k) /\ Cached(str, k, old)
  <2>. DEFINE h == WithRefs(str, 2, k)
  <2>1. str = Len(heap) + 1 \/ (str \in Strings /\ heap[str].text = k)  BY <1>5, NewStringType
  <2>2. h \in Seq(HeapString) /\ \A y \in 1 .. Len(h) : y \notin Strings => y = str
    <3>1. 2 \in Int  OBVIOUS
    <3>2. RefsGiven(h, str, 2, k)  BY <2>1, <3>1, WithRefsGives
    <3>. HIDE DEF h
    <3>. QED  BY <3>2 DEF RefsGiven
  <2>3. heap' = IF old = 0 THEN h ELSE [h EXCEPT ![old].refs = @ - 1]  BY <1>5 DEF Cached
  <2>. HIDE DEF h
  <2>4. Len(heap') = Len(h)  BY <2>2, <2>3
  <2>. QED  BY <2>2, <2>4
<1>. QED  BY <1>3, <1>4, <1>5 DEF MakeKey

LEMMA ReadKeyFrees ==
  ASSUME TextInv, RefsCountOwners, LeaksOnlyRepeated, NEW k \in Keys, NEW path, ReadKey(k, path)
  PROVE  LeaksOnlyRepeated'
<1>1. PICK str \in 1 .. MaxHeap : /\ MakeKey(k, path, str)
                                  /\ pairs' = Append(pairs, [key |-> str, val |-> NoValue])
  BY DEF ReadKey
<1>. DEFINE old == cache[Slot(k)]
<1>2. Types /\ repeated' = repeated  BY DEF TextInv, ReadKey
<1>3. RefsCountOwners' /\ TextInv'  BY ReadKeyCounts, ReadKeyText
<1>4. HeapKept  BY <1>1, <1>2, MakeKeyKeeps
<1>5. Len(heap) \in Nat /\ Len(heap') \in Nat /\ Strings = 1 .. Len(heap) /\ Strings' = 1 .. Len(heap')
  BY <1>2, <1>4 DEF Types, HeapKept, Strings
<1>6. \/ freed' = freed /\ cache' = cache
      \/ /\ cache' = [cache EXCEPT ![Slot(k)] = str]
         /\ freed' = freed \union (IF old # 0 /\ heap[old].refs = 1 THEN {old} ELSE {})
  BY <1>1 DEF MakeKey, Cached
<1>7. ASSUME ~repeated, NEW x \in Strings', heap'[x].refs = 0  PROVE x \in freed'
  <2>1. heap'[x].refs = SlotCount(x)' + PairCount(x)' + DictCount(x)' + Own(x)
    BY <1>3, <1>7 DEF RefsCountOwners, Owners, SlotCount, CacheCount, PairCount, DictCount,
                      DictsWith, Own
  <2>2. SlotCount(x)' \in Nat /\ PairCount(x)' \in Nat /\ DictCount(x)' \in Nat /\ Own(x) \in Nat
    <3>1. SlotCount(x)' \in Nat  BY SlotsFinite DEF SlotCount, CacheCount
    <3>2. PairCount(x)' = PairCount(x) + (IF x = str THEN 1 ELSE 0)  BY <1>1, <1>2, PairPushed
    <3>3. DictCount(x)' = DictCount(x)  BY DEF ReadKey, DictCount, DictsWith
    <3>4. PairCount(x) \in Nat /\ DictCount(x) \in Nat /\ Own(x) \in Nat  BY <1>2, CountsAreNat
    <3>. QED  BY <3>1, <3>2, <3>3, <3>4
  <2>3. x # str
    <3>1. PairCount(x)' = PairCount(x) + (IF x = str THEN 1 ELSE 0)  BY <1>1, <1>2, PairPushed
    <3>2. PairCount(x) \in Nat  BY <1>2, CountsAreNat
    <3>3. PairCount(x)' = 0  BY <1>7, <2>1, <2>2
    <3>. QED  BY <3>1, <3>2, <3>3
  <2>4. heap'[x].refs = Before(x) + CacheCount(x)' - CacheCount(x)
        /\ CacheCount(x) \in Nat /\ CacheCount(x)' \in Nat
    <3>1. heap'[x].refs = Before(x) + (IF x = str THEN 1 ELSE 0) + CacheCount(x)' - CacheCount(x)
      BY <1>1, <1>2, <1>5, <1>7, MakeKeyCounts
    <3>2. CacheCount(x) \in Nat /\ CacheCount(x)' \in Nat  BY SlotsFinite DEF CacheCount
    <3>3. Before(x) \in Int
      <4>1. \A y \in Strings : heap[y] \in HeapString  BY <1>2, <1>5 DEF Types
      <4>. QED  BY <4>1 DEF Before, HeapString
    <3>. QED  BY <2>3, <3>1, <3>2, <3>3
  <2>5. x \in Strings  BY <1>1, <1>2, <1>5, <1>7, <2>3, NewIsMade
  <2>6. Before(x) = heap[x].refs /\ heap[x].refs \in Nat  BY <1>2, <2>5, RefsAreNat DEF Before
  <2>7. CASE freed' = freed /\ cache' = cache
    <3>1. CacheCount(x)' = CacheCount(x)  BY <2>7 DEF CacheCount
    <3>2. heap[x].refs = 0  BY <1>7, <2>4, <2>6, <3>1
    <3>. QED  BY <1>7, <2>5, <2>7, <3>2 DEF LeaksOnlyRepeated
  <2>8. CASE /\ cache' = [cache EXCEPT ![Slot(k)] = str]
             /\ freed' = freed \union (IF old # 0 /\ heap[old].refs = 1 THEN {old} ELSE {})
    <3>1. Slot(k) \in Slots /\ cache \in [Slots -> 0 .. Len(heap)]  BY <1>2, SlotType DEF Types
    <3>2. CASE old # str
      <4>1. CacheCount(x)' = CacheCount(x) - (IF x = old THEN 1 ELSE 0)
        <5>1. CacheCount(x)' = CacheCount(x) + (IF x = str THEN 1 ELSE 0) - (IF x = old THEN 1 ELSE 0)
          BY <1>2, <2>8, <3>1, <3>2, SlotTaken
        <5>. QED  BY <2>3, <2>4, <5>1
      <4>2. CASE x = old
        <5>1. heap[x].refs = 1  BY <1>7, <2>4, <2>6, <4>1, <4>2
        <5>2. x # 0  BY <1>5, <2>5
        <5>. QED  BY <2>8, <4>2, <5>1, <5>2
      <4>3. CASE x # old
        <5>1. heap[x].refs = 0  BY <1>7, <2>4, <2>6, <4>1, <4>3
        <5>. QED  BY <1>7, <2>5, <2>8, <5>1 DEF LeaksOnlyRepeated
      <4>. QED  BY <4>2, <4>3
    <3>3. CASE old = str
      <4>1. cache' = cache  BY <2>8, <3>1, <3>3
      <4>2. CacheCount(x)' = CacheCount(x)  BY <4>1 DEF CacheCount
      <4>3. heap[x].refs = 0  BY <1>7, <2>4, <2>6, <4>2
      <4>. QED  BY <1>7, <2>5, <2>8, <4>3 DEF LeaksOnlyRepeated
    <3>. QED  BY <3>2, <3>3
  <2>. QED  BY <1>6, <2>7, <2>8
<1>. QED  BY <1>2, <1>7 DEF LeaksOnlyRepeated

LEMMA CloseObjectFrees ==
  ASSUME TextInv, LeaksOnlyRepeated, CloseObject PROVE LeaksOnlyRepeated'
<1>. SUFFICES ASSUME ~repeated' PROVE \A x \in Strings' : heap'[x].refs = 0 => x \in freed'
  BY DEF LeaksOnlyRepeated
<1>. DEFINE gone == Released(Len(pairs))
<1>1. Types /\ EndOfObject /\ heap' = Dropped(heap, gone) /\ UNCHANGED freed
  BY DEF TextInv, CloseObject
<1>2. Len(pairs) \in Int /\ Len(pairs) <= Len(pairs) /\ heap \in Seq(HeapString)  BY <1>1 DEF Types
<1>3. ~repeated /\ \A str \in Strings : gone[str] = 0  BY <1>1, <1>2, NothingReleased
<1>. HIDE DEF gone
<1>4. \A str \in Strings : gone[str] \in Int  BY <1>3
<1>5. Len(heap') = Len(heap) /\ \A str \in Strings : heap'[str].refs = heap[str].refs - gone[str]
  BY <1>1, <1>2, <1>4, DroppedKeeps
<1>6. ASSUME NEW x \in Strings, heap'[x].refs = 0  PROVE x \in freed'
  <2>1. heap[x] \in HeapString  BY <1>2 DEF Strings
  <2>2. heap[x].refs \in Int  BY <2>1 DEF HeapString
  <2>3. heap[x].refs = 0  BY <1>3, <1>5, <1>6, <2>2
  <2>. QED  BY <1>1, <1>3, <2>3 DEF LeaksOnlyRepeated
<1>. QED  BY <1>5, <1>6 DEF Strings

LEMMA InsertFailsFrees ==
  ASSUME TextInv, LeaksOnlyRepeated, NEW n \in 1 .. MaxPairs, InsertFails(n)
  PROVE  LeaksOnlyRepeated'
<1>. SUFFICES ASSUME ~repeated' PROVE LeaksOnlyRepeated'
  BY DEF LeaksOnlyRepeated
<1>. DEFINE left == Dropped(heap, Released(n - 1))
<1>1. /\ Types /\ EndOfObject /\ n \in 1 .. Len(pairs)
      /\ heap' = Dropped(left, Rest(n)) /\ freed' = freed \union FreedBy(left, Rest(n))
  BY DEF TextInv, InsertFails, Rest
<1>2. n - 1 \in Int /\ n - 1 <= Len(pairs)  BY <1>1 DEF Types
<1>3. ~repeated /\ \A str \in Strings : Released(n - 1)[str] = 0  BY <1>1, <1>2, NothingReleased
<1>4. /\ left \in Seq(HeapString) /\ Len(left) = Len(heap)
      /\ \A str \in Strings : left[str].refs = heap[str].refs - Released(n - 1)[str]
  BY <1>1, LeftIs
<1>. HIDE DEF left
<1>5. \A str \in Strings : left[str].refs = heap[str].refs
  <2>. TAKE str \in Strings
  <2>1. heap[str] \in HeapString  BY <1>1 DEF Types, Strings
  <2>2. heap[str].refs \in Int  BY <2>1 DEF HeapString
  <2>. QED  BY <1>3, <1>4, <2>2
<1>6. \A str \in Strings : Rest(n)[str] \in Nat
  <2>. TAKE str \in Strings
  <2>1. {i \in 1 .. Len(pairs) : i >= n \/ ~Repeats(i)} \subseteq 1 .. Len(pairs)  OBVIOUS
  <2>2. Times(str, {i \in 1 .. Len(pairs) : i >= n \/ ~Repeats(i)}) \in Nat
    BY <1>1, <2>1, TimesFinite
  <2>3. Rest(n)[str] = Times(str, {i \in 1 .. Len(pairs) : i >= n \/ ~Repeats(i)})
    BY <1>1, RestIs
  <2>. QED  BY <2>2, <2>3, Zenon
<1>. QED  BY <1>1, <1>3, <1>4, <1>5, <1>6, DropFrees

LEMMA AbandonFrees ==
  ASSUME TextInv, LeaksOnlyRepeated, Abandon PROVE LeaksOnlyRepeated'
<1>. SUFFICES ASSUME ~repeated' PROVE LeaksOnlyRepeated'
  BY DEF LeaksOnlyRepeated
<1>1. /\ Types /\ heap' = Dropped(heap, All) /\ freed' = freed \union FreedBy(heap, All)
      /\ ~repeated
  BY DEF TextInv, Abandon, All, EndOfObject
<1>2. \A str \in Strings : All[str] \in Nat
  <2>. TAKE str \in Strings
  <2>1. Times(str, 1 .. Len(pairs)) \in Nat  BY <1>1, TimesFinite
  <2>. QED  BY <1>1, <2>1, AllIs, Zenon
<1>3. heap \in Seq(HeapString)  BY <1>1 DEF Types
<1>. QED  BY <1>1, <1>2, <1>3, DropFrees

LEMMA DropDictFrees ==
  ASSUME TextInv, LeaksOnlyRepeated, NEW d \in 1 .. Len(dicts), DropDict(d)
  PROVE  LeaksOnlyRepeated'
<1>. SUFFICES ASSUME ~repeated' PROVE LeaksOnlyRepeated'
  BY DEF LeaksOnlyRepeated
<1>1. /\ Types /\ DictIsSpelled /\ heap' = Dropped(heap, OfDict(d))
      /\ freed' = freed \union FreedBy(heap, OfDict(d)) /\ ~repeated
  BY DEF TextInv, DropDict, OfDict
<1>2. \A str \in Strings : OfDict(d)[str] = IF \E e \in dicts[d].entries : e.key = str THEN 1 ELSE 0
  BY <1>1, OfDictIs
<1>3. \A str \in Strings : OfDict(d)[str] \in Nat
  <2>. TAKE str \in Strings
  <2>1. OfDict(d)[str] = 1 \/ OfDict(d)[str] = 0  BY <1>2, Zenon
  <2>2. 0 \in Nat /\ 1 \in Nat  OBVIOUS
  <2>. QED  BY <2>1, <2>2, Zenon
<1>4. heap \in Seq(HeapString)  BY <1>1 DEF Types
<1>. QED  BY <1>1, <1>3, <1>4, DropFrees

LEMMA ModuleFreeFrees ==
  ASSUME TextInv, LeaksOnlyRepeated, ModuleFree PROVE LeaksOnlyRepeated'
<1>. SUFFICES ASSUME ~repeated' PROVE LeaksOnlyRepeated'
  BY DEF LeaksOnlyRepeated
<1>1. /\ Types /\ heap' = Dropped(heap, OfCache) /\ freed' = freed \union FreedBy(heap, OfCache)
      /\ ~repeated
  BY DEF TextInv, ModuleFree, OfCache
<1>2. \A str \in Strings : OfCache[str] \in Nat
  <2>. TAKE str \in Strings
  <2>1. Cardinality({s \in Slots : cache[s] = str}) \in Nat  BY SlotsFinite
  <2>. QED  BY <2>1, OfCacheIs, Zenon
<1>3. heap \in Seq(HeapString)  BY <1>1 DEF Types
<1>. QED  BY <1>1, <1>2, <1>3, DropFrees

LEMMA StepFrees ==
  TextInv /\ RefsCountOwners /\ LeaksOnlyRepeated /\ [CacheNext]_cacheVars => LeaksOnlyRepeated'
<1>. SUFFICES ASSUME TextInv, RefsCountOwners, LeaksOnlyRepeated, [CacheNext]_cacheVars
              PROVE  LeaksOnlyRepeated'
  OBVIOUS
<1>1. ASSUME UNCHANGED cacheVars  PROVE LeaksOnlyRepeated'
  BY <1>1 DEF cacheVars, LeaksOnlyRepeated, Strings
<1>2. ASSUME NEW k \in Keys, NEW path \in Paths, ReadKey(k, path)  PROVE LeaksOnlyRepeated'
  BY <1>2, ReadKeyFrees
<1>3. ASSUME NEW v \in Values, ReadValue(v)  PROVE LeaksOnlyRepeated'
  BY <1>3 DEF ReadValue, LeaksOnlyRepeated, Strings
<1>4. ASSUME CloseObject  PROVE LeaksOnlyRepeated'  BY <1>4, CloseObjectFrees
<1>5. ASSUME NEW n \in 1 .. MaxPairs, InsertFails(n)  PROVE LeaksOnlyRepeated'
  BY <1>5, InsertFailsFrees
<1>6. ASSUME Abandon  PROVE LeaksOnlyRepeated'  BY <1>6, AbandonFrees
<1>7. ASSUME NEW d \in 1 .. Len(dicts), DropDict(d)  PROVE LeaksOnlyRepeated'
  BY <1>7, DropDictFrees
<1>8. ASSUME ModuleFree  PROVE LeaksOnlyRepeated'  BY <1>8, ModuleFreeFrees
<1>. QED  BY <1>1, <1>2, <1>3, <1>4, <1>5, <1>6, <1>7, <1>8 DEF CacheNext

LEMMA InitFrees == CacheInit => LeaksOnlyRepeated
<1>. SUFFICES ASSUME CacheInit PROVE LeaksOnlyRepeated
  OBVIOUS
<1>1. heap = <<[text |-> Empty, refs |-> 1]>>  BY DEF CacheInit
<1>2. Strings = {1} /\ heap[1].refs = 1  BY <1>1 DEF Strings
<1>. QED  BY <1>2 DEF LeaksOnlyRepeated

-----------------------------------------------------------------------------
(* The theorems.                                                           *)

KeyInv == TextInv /\ RefsCountOwners /\ LeaksOnlyRepeated

LEMMA KeyInvHolds == CacheSpec => []KeyInv
<1>1. CacheInit => KeyInv  BY InitText, InitCounts, InitFrees DEF KeyInv
<1>2. KeyInv /\ [CacheNext]_cacheVars => KeyInv'  BY StepText, StepCounts, StepFrees DEF KeyInv
<1>. QED  BY <1>1, <1>2, PTL DEF CacheSpec

\* For every hash and every size of the cache, a key on the object stack has
\* the text that was read: a string that the cache answers for other bytes of
\* the same slot, or for the same bytes of another kind, is never taken
\* (get_key_cache), and no later step changes the text of a string.
THEOREM KeysAreText == CacheSpec => []KeyIsText
<1>1. KeyInv => KeyIsText  BY ReadIs DEF KeyInv, KeyIsText
<1>. QED  BY <1>1, KeyInvHolds, PTL

\* A dict that loads() made has each key of its text once, with the last value
\* that was given for it (pyyjson_decode_obj), also after the cache dropped
\* its keys and the module went.
THEOREM DictsAreSpelled == CacheSpec => []DictIsSpelled
<1>1. KeyInv => DictIsSpelled  BY DEF KeyInv, TextInv
<1>. QED  BY <1>1, KeyInvHolds, PTL

\* Every key string has as many references as the cache, the open object, the
\* dicts and the interpreter hold of it: add_key_cache's two references, the
\* evicted string's one, a repeated key's, and those a failing insertion gives
\* back are all accounted for.
THEOREM CountsAreOwners == CacheSpec => []RefsCountOwners
<1>1. KeyInv => RefsCountOwners  BY DEF KeyInv
<1>. QED  BY <1>1, KeyInvHolds, PTL

\* As long as no object repeated a key, a string nobody holds has been freed:
\* only Py_DecRef_NoCheck, which a repeated key meets, can leak one.
THEOREM LeaksOnlyByRepeats == CacheSpec => []LeaksOnlyRepeated
<1>1. KeyInv => LeaksOnlyRepeated  BY DEF KeyInv
<1>. QED  BY <1>1, KeyInvHolds, PTL
=============================================================================
