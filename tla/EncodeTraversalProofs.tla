------------------------ MODULE EncodeTraversalProofs ------------------------
(***************************************************************************)
(* Theorems about EncodeTraversal: for every graph of objects and every    *)
(* limit of the nesting, the walk is at the place its stack says, and      *)
(* writes the text of EncodeText for the objects that have one.            *)
(***************************************************************************)
EXTENDS EncodeText, SequenceTheorems, WellFoundedInduction, TLAPS

-----------------------------------------------------------------------------
(* The inductive invariant.                                                *)

InputOK == graph \in Graphs /\ root \in Objects /\ bytes \in BOOLEAN

\* The types of the variables of the walk.
WalkOK ==
  /\ pc \in Labels
  /\ cur \in Objects
  /\ pos \in Nat /\ size \in Nat /\ isTuple \in BOOLEAN
  /\ val \in Objects \union {None}
  /\ depth \in 0 .. MaxRecursion
  /\ stack \in [Slots -> [ctn : Objects \union {None}, index : Nat]]

OutcomeOK ==
  /\ err \in {"none", "MemoryError", "JSONEncodeError"}
  /\ result \in {"null", "text"}

Toks == Objects \union Marks

\* The sizes are counted for the levels that were left.
TextOK ==
  /\ out \in Seq(Toks)
  /\ level \in Levels
  /\ sizes \in [{0, 1, 2} -> Nat]
  /\ \A l \in {0, 1, 2} : l >= level => sizes[l] = 0
  /\ pc # "returned" => Before <= Len(out)

\* The container in hand, and the saved ones: what the labels take for
\* granted.
InHand ==
  /\ pc = "start" => cur = root /\ pos = 0 /\ depth = 0
  /\ Walking =>
       /\ depth >= 1
       /\ cur \in Containers
       /\ pos <= Len(Items(cur))
       /\ pc = "arr_val_begin" <=> Kind[cur] # "dict"
       /\ \A i \in 1 .. depth - 1 : stack[i].ctn \in Containers
  /\ pc = "dict_key_done" => pos >= 1 /\ val = Items(cur)[pos].val

PlaceInv == InputOK /\ WalkOK /\ InHand /\ StackIsPath /\ ListInHand

IInv == PlaceInv /\ TextOK /\ OutcomeOK

LEMMA TypesHold == IInv => TypeOK
  BY DEF IInv, PlaceInv, WalkOK, TextOK, OutcomeOK, TypeOK, Toks

-----------------------------------------------------------------------------
(* The objects.                                                            *)

LEMMA ItemsType ==
  ASSUME InputOK, NEW o \in Containers
  PROVE  /\ Items(o) \in Seq(Item)
         /\ Len(Items(o)) \in Nat
         /\ \A i \in 1 .. Len(Items(o)) : Items(o)[i].val \in Objects
         /\ \A i \in 1 .. Len(Items(o)) : Items(o)[i].key \in Objects \union {None}
         /\ Kind[o] = "dict" => \A i \in 1 .. Len(Items(o)) : Items(o)[i].key \in Objects
         /\ Items(o) # <<>> => Len(Items(o)) # 0
  <1>1. Items(o) \in Seq(Item)
    BY GraphsAssumption DEF InputOK, Items
  <1>2. Len(Items(o)) \in Nat /\ \A i \in 1 .. Len(Items(o)) : Items(o)[i] \in Item
    BY <1>1, ElementOfSeq, LenProperties
  <1>3. \A i \in 1 .. Len(Items(o)) : /\ Items(o)[i].val \in Objects
                                      /\ Items(o)[i].key \in Objects \union {None}
    BY <1>2 DEF Item
  <1>4. Kind[o] = "dict" => \A i \in 1 .. Len(Items(o)) : Items(o)[i].key # None
    BY GraphsAssumption DEF InputOK, Items
  <1>5. Items(o) # <<>> => Len(Items(o)) # 0
    BY <1>1, EmptySeq
  <1>6. QED
    BY <1>1, <1>2, <1>3, <1>4, <1>5

LEMMA ContainerKind ==
  ASSUME NEW o \in Containers
  PROVE  /\ o \in Objects /\ o # None
         /\ LabelOf(o) = "arr_val_begin" <=> Kind[o] # "dict"
         /\ LabelOf(o) = "dict_pair_begin" <=> Kind[o] = "dict"
         /\ LabelOf(o) \in {"arr_val_begin", "dict_pair_begin"}
         /\ Opening(o) \in Marks /\ Closing(o) \in Marks
  BY ObjectsAssumption DEF Containers, LabelOf, Opening, Closing, Marks

-----------------------------------------------------------------------------
(* How the walk moves.                                                     *)

\* A container is entered whose items are known.
LEMMA EnterKeeps ==
  ASSUME InputOK, WalkOK, UNCHANGED input, NEW o \in Containers, Items(o) # <<>>, Enter(o)
  PROVE  /\ InputOK'
         /\ pc' = LabelOf(o) /\ pc' \in {"arr_val_begin", "dict_pair_begin"}
         /\ cur' = o /\ cur' \in Objects /\ size' \in Nat /\ isTuple' \in BOOLEAN
         /\ ListInHand'
         /\ pc' = "arr_val_begin" <=> Kind[o] # "dict"
         /\ graph' = graph /\ root' = root
  <1>1. InputOK' /\ graph' = graph /\ root' = root /\ bytes' = bytes
    BY DEF InputOK, input
  <1>2. Len(Items(o)) \in Nat /\ Len(Items(o)) # 0
    BY ItemsType
  <1>3. pc' = LabelOf(o) /\ cur' = o /\ o \in Objects
    BY ContainerKind DEF Enter
  <1>4. size' \in Nat /\ isTuple' \in BOOLEAN
    BY <1>2 DEF Enter, WalkOK
  <1>5. ListInHand'
    <2>1. SUFFICES ASSUME pc' = "arr_val_begin"
                   PROVE  /\ size' = Len(Items(o)) /\ size' # 0
                          /\ isTuple' = (Kind[o] = "tuple")
      BY <1>1, <1>3 DEF ListInHand, Items
    <2>2. Kind[o] # "dict"
      BY <2>1, <1>3, ContainerKind
    <2>3. QED
      BY <2>2, <1>2 DEF Enter
  <1>6. QED
    BY <1>1, <1>3, <1>4, <1>5, ContainerKind

\* The walk stays in its container, at position p.
LEMMA StayKeeps ==
  ASSUME PlaceInv, Walking, UNCHANGED input, NEW p \in Nat, p <= Len(Items(cur)), pos' = p,
         UNCHANGED <<size, isTuple, depth, stack, cur>>,
         val' \in Objects \union {None},
         \/ pc' = LabelOf(cur)
         \/ /\ pc' = "dict_key_done" /\ Kind[cur] = "dict"
            /\ p >= 1 /\ val' = Items(cur)[p].val
  PROVE  PlaceInv'
  <1>1. cur \in Containers /\ depth >= 1 /\ cur \in Objects
    BY DEF PlaceInv, InHand, WalkOK
  <1>2. InputOK' /\ graph' = graph /\ root' = root /\ Items(cur)' = Items(cur)
    BY DEF PlaceInv, InputOK, input, Items
  <1>3. Walking' /\ pc' \in Labels /\ pc' # "start"
    BY <1>1, ContainerKind DEF Walking, Labels
  <1>4. WalkOK'
    BY <1>3 DEF PlaceInv, WalkOK
  <1>5. pc' = "arr_val_begin" <=> Kind[cur] # "dict"
    BY <1>1, ContainerKind
  <1>6. InHand'
    <2>1. pc' = "dict_key_done" => p >= 1 /\ val' = Items(cur)[p].val
      BY <1>1, ContainerKind
    <2>2. QED
      BY <1>1, <1>2, <1>3, <1>5, <2>1 DEF PlaceInv, InHand, Items
  <1>7. StackIsPath'
    BY <1>2 DEF PlaceInv, StackIsPath, At, Items
  <1>8. ListInHand'
    <2>1. pc' = "arr_val_begin" => pc = "arr_val_begin"
      BY <1>5 DEF PlaceInv, InHand
    <2>2. QED
      BY <1>2, <2>1 DEF PlaceInv, ListInHand, Items
  <1>9. QED
    BY <1>2, <1>4, <1>6, <1>7, <1>8 DEF PlaceInv

\* The walk enters the item before position p.
LEMMA PushKeeps ==
  ASSUME PlaceInv, Walking, UNCHANGED input, NEW p \in 1 .. Len(Items(cur)),
         NEW v \in Containers, v = Items(cur)[p].val, Items(v) # <<>>,
         ~AtLimit, Push(v, p), pos' = 0, val' = val
  PROVE  PlaceInv'
  <1>1. /\ cur \in Containers /\ depth >= 1 /\ depth \in Nat /\ MaxRecursion \in Nat
        /\ depth \in Slots /\ depth + 1 \in 0 .. MaxRecursion
    BY MaxRecursionAssumption DEF PlaceInv, InHand, WalkOK, AtLimit, Slots
  <1>2. Enter(v) /\ depth' = depth + 1
        /\ stack' = [stack EXCEPT ![depth] = [ctn |-> cur, index |-> p]]
    BY DEF Push
  <1>3. /\ InputOK' /\ pc' = LabelOf(v) /\ pc' \in {"arr_val_begin", "dict_pair_begin"}
        /\ cur' = v /\ cur' \in Objects /\ size' \in Nat /\ isTuple' \in BOOLEAN
        /\ ListInHand'
        /\ pc' = "arr_val_begin" <=> Kind[v] # "dict"
        /\ graph' = graph /\ root' = root
    BY <1>2, EnterKeeps DEF PlaceInv
  <1>4. Walking' /\ pc' \in Labels /\ pc' # "start" /\ pc' # "dict_key_done"
    BY <1>3 DEF Walking, Labels
  <1>5. Len(Items(cur)) \in Nat /\ Len(Items(v)) \in Nat /\ p \in Nat
    BY <1>1, ItemsType DEF PlaceInv
  <1>6. /\ \A i \in Slots : stack'[i] = IF i = depth THEN [ctn |-> cur, index |-> p] ELSE stack[i]
        /\ stack' \in [Slots -> [ctn : Objects \union {None}, index : Nat]]
    BY <1>1, <1>2, <1>5, ContainerKind DEF PlaceInv, WalkOK
  <1>7. WalkOK'
    BY <1>1, <1>2, <1>3, <1>4, <1>6 DEF PlaceInv, WalkOK
  <1>8. \A i \in 1 .. depth : i \in Slots
    BY <1>1 DEF Slots
  <1>9. InHand'
    <2>1. \A i \in 1 .. depth' - 1 : stack'[i].ctn \in Containers
      BY <1>1, <1>2, <1>6, <1>8 DEF PlaceInv, InHand
    <2>2. 0 <= Len(Items(v)) /\ Items(v)' = Items(v)
      BY <1>3, <1>5 DEF Items
    <2>3. QED
      BY <1>1, <1>2, <1>3, <1>4, <2>1, <2>2 DEF InHand, Items
  <1>10. StackIsPath'
    <2>1. \A i \in 1 .. depth : At(i)' = At(i)
      BY <1>1, <1>2, <1>6, <1>8 DEF At
    <2>2. \A n : n = depth + 1 => At(n)' = v
      BY <1>1, <1>2, <1>3 DEF At
    <2>3. At(1)' = root'
      BY <1>1, <1>3, <2>1 DEF PlaceInv, StackIsPath
    <2>4. ASSUME NEW i \in 1 .. depth
          PROVE  /\ stack'[i].index \in 1 .. Len(Items(stack'[i].ctn))
                 /\ Items(stack'[i].ctn)[stack'[i].index].val = At(i + 1)'
      <3>1. CASE i = depth
        <4>1. stack'[i] = [ctn |-> cur, index |-> p]
          BY <1>6, <1>8, <3>1
        <4>2. QED
          BY <1>5, <3>1, <4>1, <2>2
      <3>2. CASE i # depth
        <4>1. i \in 1 .. depth - 1 /\ i + 1 \in 1 .. depth /\ stack'[i] = stack[i]
          BY <1>1, <1>6, <1>8, <3>2
        <4>2. QED
          BY <4>1, <2>1 DEF PlaceInv, StackIsPath
      <3>3. QED
        BY <3>1, <3>2
    <2>5. depth' - 1 = depth
      BY <1>1, <1>2
    <2>6. QED
      BY <1>3, <2>3, <2>4, <2>5 DEF StackIsPath, Items
  <1>11. QED
    BY <1>3, <1>7, <1>9, <1>10 DEF PlaceInv

\* The walk goes back to the container it came from.
LEMMA ResumeKeeps ==
  ASSUME PlaceInv, Walking, UNCHANGED input, depth # 1, depth' = depth - 1,
         Resume(stack[depth - 1]), stack' = stack, val' = val
  PROVE  PlaceInv'
  <1>0. PICK e : e = stack[depth - 1]
    OBVIOUS
  <1>1. /\ depth - 1 >= 1 /\ depth \in Nat /\ depth - 1 \in 1 .. depth - 1
        /\ depth - 1 \in Slots /\ depth - 1 \in 0 .. MaxRecursion
    BY MaxRecursionAssumption DEF PlaceInv, InHand, WalkOK, Slots
  <1>2. e.ctn \in Containers /\ e.index \in 1 .. Len(Items(e.ctn)) /\ e.index \in Nat
    BY <1>0, <1>1 DEF PlaceInv, InHand, StackIsPath, At
  <1>3. Len(Items(e.ctn)) \in Nat /\ Items(e.ctn) # <<>>
    <2>1. Len(Items(e.ctn)) \in Nat /\ Items(e.ctn) \in Seq(Item)
      BY <1>2, ItemsType DEF PlaceInv
    <2>2. Len(<<>>) = 0
      BY EmptySeq
    <2>3. QED
      BY <2>1, <2>2, <1>2
  <1>4. Enter(e.ctn) /\ pos' = e.index
    BY <1>0 DEF Resume
  <1>5. /\ InputOK' /\ pc' = LabelOf(e.ctn) /\ pc' \in {"arr_val_begin", "dict_pair_begin"}
        /\ cur' = e.ctn /\ cur' \in Objects /\ size' \in Nat /\ isTuple' \in BOOLEAN
        /\ ListInHand'
        /\ pc' = "arr_val_begin" <=> Kind[e.ctn] # "dict"
        /\ graph' = graph /\ root' = root
    BY <1>2, <1>3, <1>4, EnterKeeps DEF PlaceInv
  <1>6. Walking' /\ pc' \in Labels /\ pc' # "start" /\ pc' # "dict_key_done"
    BY <1>5 DEF Walking, Labels
  <1>7. WalkOK'
    BY <1>1, <1>2, <1>4, <1>5, <1>6 DEF PlaceInv, WalkOK, Slots
  <1>8. InHand'
    <2>1. \A i \in 1 .. depth' - 1 : stack'[i].ctn \in Containers
      BY <1>1 DEF PlaceInv, InHand
    <2>2. e.index <= Len(Items(e.ctn)) /\ Items(e.ctn)' = Items(e.ctn)
      BY <1>2, <1>3, <1>5 DEF Items
    <2>3. QED
      BY <1>1, <1>2, <1>4, <1>5, <1>6, <2>1, <2>2 DEF InHand, Items
  <1>9. StackIsPath'
    <2>1. \A i \in 1 .. depth - 1 : At(i)' = At(i)
      BY <1>0, <1>1, <1>5 DEF At
    <2>2. QED
      BY <1>1, <1>5, <2>1 DEF PlaceInv, StackIsPath, Items
  <1>10. QED
    BY <1>5, <1>7, <1>8, <1>9 DEF PlaceInv

\* The walk is over, or never began.
LEMMA StopKeeps ==
  ASSUME PlaceInv, UNCHANGED input, UNCHANGED <<cur, pos, size, isTuple, stack>>,
         depth' \in 0 .. MaxRecursion, val' \in Objects \union {None},
         pc' \in {"success", "fail", "returned"}
  PROVE  PlaceInv'
  <1>1. ~Walking' /\ pc' \in Labels /\ pc' # "start" /\ pc' # "arr_val_begin"
        /\ pc' # "dict_key_done"
    BY DEF Walking, Labels
  <1>2. InputOK' /\ WalkOK'
    BY <1>1 DEF PlaceInv, InputOK, input, WalkOK
  <1>3. QED
    BY <1>1, <1>2 DEF PlaceInv, InHand, StackIsPath, ListInHand

-----------------------------------------------------------------------------
(* How the text grows.                                                     *)

LEMMA BeforeType ==
  ASSUME sizes \in [{0, 1, 2} -> Nat], level \in Levels
  PROVE  Before \in Nat
  BY DEF Before, Levels

LEMMA WriteKeeps ==
  ASSUME TextOK, pc # "returned", NEW toks \in Seq(Toks), Write(toks)
  PROVE  TextOK'
  <1>1. out' = out \o toks /\ level' = level /\ sizes' = sizes
    BY DEF Write
  <1>2. out' \in Seq(Toks) /\ Len(out') = Len(out) + Len(toks)
        /\ Len(out) \in Nat /\ Len(toks) \in Nat
    BY <1>1, ConcatProperties, LenProperties DEF TextOK
  <1>3. Before' = Before /\ Before \in Nat
    BY <1>1, BeforeType DEF TextOK, Before
  <1>4. Before' <= Len(out')
    BY <1>2, <1>3 DEF TextOK
  <1>5. QED
    BY <1>1, <1>2, <1>4 DEF TextOK

\* The text is longer by the string and its mark, and what was written at the
\* level that is left is counted.
LEMMA WriteStrKeeps ==
  ASSUME TextOK, pc # "returned", NEW o \in Strs, NEW mark \in Marks, WriteStr(o, mark)
  PROVE  TextOK'
  <1>1. out' = out \o <<o, mark>> /\ level' = LevelOf(o) /\ sizes' = Memorized(LevelOf(o))
    BY DEF WriteStr
  <1>2. o \in Objects /\ Level[o] \in Levels
    BY ObjectsAssumption DEF Strs
  <1>3. out' \in Seq(Toks) /\ Len(out') = Len(out) + 2 /\ Len(out) \in Nat
    <2>1. <<o, mark>> \in Seq(Toks) /\ Len(<<o, mark>>) = 2
      BY <1>2 DEF Toks
    <2>2. QED
      BY <1>1, <2>1, ConcatProperties, LenProperties DEF TextOK
  <1>4. Before \in Nat /\ Before <= Len(out) /\ level \in Levels
        /\ sizes \in [{0, 1, 2} -> Nat] /\ \A l \in {0, 1, 2} : l >= level => sizes[l] = 0
    BY BeforeType DEF TextOK
  <1>5. CASE LevelOf(o) = level
    <2>1. sizes' = sizes /\ level' = level /\ Before' = Before
      BY <1>1, <1>5 DEF Memorized, Before
    <2>2. QED
      BY <1>3, <1>4, <2>1 DEF TextOK
  <1>6. CASE LevelOf(o) # level
    <2>1. level' \in Levels /\ level' > level /\ level \in {0, 1, 2} /\ level' \in {1, 2, 4}
      BY <1>1, <1>2, <1>4, <1>6 DEF LevelOf, Levels
    <2>2. sizes' = [sizes EXCEPT ![level] = Len(out) - Before]
      BY <1>1, <1>6 DEF Memorized
    <2>3. Len(out) - Before \in Nat
      BY <1>3, <1>4
    <2>4. sizes' \in [{0, 1, 2} -> Nat] /\ sizes'[level] = Len(out) - Before
          /\ \A l \in {0, 1, 2} : l # level => sizes'[l] = sizes[l]
      BY <1>4, <2>1, <2>2, <2>3
    <2>5. \A l \in {0, 1, 2} : l >= level' => sizes'[l] = 0
      BY <1>4, <2>1, <2>4
    <2>6. Before' = Len(out)
      <3>1. CASE level = 0
        BY <1>3, <1>4, <2>1, <2>4, <3>1 DEF Before
      <3>2. CASE level = 1
        BY <1>3, <1>4, <2>1, <2>4, <3>2 DEF Before
      <3>3. CASE level = 2
        <4>1. level' = 4
          BY <2>1, <3>3
        <4>2. /\ sizes'[0] = sizes[0] /\ sizes'[1] = sizes[1] /\ sizes'[2] = Len(out) - Before
              /\ sizes[0] \in Nat /\ sizes[1] \in Nat
          BY <1>4, <2>4, <3>3
        <4>3. Before = sizes[0] + sizes[1]
          BY <3>3 DEF Before
        <4>4. Before' = sizes'[0] + sizes'[1] + sizes'[2]
          BY <4>1 DEF Before
        <4>5. \A a, b, n \in Nat : a + b + (n - (a + b)) = n
          OBVIOUS
        <4>6. Len(out) \in Nat
          BY <1>3
        <4>7. QED
          BY <4>2, <4>3, <4>4, <4>5, <4>6
      <3>4. QED
        BY <2>1, <3>1, <3>2, <3>3
    <2>7. QED
      BY <1>3, <2>1, <2>4, <2>5, <2>6 DEF TextOK
  <1>7. QED
    BY <1>5, <1>6

LEMMA WriteEndKeeps ==
  ASSUME TextOK, pc # "returned", NEW mark \in Marks, WriteEnd(mark)
  PROVE  TextOK'
  <1>1. out' = SubSeq(out, 1, Len(out) - 1) \o <<mark, "comma">>
        /\ level' = level /\ sizes' = sizes
    BY DEF WriteEnd
  <1>2. Len(out) \in Nat /\ \A i \in 1 .. Len(out) - 1 : out[i] \in Toks
    <2>1. Len(out) \in Nat /\ \A i \in 1 .. Len(out) : out[i] \in Toks
      BY ElementOfSeq, LenProperties DEF TextOK
    <2>2. QED
      BY <2>1
  <1>3. /\ SubSeq(out, 1, Len(out) - 1) \in Seq(Toks)
        /\ Len(SubSeq(out, 1, Len(out) - 1)) = IF 1 <= Len(out) - 1 THEN Len(out) - 1 - 1 + 1 ELSE 0
    BY <1>2, SubSeqProperties
  <1>4. <<mark, "comma">> \in Seq(Toks) /\ Len(<<mark, "comma">>) = 2
    BY DEF Toks, Marks
  <1>5. out' \in Seq(Toks) /\ Len(out') = Len(SubSeq(out, 1, Len(out) - 1)) + 2
    BY <1>1, <1>3, <1>4, ConcatProperties
  <1>6. Len(out') >= Len(out)
    BY <1>2, <1>3, <1>5
  <1>7. Before' = Before /\ Before \in Nat /\ Before <= Len(out)
    BY <1>1, BeforeType DEF TextOK, Before
  <1>8. Before' <= Len(out')
    <2>1. Len(out') \in Nat
      BY <1>5, LenProperties
    <2>2. QED
      BY <1>2, <1>6, <1>7, <2>1
  <1>9. QED
    BY <1>1, <1>5, <1>8 DEF TextOK

LEMMA TextStays ==
  ASSUME TextOK, UNCHANGED text, pc # "returned" \/ pc' = "returned"
  PROVE  TextOK'
  BY DEF TextOK, text, Before

-----------------------------------------------------------------------------
(* The steps.                                                              *)

LEMMA InitInvariant == Init => IInv
  <1> SUFFICES ASSUME Init PROVE IInv
    OBVIOUS
  <1>1. ~Walking /\ pc = "start" /\ pc \in Labels
    BY DEF Init, Walking, Labels
  <1>2. InputOK /\ WalkOK
    <2>1. stack \in [Slots -> [ctn : Objects \union {None}, index : Nat]]
      BY DEF Init
    <2>2. InputOK /\ cur \in Objects /\ val \in Objects \union {None}
      BY DEF Init, InputOK
    <2>3. pos = 0 /\ size = 0 /\ depth = 0 /\ isTuple \in BOOLEAN
      BY Zenon DEF Init
    <2>4. pos \in Nat /\ size \in Nat /\ isTuple \in BOOLEAN /\ depth \in 0 .. MaxRecursion
      BY <2>3, MaxRecursionAssumption
    <2>5. QED
      BY <1>1, <2>1, <2>2, <2>4 DEF WalkOK
  <1>3. PlaceInv
    BY <1>1, <1>2 DEF Init, PlaceInv, InHand, StackIsPath, ListInHand
  <1>4. TextOK
    <2>1. out = <<>> /\ level = 0 /\ sizes = [l \in {0, 1, 2} |-> 0]
      BY DEF Init
    <2>2. out \in Seq(Toks) /\ Len(out) = 0
      BY <2>1, EmptySeq
    <2>3. Before = 0
      BY <2>1 DEF Before
    <2>4. QED
      BY <2>1, <2>2, <2>3 DEF TextOK, Levels
  <1>5. QED
    BY <1>3, <1>4 DEF Init, IInv, OutcomeOK

\* A step that only fails.
LEMMA FailInvariant ==
  ASSUME IInv, pc # "returned",
         \/ \E e \in {"none", "MemoryError", "JSONEncodeError"} : Fail(e) \/ NoMemory(e)
         \/ ReturnFailure
  PROVE  IInv'
  <1>1. /\ UNCHANGED input /\ UNCHANGED text /\ UNCHANGED place /\ val' = val
        /\ pc' \in {"fail", "returned"}
        /\ err' \in {"none", "MemoryError", "JSONEncodeError"} /\ result' = result
    BY DEF Fail, NoMemory, ReturnFailure, IInv, OutcomeOK
  <1>2. UNCHANGED <<cur, pos, size, isTuple, stack>> /\ depth' \in 0 .. MaxRecursion
        /\ val' \in Objects \union {None}
    BY <1>1 DEF place, IInv, PlaceInv, WalkOK
  <1>3. PlaceInv'
    BY <1>1, <1>2, StopKeeps DEF IInv
  <1>4. TextOK'
    BY <1>1, TextStays DEF IInv
  <1>5. QED
    BY <1>1, <1>3, <1>4 DEF IInv, OutcomeOK

LEMMA OutcomeStays == OutcomeOK /\ UNCHANGED outcome => OutcomeOK'
  BY DEF OutcomeOK, outcome

\* The root is a container.
LEMMA StartInvariant ==
  ASSUME IInv, StartEmpty \/ StartContainer
  PROVE  IInv'
  <1>1. /\ pc = "start" /\ root \in Containers /\ UNCHANGED input /\ UNCHANGED outcome
        /\ cur = root /\ pos = 0 /\ depth = 0 /\ val' = val
    BY DEF StartEmpty, StartContainer, IInv, PlaceInv, InHand
  <1>2. Opening(root) \in Toks /\ Closing(root) \in Toks
    BY <1>1, ContainerKind DEF Toks
  <1>3. CASE StartEmpty
    <2>1. PlaceInv'
      BY <1>1, <1>3, StopKeeps DEF StartEmpty, place, IInv, PlaceInv, WalkOK
    <2>2. TextOK'
      <3>1. <<Opening(root), Closing(root), "comma">> \in Seq(Toks)
        BY <1>2 DEF Toks, Marks
      <3>2. QED
        BY <1>1, <1>3, <3>1, WriteKeeps DEF StartEmpty, IInv
    <2>3. QED
      BY <1>1, <2>1, <2>2, OutcomeStays DEF IInv
  <1>4. CASE StartContainer
    <2>1. TextOK'
      <3>1. <<Opening(root)>> \in Seq(Toks)
        BY <1>2
      <3>2. QED
        BY <1>1, <1>4, <3>1, WriteKeeps DEF StartContainer, IInv
    <2>2. PICK r : r = root
      OBVIOUS
    <2>3. /\ Enter(r) /\ Items(r) # <<>> /\ depth' = 1 /\ pos' = 0 /\ stack' = stack
          /\ r \in Containers
      BY <1>1, <1>4, <2>2 DEF StartContainer
    <2>4. /\ InputOK' /\ pc' = LabelOf(r) /\ pc' \in {"arr_val_begin", "dict_pair_begin"}
          /\ cur' = r /\ cur' \in Objects /\ size' \in Nat /\ isTuple' \in BOOLEAN
          /\ ListInHand'
          /\ pc' = "arr_val_begin" <=> Kind[r] # "dict"
          /\ graph' = graph /\ root' = root
      BY <1>1, <2>3, EnterKeeps DEF IInv, PlaceInv
    <2>5. Walking' /\ pc' \in Labels /\ pc' # "start" /\ pc' # "dict_key_done"
      BY <2>4 DEF Walking, Labels
    <2>6. WalkOK'
      BY <1>1, <2>3, <2>4, <2>5, MaxRecursionAssumption DEF IInv, PlaceInv, WalkOK
    <2>7. Items(r)' = Items(r) /\ Len(Items(r)) \in Nat
      BY <2>3, <2>4, ItemsType DEF IInv, PlaceInv, Items
    <2>8. InHand'
      BY <2>3, <2>4, <2>5, <2>7 DEF InHand, Items
    <2>9. StackIsPath'
      BY <2>2, <2>3, <2>4 DEF StackIsPath, At
    <2>10. QED
      BY <1>1, <2>1, <2>4, <2>6, <2>8, <2>9, OutcomeStays DEF IInv, PlaceInv
  <1>5. QED
    BY <1>3, <1>4

\* The root is a value.
LEMMA SingleInvariant ==
  ASSUME IInv, StartSingle \/ SingleFails
  PROVE  IInv'
  <1>1. /\ pc = "start" /\ root \in Objects /\ UNCHANGED input /\ UNCHANGED place /\ val' = val
        /\ pc' = "returned"
    BY DEF StartSingle, SingleFails, IInv, PlaceInv, InputOK
  <1>2. PlaceInv'
    <2>1. UNCHANGED <<cur, pos, size, isTuple, stack>> /\ depth' \in 0 .. MaxRecursion
          /\ val' \in Objects \union {None}
      BY <1>1 DEF place, IInv, PlaceInv, WalkOK
    <2>2. QED
      BY <1>1, <2>1, StopKeeps DEF IInv
  <1>3. OutcomeOK'
    BY DEF StartSingle, SingleFails, IInv, OutcomeOK
  <1>4. TextOK'
    <2>1. CASE UNCHANGED text
      BY <1>1, <2>1, TextStays DEF IInv
    <2>2. CASE Write(<<root>>)
      <3>1. <<root>> \in Seq(Toks)
        BY <1>1 DEF Toks
      <3>2. QED
        BY <1>1, <2>2, <3>1, WriteKeeps DEF IInv
    <2>3. CASE /\ Kind[root] = "str"
               /\ out' = <<root>> /\ level' = LevelOf(root) /\ UNCHANGED sizes
      <3>1. root \in Strs /\ Level[root] \in Levels
        BY <1>1, <2>3, ObjectsAssumption DEF Strs
      <3>2. level' \in Levels /\ level' >= level /\ level \in Levels
        BY <2>3, <3>1 DEF LevelOf, IInv, TextOK, Levels
      <3>3. out' \in Seq(Toks)
        BY <1>1, <2>3 DEF Toks
      <3>4. \A l \in {0, 1, 2} : l >= level' => sizes'[l] = 0
        BY <2>3, <3>2 DEF IInv, TextOK, Levels
      <3>5. QED
        BY <1>1, <2>3, <3>2, <3>3, <3>4 DEF IInv, TextOK
    <2>4. QED
      BY <2>1, <2>2, <2>3 DEF StartSingle, SingleFails
  <1>5. QED
    BY <1>2, <1>3, <1>4 DEF IInv

\* A value is written or entered.
LEMMA ValueInvariant ==
  ASSUME IInv, Walking, NEW p \in 1 .. Len(Items(cur)), NEW v \in Objects,
         v = Items(cur)[p].val, ProcessValue(v, p), val' = val
  PROVE  IInv'
  <1>1. cur \in Containers /\ p \in Nat /\ p <= Len(Items(cur)) /\ pc # "returned"
        /\ UNCHANGED input /\ UNCHANGED outcome /\ val' \in Objects \union {None}
    <2>1. cur \in Containers
      BY DEF IInv, PlaceInv, InHand
    <2>2. Len(Items(cur)) \in Nat
      BY <2>1, ItemsType DEF IInv, PlaceInv
    <2>3. QED
      BY <2>1, <2>2 DEF ProcessValue, Walking, IInv, PlaceInv, WalkOK
  <1>2. CASE (ValueStr(v) \/ ValueAtom(v) \/ ValueEmpty(v)) /\ pos' = p
    <2>1. pc' = LabelOf(cur) /\ UNCHANGED <<size, isTuple, depth, stack, cur>>
      BY <1>2 DEF ValueStr, ValueAtom, ValueEmpty
    <2>2. PlaceInv'
      BY <1>1, <1>2, <2>1, StayKeeps DEF IInv
    <2>3. TextOK'
      <3>1. CASE ValueStr(v)
        <4>1. v \in Strs /\ "comma" \in Marks /\ WriteStr(v, "comma")
          BY <3>1 DEF ValueStr, Strs, Marks
        <4>2. QED
          BY <1>1, <4>1, WriteStrKeeps DEF IInv
      <3>2. CASE ValueAtom(v)
        <4>1. <<v, "comma">> \in Seq(Toks) /\ Write(<<v, "comma">>)
          BY <3>2 DEF ValueAtom, Toks, Marks
        <4>2. QED
          BY <1>1, <4>1, WriteKeeps DEF IInv
      <3>3. CASE ValueEmpty(v)
        <4>1. v \in Containers /\ Write(<<Opening(v), Closing(v), "comma">>)
          BY <3>3 DEF ValueEmpty
        <4>2. <<Opening(v), Closing(v), "comma">> \in Seq(Toks)
          BY <4>1, ContainerKind DEF Toks, Marks
        <4>3. QED
          BY <1>1, <4>1, <4>2, WriteKeeps DEF IInv
      <3>4. QED
        BY <1>2, <3>1, <3>2, <3>3
    <2>4. QED
      BY <1>1, <2>2, <2>3, OutcomeStays DEF IInv
  <1>3. CASE /\ v \in Containers /\ Items(v) # <<>> /\ ~AtLimit
             /\ Write(<<Opening(v)>>) /\ Push(v, p) /\ pos' = 0
    <2>1. PlaceInv'
      BY <1>1, <1>3, PushKeeps DEF IInv
    <2>2. TextOK'
      <3>1. <<Opening(v)>> \in Seq(Toks)
        BY <1>3, ContainerKind DEF Toks
      <3>2. QED
        BY <1>1, <1>3, <3>1, WriteKeeps DEF IInv
    <2>3. QED
      BY <1>1, <2>1, <2>2, OutcomeStays DEF IInv
  <1>4. QED
    BY <1>2, <1>3 DEF ProcessValue

LEMMA RejectInvariant ==
  ASSUME IInv, pc # "returned", NEW v, RejectValue(v) \/ ValueFails(v)
  PROVE  IInv'
  BY FailInvariant DEF RejectValue, ValueFails

LEMMA PairInvariant ==
  ASSUME IInv, PairValue
  PROVE  IInv'
  <1>1. pc = "dict_key_done" /\ pc # "returned" /\ Walking
    BY DEF PairValue, Walking
  <1>2. CASE ProcessValue(val, pos) /\ UNCHANGED val
    <2>1. PICK p, v : p = pos /\ v = val
      OBVIOUS
    <2>2. cur \in Containers /\ p \in 1 .. Len(Items(cur)) /\ v = Items(cur)[p].val
      <3>1. cur \in Containers /\ pos >= 1 /\ pos <= Len(Items(cur)) /\ pos \in Nat
            /\ val = Items(cur)[pos].val
        BY <1>1 DEF IInv, PlaceInv, InHand, WalkOK
      <3>2. Len(Items(cur)) \in Nat
        BY <3>1, ItemsType DEF IInv, PlaceInv
      <3>3. QED
        BY <2>1, <3>1, <3>2
    <2>3. v \in Objects
      BY <2>2, ItemsType DEF IInv, PlaceInv
    <2>4. ProcessValue(v, p)
      BY <1>2, <2>1
    <2>5. QED
      BY <1>1, <1>2, <2>2, <2>3, <2>4, ValueInvariant
  <1>3. QED
    BY <1>1, <1>2, RejectInvariant DEF PairValue

LEMMA ItemInvariant ==
  ASSUME IInv, ItemValue
  PROVE  IInv'
  <1>1. pc = "arr_val_begin" /\ pc # "returned" /\ Walking /\ pos < size
    BY DEF ItemValue, Walking
  <1>2. PICK p, v : p = pos + 1 /\ v = Items(cur)[pos + 1].val
    OBVIOUS
  <1>3. CASE ProcessValue(v, p) /\ UNCHANGED val
    <2>1. cur \in Containers /\ p \in 1 .. Len(Items(cur)) /\ v = Items(cur)[p].val
      <3>1. cur \in Containers /\ pos \in Nat /\ size = Len(Items(cur))
        BY <1>1 DEF IInv, PlaceInv, InHand, WalkOK, ListInHand
      <3>2. Len(Items(cur)) \in Nat
        BY <3>1, ItemsType DEF IInv, PlaceInv
      <3>3. QED
        BY <1>1, <1>2, <3>1, <3>2
    <2>2. v \in Objects
      BY <2>1, ItemsType DEF IInv, PlaceInv
    <2>3. QED
      BY <1>1, <1>3, <2>1, <2>2, ValueInvariant
  <1>4. CASE RejectValue(v) \/ ValueFails(v)
    BY <1>1, <1>4, RejectInvariant
  <1>5. QED
    BY <1>2, <1>3, <1>4 DEF ItemValue

LEMMA KeyInvariant ==
  ASSUME IInv, ReadPair
  PROVE  IInv'
  <1>1. pc = "dict_pair_begin" /\ pc # "returned" /\ Walking /\ pos < Len(Items(cur))
    BY DEF ReadPair, Walking
  <1>2. /\ cur \in Containers /\ Kind[cur] = "dict" /\ pos \in Nat /\ Len(Items(cur)) \in Nat
        /\ pos + 1 \in 1 .. Len(Items(cur))
    <2>1. cur \in Containers /\ Kind[cur] = "dict" /\ pos \in Nat
      BY <1>1 DEF IInv, PlaceInv, InHand, WalkOK
    <2>2. Len(Items(cur)) \in Nat
      BY <2>1, ItemsType DEF IInv, PlaceInv
    <2>3. QED
      BY <1>1, <2>1, <2>2
  <1>3. PICK k, p, v : /\ k = Items(cur)[pos + 1].key /\ p = pos + 1
                       /\ v = Items(cur)[pos + 1].val
    OBVIOUS
  <1>4. k \in Objects /\ v \in Objects /\ p \in Nat /\ p >= 1 /\ p <= Len(Items(cur))
        /\ v = Items(cur)[p].val
    BY <1>2, <1>3, ItemsType DEF IInv, PlaceInv
  <1>5. CASE Fail("JSONEncodeError") \/ NoMemory("none")
    BY <1>1, <1>5, FailInvariant
  <1>6. CASE /\ Kind[k] = "str" /\ WriteStr(k, "colon") /\ val' = v /\ pos' = p
             /\ pc' = "dict_key_done"
             /\ UNCHANGED <<input, outcome, cur, size, isTuple, depth, stack>>
    <2>1. PlaceInv'
      <3>1. pc' = "dict_key_done" /\ Kind[cur] = "dict" /\ p >= 1 /\ val' = Items(cur)[p].val
        BY <1>2, <1>4, <1>6
      <3>2. QED
        BY <1>1, <1>4, <1>6, <3>1, StayKeeps DEF IInv
    <2>2. TextOK'
      <3>1. k \in Strs /\ "colon" \in Marks
        BY <1>4, <1>6 DEF Strs, Marks
      <3>2. QED
        BY <1>1, <1>6, <3>1, WriteStrKeeps DEF IInv
    <2>3. QED
      BY <1>6, <2>1, <2>2, OutcomeStays DEF IInv
  <1>7. QED
    BY <1>1, <1>3, <1>5, <1>6 DEF ReadPair

LEMMA EndInvariant ==
  ASSUME IInv, EndContainer
  PROVE  IInv'
  <1>1. pc # "returned" /\ Walking
    BY DEF EndContainer, Walking
  <1>2. CASE NoMemory("none")
    BY <1>1, <1>2, FailInvariant
  <1>3. CASE /\ WriteEnd(Closing(cur)) /\ depth' = depth - 1
             /\ UNCHANGED <<input, val, stack, outcome>>
             /\ IF depth = 1 THEN pc' = "success" /\ UNCHANGED <<cur, pos, size, isTuple>>
                             ELSE Resume(stack[depth - 1])
    <2>1. TextOK'
      <3>1. Closing(cur) \in Marks
        BY <1>1, ContainerKind DEF IInv, PlaceInv, InHand
      <3>2. QED
        BY <1>1, <1>3, <3>1, WriteEndKeeps DEF IInv
    <2>2. PlaceInv'
      <3>1. CASE depth = 1
        <4>1. depth' \in 0 .. MaxRecursion /\ val' \in Objects \union {None}
          BY <1>3, <3>1, MaxRecursionAssumption DEF IInv, PlaceInv, WalkOK
        <4>2. QED
          BY <1>3, <3>1, <4>1, StopKeeps DEF IInv
      <3>2. CASE depth # 1
        BY <1>1, <1>3, <3>2, ResumeKeeps DEF IInv
      <3>3. QED
        BY <3>1, <3>2
    <2>3. QED
      BY <1>3, <2>1, <2>2, OutcomeStays DEF IInv
  <1>4. QED
    BY <1>2, <1>3 DEF EndContainer

LEMMA SuccessInvariant ==
  ASSUME IInv, Succeed
  PROVE  IInv'
  <1>1. pc = "success" /\ pc # "returned"
    BY DEF Succeed
  <1>2. CASE NoMemory("none")
    BY <1>1, <1>2, FailInvariant
  <1>3. CASE /\ pc' = "returned" /\ out' = SubSeq(out, 1, Len(out) - 1) /\ result' = "text"
             /\ UNCHANGED <<input, place, val, level, sizes, err, oom>>
    <2>1. PlaceInv'
      <3>1. UNCHANGED <<cur, pos, size, isTuple, stack>> /\ depth' \in 0 .. MaxRecursion
            /\ val' \in Objects \union {None}
        BY <1>3 DEF place, IInv, PlaceInv, WalkOK
      <3>2. QED
        BY <1>3, <3>1, StopKeeps DEF IInv
    <2>2. out' \in Seq(Toks)
      <3>1. Len(out) \in Nat /\ \A i \in 1 .. Len(out) : out[i] \in Toks
        BY ElementOfSeq, LenProperties DEF IInv, TextOK
      <3>2. \A i \in 1 .. Len(out) - 1 : out[i] \in Toks
        BY <3>1
      <3>3. QED
        BY <1>3, <3>1, <3>2, SubSeqProperties
    <2>3. TextOK' /\ OutcomeOK'
      BY <1>3, <2>2 DEF IInv, TextOK, OutcomeOK
    <2>4. QED
      BY <2>1, <2>3 DEF IInv
  <1>4. QED
    BY <1>1, <1>2, <1>3 DEF Succeed

LEMMA InvariantStep == IInv /\ [Next]_vars => IInv'
  <1> SUFFICES ASSUME IInv, [Next]_vars PROVE IInv'
    OBVIOUS
  <1>1. CASE InitFails
    BY <1>1, FailInvariant DEF InitFails
  <1>2. CASE StartEmpty \/ StartContainer
    BY <1>2, StartInvariant
  <1>3. CASE StartSingle \/ SingleFails
    BY <1>3, SingleInvariant
  <1>4. CASE ReadPair
    BY <1>4, KeyInvariant
  <1>5. CASE PairValue
    BY <1>5, PairInvariant
  <1>6. CASE ItemValue
    BY <1>6, ItemInvariant
  <1>7. CASE EndContainer
    BY <1>7, EndInvariant
  <1>8. CASE Succeed
    BY <1>8, SuccessInvariant
  <1>9. CASE ReturnFailure
    BY <1>9, FailInvariant DEF ReturnFailure
  <1>10. CASE UNCHANGED vars
    <2>1. /\ UNCHANGED input /\ UNCHANGED text /\ UNCHANGED outcome
          /\ pc' = pc /\ cur' = cur /\ pos' = pos /\ size' = size /\ isTuple' = isTuple
          /\ depth' = depth /\ stack' = stack /\ val' = val
          /\ graph' = graph /\ root' = root /\ bytes' = bytes
      BY <1>10 DEF vars, place, input
    <2>2. PlaceInv'
      BY <2>1 DEF IInv, PlaceInv, InputOK, WalkOK, InHand, StackIsPath, ListInHand, At,
                  Items, Walking
    <2>3. TextOK' /\ OutcomeOK'
      BY <2>1, TextStays, OutcomeStays DEF IInv
    <2>4. QED
      BY <2>2, <2>3 DEF IInv
  <1>11. QED
    BY <1>1, <1>2, <1>3, <1>4, <1>5, <1>6, <1>7, <1>8, <1>9, <1>10 DEF Next, Step, Returned

LEMMA Invariant == Spec => []IInv
  BY InitInvariant, InvariantStep, PTL DEF Spec

\* The variables of dumps() keep their kinds in every reachable state; the
\* container stack stays within the MaxRecursion entries of the thread's
\* buffer, over circular objects too.
THEOREM TypeCorrect == Spec => []TypeOK
  BY Invariant, TypesHold, PTL

\* The stack is the path from the root to the container in hand, so that the
\* walk goes on after the item it came from, whatever the objects are.
THEOREM PathCorrect == Spec => []StackIsPath
  <1>1. IInv => StackIsPath
    BY DEF IInv, PlaceInv
  <1>2. QED
    BY <1>1, Invariant, PTL

\* The size and the kind that the array loop keeps in variables are those of
\* the container in hand: no item past its end is read.
THEOREM ListCorrect == Spec => []ListInHand
  <1>1. IInv => ListInHand
    BY DEF IInv, PlaceInv
  <1>2. QED
    BY <1>1, Invariant, PTL

-----------------------------------------------------------------------------
(* The widths of the text.  They rest on IInv and on what follows.         *)

\* Need, for dumps() or for dumps_to_bytes().
NeedOf(b, t) == IF t \in Strs /\ ~b THEN Level[t] ELSE 0

\* The end of the text is a mark, which a closing bracket may replace; every
\* part holds its characters; some character needs the level in use.
FitsOK ==
  /\ Len(out) >= 1 /\ out[Len(out)] \in Marks
  /\ level > 0 => Before < Len(out) /\ \E p \in 1 .. Len(out) : NeedOf(bytes, out[p]) = level
  /\ \A l \in Levels : l <= level => \A p \in 1 .. EndOf(l) : NeedOf(bytes, out[p]) <= l

Canonical ==
  result = "text" =>
    /\ \A p \in 1 .. Len(out) : NeedOf(bytes, out[p]) <= level
    /\ level > 0 => \E p \in 1 .. Len(out) : NeedOf(bytes, out[p]) = level

Writing == Walking \/ pc = "success"

WidthInv ==
  /\ pc = "start" => out = <<>> /\ level = 0
  /\ bytes => level = 0
  /\ pc # "returned" => result = "null"
  /\ Writing => FitsOK
  /\ Canonical

LEMMA NeedType ==
  ASSUME NEW b, NEW t
  PROVE  /\ NeedOf(b, t) \in Levels /\ NeedOf(b, t) \in Nat
         /\ t \in Marks => NeedOf(b, t) = 0
  BY ObjectsAssumption DEF NeedOf, Strs, Levels

\* The parts before the level in use end where it begins, or before.
LEMMA EndsBefore ==
  ASSUME TextOK, NEW l \in Levels, l < level
  PROVE  EndOf(l) \in Nat /\ EndOf(l) <= Before
  <1>1. level \in {1, 2, 4} /\ l \in {0, 1, 2} /\ l # level
        /\ sizes[0] \in Nat /\ sizes[1] \in Nat /\ sizes[2] \in Nat
        /\ (level = 1 => sizes[1] = 0)
    BY DEF TextOK, Levels
  <1>2. CASE level = 1
    BY <1>1, <1>2 DEF EndOf, Before
  <1>3. CASE level = 2
    BY <1>1, <1>3 DEF EndOf, Before
  <1>4. CASE level = 4
    BY <1>1, <1>4 DEF EndOf, Before
  <1>5. QED
    BY <1>1, <1>2, <1>3, <1>4

\* What is written at the level in use changes no part before it.
LEMMA EndsStay ==
  ASSUME UNCHANGED <<level, sizes>>, NEW l \in Levels
  PROVE  /\ l # level => EndOf(l)' = EndOf(l)
         /\ l = level => EndOf(l)' = Len(out)'
         /\ l = level => EndOf(l) = Len(out)
         /\ Before' = Before
  BY DEF EndOf, Before

\* The text keeps its first characters, but for a last mark, and ends in
\* characters that any level holds.
LEMMA NarrowFits ==
  ASSUME TextOK, pc # "returned", FitsOK, bytes' = bytes, UNCHANGED <<level, sizes>>,
         NEW m, m = Len(out), out' \in Seq(Toks), Len(out') >= m,
         out'[Len(out')] \in Marks,
         \A i \in 1 .. Len(out') : i < m => out'[i] = out[i],
         \A i \in 1 .. Len(out') : i >= m =>
           (out'[i] = out[i] /\ i = m) \/ NeedOf(bytes, out'[i]) = 0
  PROVE  FitsOK'
  <1>1. m \in Nat /\ m >= 1 /\ Len(out') \in Nat /\ NeedOf(bytes, out[m]) = 0
    BY LenProperties, NeedType DEF TextOK, FitsOK
  <1>2. level \in Levels /\ Before \in Nat
    BY BeforeType DEF TextOK
  <1>3. \A i \in 1 .. Len(out') : i < m \/ NeedOf(bytes, out'[i]) = 0
    BY <1>1
  <1>4. level > 0 => Before' < Len(out') /\ \E p \in 1 .. Len(out') : NeedOf(bytes, out'[p]) = level
    <2>1. SUFFICES ASSUME level > 0
                   PROVE  Before' < Len(out') /\ \E p \in 1 .. Len(out') : NeedOf(bytes, out'[p]) = level
      OBVIOUS
    <2>2. Before < m /\ Before' = Before
      BY <2>1 DEF FitsOK, Before
    <2>3. PICK p \in 1 .. m : NeedOf(bytes, out[p]) = level
      BY <2>1 DEF FitsOK
    <2>4. p < m /\ p \in 1 .. Len(out')
      BY <1>1, <2>1, <2>3
    <2>5. NeedOf(bytes, out'[p]) = level
      BY <2>3, <2>4
    <2>6. QED
      BY <1>1, <1>2, <2>2, <2>4, <2>5
  <1>5. ASSUME NEW l \in Levels, l <= level, NEW p \in 1 .. EndOf(l)'
        PROVE  NeedOf(bytes, out'[p]) <= l
    <2>1. l \in Nat
      BY DEF Levels
    <2>2. EndOf(l)' <= Len(out') /\ EndOf(l)' \in Nat
      <3>1. CASE l = level
        BY <3>1, <1>1, EndsStay
      <3>2. CASE l # level
        <4>1. l < level /\ level > 0
          BY <1>5, <2>1, <3>2, <1>2 DEF Levels
        <4>2. EndOf(l) \in Nat /\ EndOf(l) <= Before /\ EndOf(l)' = EndOf(l)
          BY <3>2, <4>1, EndsBefore, EndsStay
        <4>3. Before < m
          BY <4>1 DEF FitsOK
        <4>4. QED
          BY <1>1, <1>2, <4>2, <4>3
      <3>3. QED
        BY <3>1, <3>2
    <2>3. p \in 1 .. Len(out')
      BY <1>1, <2>2
    <2>4. CASE p < m
      <3>1. p \in 1 .. EndOf(l)
        BY <1>1, <2>2, <2>3, <2>4, EndsStay
      <3>2. NeedOf(bytes, out[p]) <= l
        BY <1>5, <3>1 DEF FitsOK
      <3>3. QED
        BY <2>3, <2>4, <3>2
    <2>5. QED
      BY <1>3, <2>1, <2>3, <2>4
  <1>6. QED
    BY <1>1, <1>4, <1>5 DEF FitsOK

\* Marks, and values that any level holds, are added.
LEMMA WriteFits ==
  ASSUME TextOK, pc # "returned", FitsOK, bytes' = bytes,
         NEW toks \in Seq(Toks), Len(toks) >= 1, toks[Len(toks)] \in Marks,
         \A i \in 1 .. Len(toks) : NeedOf(bytes, toks[i]) = 0, Write(toks)
  PROVE  FitsOK'
  <1>1. /\ out' = out \o toks /\ UNCHANGED <<level, sizes>> /\ out' \in Seq(Toks)
        /\ Len(out) \in Nat /\ Len(toks) \in Nat /\ Len(out') = Len(out) + Len(toks)
        /\ \A i \in 1 .. Len(out') : out'[i] = IF i <= Len(out) THEN out[i] ELSE toks[i - Len(out)]
    BY ConcatProperties, LenProperties DEF Write, TextOK
  <1>2. \A i \in 1 .. Len(out') : i > Len(out) =>
          i - Len(out) \in 1 .. Len(toks) /\ out'[i] = toks[i - Len(out)]
    BY <1>1
  <1>3. Len(out') \in 1 .. Len(out') /\ Len(out') > Len(out) /\ Len(out') - Len(out) = Len(toks)
    BY <1>1
  <1>4. out'[Len(out')] \in Marks
    BY <1>2, <1>3
  <1>5. \A i \in 1 .. Len(out') : i > Len(out) => NeedOf(bytes, out'[i]) = 0
    BY <1>2
  <1>6. PICK m : m = Len(out)
    OBVIOUS
  <1>7. /\ m \in Nat /\ Len(out') >= m
        /\ \A i \in 1 .. Len(out') : i < m => out'[i] = out[i]
        /\ \A i \in 1 .. Len(out') : i >= m => (out'[i] = out[i] /\ i = m) \/ NeedOf(bytes, out'[i]) = 0
    BY <1>1, <1>3, <1>5, <1>6
  <1>8. QED
    BY <1>1, <1>4, <1>6, <1>7, NarrowFits

\* The last mark gives way to a bracket.
LEMMA WriteEndFits ==
  ASSUME TextOK, pc # "returned", FitsOK, bytes' = bytes, NEW mark \in Marks, WriteEnd(mark)
  PROVE  FitsOK'
  <1>1. PICK m : m = Len(out)
    OBVIOUS
  <1>2. /\ out' = SubSeq(out, 1, m - 1) \o <<mark, "comma">> /\ UNCHANGED <<level, sizes>>
        /\ m \in Nat /\ m >= 1 /\ \A i \in 1 .. m : out[i] \in Toks
    BY <1>1, ElementOfSeq, LenProperties DEF WriteEnd, TextOK, FitsOK
  <1>3. /\ SubSeq(out, 1, m - 1) \in Seq(Toks)
        /\ Len(SubSeq(out, 1, m - 1)) = IF 1 <= m - 1 THEN m - 1 - 1 + 1 ELSE 0
        /\ \A i \in 1 .. m - 1 - 1 + 1 : SubSeq(out, 1, m - 1)[i] = out[1 + i - 1]
    <2>1. \A i \in 1 .. m - 1 : out[i] \in Toks
      BY <1>2
    <2>2. QED
      BY <1>2, <2>1, SubSeqProperties
  <1>4. PICK t : t = SubSeq(out, 1, m - 1)
    OBVIOUS
  <1>5. /\ t \in Seq(Toks) /\ Len(t) = m - 1 /\ \A i \in 1 .. m - 1 : t[i] = out[i]
    BY <1>2, <1>3, <1>4
  <1>6. PICK u : u = <<mark, "comma">>
    OBVIOUS
  <1>7. u \in Seq(Toks) /\ Len(u) = 2 /\ u[1] \in Marks /\ u[2] \in Marks
    BY <1>6 DEF Toks, Marks
  <1>8. /\ out' = t \o u /\ out' \in Seq(Toks) /\ Len(out') = m + 1
        /\ \A i \in 1 .. m + 1 : out'[i] = IF i <= m - 1 THEN t[i] ELSE u[i - (m - 1)]
    BY <1>2, <1>4, <1>5, <1>6, <1>7, ConcatProperties
  <1>9. /\ \A i \in 1 .. m + 1 : i < m => out'[i] = out[i]
        /\ \A i \in 1 .. m + 1 : i >= m => out'[i] \in Marks
    <2>1. m \in 1 .. m + 1 /\ m + 1 \in 1 .. m + 1 /\ m - (m - 1) = 1 /\ m + 1 - (m - 1) = 2
          /\ ~(m <= m - 1) /\ ~(m + 1 <= m - 1)
      BY <1>2
    <2>2. out'[m] = u[1] /\ out'[m + 1] = u[2]
      <3>1. out'[m] = u[m - (m - 1)]
        BY <1>8, <2>1
      <3>2. out'[m + 1] = u[m + 1 - (m - 1)]
        BY <1>8, <2>1
      <3>3. QED
        BY <2>1, <3>1, <3>2
    <2>3. \A i \in 1 .. m + 1 : i >= m => i = m \/ i = m + 1
      BY <1>2
    <2>4. \A i \in 1 .. m + 1 : i < m => i \in 1 .. m - 1 /\ i <= m - 1
      BY <1>2
    <2>5. \A i \in 1 .. m + 1 : i < m => out'[i] = out[i]
      BY <1>5, <1>8, <2>4
    <2>6. QED
      BY <1>7, <2>2, <2>3, <2>5
  <1>10. \A i \in 1 .. m + 1 : i >= m => NeedOf(bytes, out'[i]) = 0
    BY <1>9, NeedType
  <1>11. out'[Len(out')] \in Marks /\ Len(out') >= m
    BY <1>2, <1>8, <1>9
  <1>12. QED
    BY <1>1, <1>2, <1>8, <1>9, <1>10, <1>11, NarrowFits

\* A string is added, at a wider level when it needs one.
LEMMA WriteStrFits ==
  ASSUME TextOK, pc # "returned", FitsOK, bytes' = bytes, bytes \in BOOLEAN,
         bytes => level = 0,
         NEW o \in Strs, NEW mark \in Marks, WriteStr(o, mark)
  PROVE  FitsOK' /\ (bytes' => level' = 0)
  <1>1. /\ out' = out \o <<o, mark>> /\ level' = LevelOf(o) /\ sizes' = Memorized(LevelOf(o))
    BY DEF WriteStr
  <1>2. o \in Objects /\ Level[o] \in Levels /\ level \in Levels
    BY ObjectsAssumption DEF Strs, TextOK
  <1>3. /\ out' \in Seq(Toks) /\ Len(out') = Len(out) + 2 /\ Len(out) \in Nat
        /\ \A i \in 1 .. Len(out) : out'[i] = out[i]
        /\ out'[Len(out) + 1] = o /\ out'[Len(out) + 2] = mark
    <2>1. PICK u : u = <<o, mark>>
      OBVIOUS
    <2>2. u \in Seq(Toks) /\ Len(u) = 2 /\ u[1] = o /\ u[2] = mark
      BY <2>1, <1>2 DEF Toks
    <2>3. /\ out' \in Seq(Toks) /\ Len(out') = Len(out) + Len(u) /\ Len(out) \in Nat
          /\ \A i \in 1 .. Len(out) + Len(u) :
               out'[i] = IF i <= Len(out) THEN out[i] ELSE u[i - Len(out)]
      BY <1>1, <2>1, <2>2, ConcatProperties, LenProperties DEF TextOK
    <2>4. QED
      BY <2>2, <2>3
  <1>4. PICK m : m = Len(out)
    OBVIOUS
  <1>5. NeedOf(bytes, mark) = 0 /\ NeedOf(bytes, o) = IF bytes THEN 0 ELSE Level[o]
    BY NeedType DEF NeedOf
  <1>6. /\ level' \in Levels /\ NeedOf(bytes, o) <= level'
        /\ level' >= level /\ (level' > level => NeedOf(bytes, o) = level')
        /\ (bytes => level' = 0)
    BY <1>1, <1>2, <1>5 DEF LevelOf, Levels
  <1>7. /\ \A i \in 1 .. m : NeedOf(bytes, out[i]) <= level
        /\ level > 0 => Before < m /\ \E i \in 1 .. m : NeedOf(bytes, out[i]) = level
    <2>1. EndOf(level) = m
      BY <1>4 DEF EndOf
    <2>2. QED
      BY <1>2, <1>4, <2>1 DEF FitsOK, Levels
  <1>8. Len(out') = m + 2 /\ m \in Nat /\ m + 1 \in 1 .. m + 2 /\ \A i \in 1 .. m : i \in 1 .. m + 2
    BY <1>3, <1>4
  <1>9. Len(out') >= 1 /\ out'[Len(out')] \in Marks
    BY <1>3, <1>4, <1>8
  <1>10. \A i \in 1 .. m + 2 : NeedOf(bytes, out'[i]) <= level'
    <2>1. SUFFICES ASSUME NEW i \in 1 .. m + 2 PROVE NeedOf(bytes, out'[i]) <= level'
      OBVIOUS
    <2>2. CASE i \in 1 .. m
      <3>1. NeedOf(bytes, out[i]) <= level /\ out'[i] = out[i] /\ NeedOf(bytes, out[i]) \in Nat
        BY <1>3, <1>4, <1>7, <2>2, NeedType
      <3>2. QED
        BY <1>2, <1>6, <3>1 DEF Levels
    <2>3. CASE i = m + 1
      BY <1>3, <1>4, <1>6, <2>3
    <2>4. CASE i = m + 2
      BY <1>3, <1>4, <1>5, <1>6, <2>4 DEF Levels
    <2>5. QED
      BY <1>8, <2>2, <2>3, <2>4
  <1>11. CASE level' = level
    <2>1. sizes' = sizes
      BY <1>1, <1>11 DEF Memorized
    <2>2. level' > 0 => Before' < Len(out') /\ \E i \in 1 .. Len(out') : NeedOf(bytes, out'[i]) = level'
      <3>1. SUFFICES ASSUME level > 0
                     PROVE  Before < Len(out') /\ \E i \in 1 .. Len(out') : NeedOf(bytes, out'[i]) = level
        BY <1>11, <2>1 DEF Before
      <3>2. PICK i \in 1 .. m : NeedOf(bytes, out[i]) = level
        BY <1>7, <3>1
      <3>3. i \in 1 .. Len(out') /\ out'[i] = out[i]
        BY <1>3, <1>4, <1>8
      <3>4. Before \in Nat
        BY BeforeType DEF TextOK
      <3>5. QED
        BY <1>7, <1>8, <3>1, <3>2, <3>3, <3>4
    <2>3. ASSUME NEW l \in Levels, l <= level', NEW p \in 1 .. EndOf(l)'
          PROVE  NeedOf(bytes, out'[p]) <= l
      <3>1. CASE l = level
        BY <3>1, <1>8, <1>10, <1>11, <2>1, <2>3, EndsStay
      <3>2. CASE l # level
        <4>1. l < level /\ level > 0
          BY <1>2, <1>11, <2>3, <3>2 DEF Levels
        <4>2. EndOf(l) \in Nat /\ EndOf(l) <= Before /\ EndOf(l)' = EndOf(l) /\ Before < m
          BY <1>7, <1>11, <2>1, <3>2, <4>1, EndsBefore, EndsStay
        <4>3. Before \in Nat /\ p \in 1 .. EndOf(l) /\ p \in 1 .. m
          BY <1>8, <2>3, <4>2, BeforeType DEF TextOK
        <4>4. NeedOf(bytes, out[p]) <= l
          BY <1>11, <2>3, <4>3 DEF FitsOK
        <4>5. QED
          BY <1>3, <1>4, <4>3, <4>4
      <3>3. QED
        BY <3>1, <3>2
    <2>4. QED
      BY <1>6, <1>9, <2>2, <2>3 DEF FitsOK
  <1>12. CASE level' # level
    <2>1. level' > level /\ level \in {0, 1, 2} /\ level' \in {1, 2, 4}
      BY <1>2, <1>6, <1>12 DEF Levels
    <2>2. sizes' = [sizes EXCEPT ![level] = m - Before]
      BY <1>1, <1>4, <1>12 DEF Memorized
    <2>3. /\ sizes \in [{0, 1, 2} -> Nat] /\ Before \in Nat /\ Before <= m
          /\ \A l \in {0, 1, 2} : l >= level => sizes[l] = 0
      BY <1>4, BeforeType DEF TextOK
    <2>4. /\ sizes'[level] = m - Before
          /\ \A l \in {0, 1, 2} : l # level => sizes'[l] = sizes[l]
      BY <2>1, <2>2, <2>3
    <2>5. Before' = m
      BY <1>8, <2>1, <2>3, <2>4 DEF Before
    <2>6. ASSUME NEW l \in Levels, l < level'
          PROVE  EndOf(l)' = IF l < level THEN EndOf(l) ELSE m
      <3>1. l \in {0, 1, 2} /\ l # level'
        BY <2>1, <2>6 DEF Levels
      <3>2. CASE level = 0
        BY <1>8, <2>1, <2>3, <2>4, <3>1, <3>2 DEF EndOf, Before
      <3>3. CASE level = 1
        <4>1. /\ sizes'[0] = sizes[0] /\ sizes'[1] = m - Before /\ sizes'[2] = 0
              /\ Before = sizes[0] /\ sizes[0] \in Nat
          BY <2>3, <2>4, <3>3 DEF Before
        <4>2. sizes'[0] + sizes'[1] = m
          BY <1>8, <4>1
        <4>3. sizes'[0] + sizes'[1] + sizes'[2] = m
          BY <1>8, <4>1, <4>2
        <4>4. QED
          BY <3>1, <3>3, <4>1, <4>2, <4>3 DEF EndOf
      <3>4. CASE level = 2
        <4>1. /\ sizes'[0] = sizes[0] /\ sizes'[1] = sizes[1] /\ sizes'[2] = m - Before
              /\ Before = sizes[0] + sizes[1] /\ sizes[0] \in Nat /\ sizes[1] \in Nat
          BY <2>3, <2>4, <3>4 DEF Before
        <4>2. \A a, b \in Nat : a + b + (m - (a + b)) = m
          BY <1>8
        <4>3. sizes'[0] + sizes'[1] + sizes'[2] = m
          BY <4>1, <4>2
        <4>4. QED
          BY <3>1, <3>4, <4>1, <4>3 DEF EndOf
      <3>5. QED
        BY <2>1, <3>2, <3>3, <3>4
    <2>7. \E i \in 1 .. Len(out') : NeedOf(bytes, out'[i]) = level'
      BY <1>3, <1>4, <1>6, <1>8, <2>1
    <2>8. ASSUME NEW l \in Levels, l <= level', NEW p \in 1 .. EndOf(l)'
          PROVE  NeedOf(bytes, out'[p]) <= l
      <3>1. CASE l = level'
        <4>1. EndOf(l)' = Len(out')
          BY <3>1 DEF EndOf
        <4>2. QED
          BY <1>8, <1>10, <2>8, <3>1, <4>1
      <3>2. CASE l # level' /\ l < level
        <4>1. l < level' /\ level > 0
          BY <1>2, <2>1, <2>8, <3>2 DEF Levels
        <4>2. EndOf(l) \in Nat /\ EndOf(l) <= Before /\ EndOf(l)' = EndOf(l) /\ Before < m
          BY <1>7, <2>6, <3>2, <4>1, EndsBefore
        <4>3. p \in 1 .. EndOf(l) /\ p \in 1 .. m
          BY <1>8, <2>3, <2>8, <4>2
        <4>4. NeedOf(bytes, out[p]) <= l
          BY <1>2, <2>1, <3>2, <4>3 DEF FitsOK, Levels
        <4>5. QED
          BY <1>3, <1>4, <4>3, <4>4
      <3>3. CASE l # level' /\ ~(l < level)
        <4>1. l < level' /\ level <= l
          BY <1>2, <2>1, <2>8, <3>3 DEF Levels
        <4>2. EndOf(l)' = m
          BY <2>6, <3>3, <4>1
        <4>3. p \in 1 .. m
          BY <2>8, <4>2
        <4>4. out'[p] = out[p] /\ NeedOf(bytes, out[p]) <= level /\ NeedOf(bytes, out[p]) \in Nat
          BY <1>3, <1>4, <1>7, <4>3, NeedType
        <4>5. QED
          BY <1>2, <4>1, <4>4 DEF Levels
      <3>4. QED
        BY <3>1, <3>2, <3>3
    <2>9. QED
      BY <1>6, <1>8, <1>9, <2>5, <2>7, <2>8 DEF FitsOK
  <1>13. QED
    BY <1>6, <1>11, <1>12

\* A step that only fails.
LEMMA FailWidths ==
  ASSUME WidthInv, pc # "returned",
         \/ \E e \in {"none", "MemoryError", "JSONEncodeError"} : Fail(e) \/ NoMemory(e)
         \/ ReturnFailure
  PROVE  WidthInv'
  <1>1. /\ UNCHANGED <<bytes, out, level, sizes, result>> /\ pc' \in {"fail", "returned"}
        /\ result' = "null"
    BY DEF Fail, NoMemory, ReturnFailure, input, text, WidthInv
  <1>2. ~Writing' /\ pc' # "start"
    BY <1>1 DEF Writing, Walking
  <1>3. QED
    BY <1>1, <1>2 DEF WidthInv, Canonical

\* A step of the walk that leaves the text as the lemmas above say.
LEMMA WritingWidths ==
  ASSUME WidthInv, pc # "returned", UNCHANGED bytes, UNCHANGED result, pc' # "start",
         FitsOK', bytes' => level' = 0
  PROVE  WidthInv'
  BY DEF WidthInv, Canonical

\* The first text of a container.
LEMMA StartWidths ==
  ASSUME IInv, WidthInv, StartEmpty \/ StartContainer
  PROVE  WidthInv'
  <1>1. /\ pc = "start" /\ root \in Containers /\ bytes' = bytes /\ result' = result
        /\ pc' # "start" /\ out = <<>> /\ level = 0
    <2>1. pc = "start" /\ root \in Containers /\ bytes' = bytes /\ result' = result
      BY DEF StartEmpty, StartContainer, input, outcome
    <2>2. pc' # "start"
      BY <2>1, ContainerKind DEF StartEmpty, StartContainer, Enter
    <2>3. QED
      BY <2>1, <2>2 DEF WidthInv
  <1>2. PICK toks : /\ Write(toks)
                    /\ \/ toks = <<Opening(root), Closing(root), "comma">>
                       \/ toks = <<Opening(root)>>
    BY DEF StartEmpty, StartContainer
  <1>3. /\ toks \in Seq(Marks) /\ Len(toks) >= 1 /\ Len(toks) \in Nat
        /\ \A i \in 1 .. Len(toks) : toks[i] \in Marks
    <2>1. Opening(root) \in Marks /\ Closing(root) \in Marks /\ "comma" \in Marks
      BY <1>1, ContainerKind DEF Marks
    <2>2. toks \in Seq(Marks) /\ Len(toks) >= 1
      <3>1. CASE toks = <<Opening(root)>>
        BY <2>1, <3>1
      <3>2. CASE toks = <<Opening(root), Closing(root), "comma">>
        BY <2>1, <3>2
      <3>3. QED
        BY <1>2, <3>1, <3>2
    <2>3. QED
      BY <2>2, ElementOfSeq, LenProperties
  <1>4. out' = toks /\ level' = level /\ sizes' = sizes
    BY <1>1, <1>2, <1>3, ConcatEmptySeq DEF Write
  <1>5. FitsOK'
    <2>1. Len(toks) \in 1 .. Len(toks)
      BY <1>3
    <2>2. \A i \in 1 .. Len(toks) : NeedOf(bytes, toks[i]) = 0
      BY <1>3, NeedType
    <2>3. \A l \in Levels : l <= 0 => EndOf(l)' = Len(toks)
      BY <1>1, <1>4 DEF EndOf, Levels
    <2>4. QED
      BY <1>1, <1>3, <1>4, <2>1, <2>2, <2>3 DEF FitsOK, Levels
  <1>6. QED
    BY <1>1, <1>4, <1>5, WritingWidths

\* A single value is the text.
LEMMA SingleWidths ==
  ASSUME IInv, WidthInv, StartSingle \/ SingleFails
  PROVE  WidthInv'
  <1>1. /\ pc = "start" /\ pc' = "returned" /\ bytes' = bytes /\ out = <<>> /\ level = 0
        /\ bytes \in BOOLEAN /\ result = "null" /\ root \in Objects
    BY DEF StartSingle, SingleFails, input, WidthInv, IInv, PlaceInv, InputOK
  <1>2. ~Writing' /\ pc' # "start"
    BY <1>1 DEF Writing, Walking
  <1>3. CASE UNCHANGED text /\ result' = result
    BY <1>1, <1>2, <1>3 DEF WidthInv, Canonical, text
  <1>4. CASE /\ Kind[root] = "str" /\ result' = "text"
             /\ out' = <<root>> /\ level' = LevelOf(root) /\ UNCHANGED sizes
    <2>1. root \in Strs /\ Level[root] \in Levels
      BY <1>1, <1>4, ObjectsAssumption DEF Strs
    <2>2. level' = IF bytes THEN 0 ELSE Level[root]
      BY <1>1, <1>4, <2>1 DEF LevelOf, Levels
    <2>3. NeedOf(bytes, root) = level' /\ level' \in Levels
      BY <2>1, <2>2 DEF NeedOf, Levels
    <2>4. Len(out') = 1 /\ out'[1] = root
      BY <1>4
    <2>5. Canonical'
      BY <1>1, <2>3, <2>4 DEF Canonical, Levels
    <2>6. QED
      BY <1>1, <1>2, <2>2, <2>5 DEF WidthInv
  <1>5. CASE Kind[root] = "atom" /\ result' = "text" /\ Write(<<root>>)
    <2>1. <<root>> \in Seq(Objects)
      BY <1>1
    <2>2. out' = <<root>> /\ level' = 0
      BY <1>1, <1>5, <2>1, ConcatEmptySeq DEF Write
    <2>3. NeedOf(bytes, root) = 0
      BY <1>5 DEF NeedOf, Strs
    <2>4. Len(out') = 1 /\ out'[1] = root
      BY <2>2
    <2>5. Canonical'
      BY <1>1, <2>2, <2>3, <2>4 DEF Canonical
    <2>6. QED
      BY <1>1, <1>2, <2>2, <2>5 DEF WidthInv
  <1>6. QED
    BY <1>3, <1>4, <1>5 DEF StartSingle, SingleFails

\* A value of any kind.
LEMMA ValueWidths ==
  ASSUME IInv, WidthInv, Walking, NEW p, NEW v \in Objects,
         \/ ProcessValue(v, p) \/ RejectValue(v) \/ ValueFails(v)
  PROVE  WidthInv'
  <1>1. pc # "returned" /\ FitsOK /\ TextOK /\ bytes \in BOOLEAN /\ (bytes => level = 0)
        /\ cur \in Containers
    BY DEF Walking, Writing, WidthInv, IInv, PlaceInv, InputOK, InHand
  <1>2. CASE RejectValue(v) \/ ValueFails(v)
    BY <1>1, <1>2, FailWidths DEF RejectValue, ValueFails
  <1>3. CASE ProcessValue(v, p)
    <2>1. bytes' = bytes /\ result' = result
      BY <1>3 DEF ProcessValue, input, outcome
    <2>2. pc' # "start"
      BY <1>1, <1>3, ContainerKind
         DEF ProcessValue, ValueStr, ValueAtom, ValueEmpty, Push, Enter
    <2>3. FitsOK' /\ (bytes' => level' = 0)
      <3>1. CASE ValueStr(v)
        <4>1. v \in Strs /\ "comma" \in Marks /\ WriteStr(v, "comma")
          BY <3>1 DEF ValueStr, Strs, Marks
        <4>2. QED
          BY <1>1, <2>1, <4>1, WriteStrFits
      <3>2. ASSUME NEW toks \in Seq(Toks), Len(toks) >= 1, toks[Len(toks)] \in Marks,
                   Write(toks), \A i \in 1 .. Len(toks) : NeedOf(bytes, toks[i]) = 0
            PROVE  FitsOK' /\ (bytes' => level' = 0)
        <4>1. FitsOK'
          BY <1>1, <2>1, <3>2, WriteFits
        <4>2. QED
          BY <1>1, <2>1, <3>2, <4>1 DEF Write
      <3>3. CASE ValueAtom(v)
        <4>1. PICK toks : toks = <<v, "comma">>
          OBVIOUS
        <4>2. toks \in Seq(Toks) /\ Len(toks) = 2 /\ toks[1] = v /\ toks[2] \in Marks
          BY <4>1 DEF Toks, Marks
        <4>3. NeedOf(bytes, v) = 0 /\ NeedOf(bytes, toks[2]) = 0
          BY <3>3, <4>2, NeedType DEF ValueAtom, NeedOf, Strs
        <4>4. \A i \in 1 .. 2 : i = 1 \/ i = 2
          OBVIOUS
        <4>5. QED
          <5>1. \A i \in 1 .. Len(toks) : NeedOf(bytes, toks[i]) = 0
            BY <4>2, <4>3, <4>4
          <5>2. Write(toks) /\ Len(toks) >= 1 /\ toks[Len(toks)] \in Marks
            BY <3>3, <4>1, <4>2 DEF ValueAtom
          <5>3. QED
            BY <3>2, <4>2, <5>1, <5>2
      <3>4. CASE ValueEmpty(v)
        <4>1. PICK toks : toks = <<Opening(v), Closing(v), "comma">>
          OBVIOUS
        <4>2. /\ toks \in Seq(Toks) /\ Len(toks) = 3
              /\ toks[1] \in Marks /\ toks[2] \in Marks /\ toks[3] \in Marks
          BY <3>4, <4>1, ContainerKind DEF Toks, Marks, ValueEmpty
        <4>3. /\ NeedOf(bytes, toks[1]) = 0 /\ NeedOf(bytes, toks[2]) = 0
              /\ NeedOf(bytes, toks[3]) = 0
          BY <4>2, NeedType
        <4>4. \A i \in 1 .. 3 : i = 1 \/ i = 2 \/ i = 3
          OBVIOUS
        <4>5. QED
          <5>1. \A i \in 1 .. Len(toks) : NeedOf(bytes, toks[i]) = 0
            BY <4>2, <4>3, <4>4
          <5>2. Write(toks) /\ Len(toks) >= 1 /\ toks[Len(toks)] \in Marks
            BY <3>4, <4>1, <4>2 DEF ValueEmpty
          <5>3. QED
            BY <3>2, <4>2, <5>1, <5>2
      <3>5. CASE v \in Containers /\ Write(<<Opening(v)>>)
        <4>1. PICK toks : toks = <<Opening(v)>>
          OBVIOUS
        <4>2. toks \in Seq(Toks) /\ Len(toks) = 1 /\ toks[1] \in Marks
          BY <3>5, <4>1, ContainerKind DEF Toks
        <4>3. NeedOf(bytes, toks[1]) = 0
          BY <4>2, NeedType
        <4>4. \A i \in 1 .. 1 : i = 1
          OBVIOUS
        <4>5. QED
          <5>1. \A i \in 1 .. Len(toks) : NeedOf(bytes, toks[i]) = 0
            BY <4>2, <4>3, <4>4
          <5>2. Write(toks) /\ Len(toks) >= 1 /\ toks[Len(toks)] \in Marks
            BY <3>5, <4>1, <4>2
          <5>3. QED
            BY <3>2, <4>2, <5>1, <5>2
      <3>6. QED
        BY <1>3, <3>1, <3>3, <3>4, <3>5 DEF ProcessValue
    <2>4. QED
      BY <1>1, <2>1, <2>2, <2>3, WritingWidths
  <1>4. QED
    BY <1>2, <1>3

LEMMA LoopWidths ==
  ASSUME IInv, WidthInv, ReadPair \/ PairValue \/ ItemValue
  PROVE  WidthInv'
  <1>1. Walking /\ pc # "returned"
    BY DEF ReadPair, PairValue, ItemValue, Walking
  <1>2. cur \in Containers /\ pos \in Nat /\ Len(Items(cur)) \in Nat /\ pos <= Len(Items(cur))
    BY <1>1, ItemsType DEF IInv, PlaceInv, InHand, WalkOK
  <1>3. CASE PairValue
    <2>1. val \in Objects
      BY <1>2, <1>3, ItemsType DEF PairValue, IInv, PlaceInv, InHand
    <2>2. QED
      BY <1>1, <1>3, <2>1, ValueWidths DEF PairValue
  <1>4. CASE ItemValue
    <2>1. PICK v : v = Items(cur)[pos + 1].val
      OBVIOUS
    <2>2. pos + 1 \in 1 .. Len(Items(cur))
      BY <1>2, <1>4 DEF ItemValue, IInv, PlaceInv, ListInHand
    <2>3. v \in Objects
      BY <1>2, <2>1, <2>2, ItemsType DEF IInv, PlaceInv
    <2>4. QED
      BY <1>1, <1>4, <2>1, <2>3, ValueWidths DEF ItemValue
  <1>5. CASE ReadPair
    <2>1. PICK k : k = Items(cur)[pos + 1].key
      OBVIOUS
    <2>2. pos + 1 \in 1 .. Len(Items(cur)) /\ Kind[cur] = "dict"
      BY <1>2, <1>5 DEF ReadPair, IInv, PlaceInv, InHand, Walking
    <2>3. k \in Objects
      BY <1>2, <2>1, <2>2, ItemsType DEF IInv, PlaceInv
    <2>4. CASE Fail("JSONEncodeError") \/ NoMemory("none")
      BY <1>1, <2>4, FailWidths
    <2>5. CASE /\ Kind[k] = "str" /\ WriteStr(k, "colon") /\ pc' = "dict_key_done"
               /\ UNCHANGED <<input, outcome>>
      <3>1. k \in Strs /\ "colon" \in Marks
        BY <2>3, <2>5 DEF Strs, Marks
      <3>2. FitsOK' /\ (bytes' => level' = 0)
        BY <1>1, <2>5, <3>1, WriteStrFits DEF Writing, WidthInv, IInv, PlaceInv, InputOK, input
      <3>3. QED
        BY <1>1, <2>5, <3>2, WritingWidths DEF input, outcome
    <2>6. QED
      BY <1>5, <2>1, <2>4, <2>5 DEF ReadPair
  <1>6. QED
    BY <1>3, <1>4, <1>5

LEMMA EndWidths ==
  ASSUME IInv, WidthInv, EndContainer
  PROVE  WidthInv'
  <1>1. Walking /\ pc # "returned"
    BY DEF EndContainer, Walking
  <1>2. CASE NoMemory("none")
    BY <1>1, <1>2, FailWidths
  <1>3. CASE WriteEnd(Closing(cur)) /\ UNCHANGED <<input, outcome>> /\ pc' # "start"
    <2>1. Closing(cur) \in Marks
      BY <1>1, ContainerKind DEF IInv, PlaceInv, InHand
    <2>2. FitsOK' /\ level' = level
      BY <1>1, <1>3, <2>1, WriteEndFits DEF Writing, WidthInv, IInv, input, WriteEnd
    <2>3. QED
      BY <1>1, <1>3, <2>2, WritingWidths DEF WidthInv, input, outcome
  <1>4. ASSUME Resume(stack[depth - 1]), depth # 1 PROVE pc' # "start"
    BY <1>4 DEF Resume, Enter, LabelOf
  <1>5. QED
    BY <1>2, <1>3, <1>4 DEF EndContainer

LEMMA SuccessWidths ==
  ASSUME IInv, WidthInv, Succeed
  PROVE  WidthInv'
  <1>1. pc = "success" /\ pc # "returned" /\ FitsOK /\ TextOK
    BY DEF Succeed, WidthInv, Writing, IInv
  <1>2. CASE NoMemory("none")
    BY <1>1, <1>2, FailWidths
  <1>3. CASE /\ pc' = "returned" /\ out' = SubSeq(out, 1, Len(out) - 1) /\ result' = "text"
             /\ UNCHANGED <<input, level, sizes>>
    <2>1. PICK m : m = Len(out)
      OBVIOUS
    <2>2. m \in Nat /\ m >= 1 /\ \A i \in 1 .. m - 1 : out[i] \in Toks
      <3>1. Len(out) \in Nat /\ \A i \in 1 .. Len(out) : out[i] \in Toks
        BY <1>1, ElementOfSeq, LenProperties DEF TextOK
      <3>2. QED
        BY <1>1, <2>1, <3>1 DEF FitsOK
    <2>3. /\ Len(SubSeq(out, 1, m - 1)) = IF 1 <= m - 1 THEN m - 1 - 1 + 1 ELSE 0
          /\ \A i \in 1 .. m - 1 - 1 + 1 : SubSeq(out, 1, m - 1)[i] = out[1 + i - 1]
      BY <2>2, SubSeqProperties
    <2>4. Len(out') = m - 1 /\ \A i \in 1 .. m - 1 : out'[i] = out[i]
      BY <1>3, <2>1, <2>2, <2>3
    <2>5. \A i \in 1 .. m - 1 : NeedOf(bytes, out[i]) <= level
      <3>1. EndOf(level) = m /\ level \in Levels
        BY <1>1, <2>1 DEF EndOf, TextOK
      <3>2. QED
        BY <1>1, <2>2, <3>1 DEF FitsOK, Levels
    <2>6. level > 0 => \E i \in 1 .. m - 1 : NeedOf(bytes, out[i]) = level
      <3>1. SUFFICES ASSUME level > 0 PROVE \E i \in 1 .. m - 1 : NeedOf(bytes, out[i]) = level
        OBVIOUS
      <3>2. PICK i \in 1 .. m : NeedOf(bytes, out[i]) = level
        BY <1>1, <2>1, <3>1 DEF FitsOK
      <3>3. NeedOf(bytes, out[m]) = 0
        BY <1>1, <2>1, NeedType DEF FitsOK
      <3>4. i \in 1 .. m - 1
        BY <2>2, <3>1, <3>2, <3>3
      <3>5. QED
        BY <3>2, <3>4
    <2>7. bytes' = bytes /\ level' = level
      BY <1>3 DEF input
    <2>8. Canonical'
      BY <2>4, <2>5, <2>6, <2>7 DEF Canonical
    <2>9. ~Writing'
      BY <1>3 DEF Writing, Walking
    <2>10. QED
      BY <1>3, <2>7, <2>8, <2>9 DEF WidthInv
  <1>4. QED
    BY <1>2, <1>3 DEF Succeed

LEMMA WidthStep == IInv /\ WidthInv /\ [Next]_vars => WidthInv'
  <1> SUFFICES ASSUME IInv, WidthInv, [Next]_vars PROVE WidthInv'
    OBVIOUS
  <1>1. CASE InitFails
    BY <1>1, FailWidths DEF InitFails
  <1>2. CASE StartEmpty \/ StartContainer
    BY <1>2, StartWidths
  <1>3. CASE StartSingle \/ SingleFails
    BY <1>3, SingleWidths
  <1>4. CASE ReadPair \/ PairValue \/ ItemValue
    BY <1>4, LoopWidths
  <1>5. CASE EndContainer
    BY <1>5, EndWidths
  <1>6. CASE Succeed
    BY <1>6, SuccessWidths
  <1>7. CASE ReturnFailure
    BY <1>7, FailWidths DEF ReturnFailure
  <1>8. CASE UNCHANGED vars
    <2>1. UNCHANGED <<bytes, pc, out, level, sizes, result>>
      BY <1>8 DEF vars, input, text, outcome
    <2>2. QED
      BY <2>1 DEF WidthInv, Canonical, Writing, Walking, FitsOK, EndOf, Before
  <1>9. QED
    BY <1>1, <1>2, <1>3, <1>4, <1>5, <1>6, <1>7, <1>8 DEF Next, Step, Returned

LEMMA WidthInvariant == Spec => []WidthInv
  <1>1. Init => WidthInv
    BY DEF Init, WidthInv, Writing, Walking, Canonical
  <1>2. QED
    BY <1>1, WidthStep, Invariant, PTL DEF Spec

\* Whatever the strings are and in whatever order they come, each is in a part
\* of the text whose characters hold it, so that widening the parts at the end
\* reads every character as it was written.
THEOREM PartsFit == Spec => []CharsFitParts
  <1>1. WidthInv => CharsFitParts
    BY DEF WidthInv, Writing, FitsOK, CharsFitParts, NeedOf, Need
  <1>2. QED
    BY <1>1, WidthInvariant, PTL

\* The string that dumps() returns has the least kind that holds it.
THEOREM KindCorrect == Spec => []KindIsCanonical
  <1>1. IInv /\ WidthInv => KindIsCanonical
    <2>1. SUFFICES ASSUME IInv, WidthInv, result = "text", NEW l \in Levels
                   PROVE  level <= l <=> \A p \in 1 .. Len(out) : Need(out[p]) <= l
      BY DEF KindIsCanonical
    <2>2. /\ \A p \in 1 .. Len(out) : Need(out[p]) <= level /\ Need(out[p]) \in Nat
          /\ level > 0 => \E p \in 1 .. Len(out) : Need(out[p]) = level
      <3>1. \A p : Need(out[p]) = NeedOf(bytes, out[p]) /\ NeedOf(bytes, out[p]) \in Nat
        BY NeedType DEF Need, NeedOf
      <3>2. QED
        BY <2>1, <3>1 DEF WidthInv, Canonical
    <2>3. level \in Nat /\ l \in Nat /\ level \in Levels
      BY <2>1 DEF IInv, TextOK, Levels
    <2>4. QED
      BY <2>2, <2>3
  <1>2. QED
    BY <1>1, Invariant, WidthInvariant, PTL
-----------------------------------------------------------------------------
(* How the call fails: who gives up raises, or leaves it to pyyjson_Encode. *)

\* Inductive: until the walk ends nobody has raised and there is no result.
FailureInv ==
  /\ pc # "returned" => result = "null"
  /\ pc \notin {"fail", "returned"} => err = "none"
  /\ pc = "returned" /\ root \in Containers => (result = "null" <=> err # "none")

\* Every step of a walk that goes on, or that gives up.
LEMMA WalkFailures ==
  ASSUME FailureInv, pc # "returned", pc' # "returned", result' = result,
         \/ pc' = "fail"
         \/ err' = err /\ pc # "fail"
  PROVE  FailureInv'
  BY DEF FailureInv

LEMMA GivesUp ==
  ASSUME FailureInv, pc # "returned", NEW e \in {"none", "MemoryError", "JSONEncodeError"}, Fail(e) \/ NoMemory(e)
  PROVE  FailureInv'
<1>1. pc' = "fail" /\ result' = result  BY DEF Fail, NoMemory
<1>. QED  BY <1>1 DEF FailureInv

LEMMA LabelIsNoEnd ==
  ASSUME NEW o PROVE LabelOf(o) \notin {"returned", "fail"}
  BY DEF LabelOf

LEMMA ValueFailures ==
  ASSUME FailureInv, NEW v, NEW p, pc \in {"dict_key_done", "arr_val_begin"},
         ProcessValue(v, p) \/ RejectValue(v) \/ ValueFails(v)
  PROVE  FailureInv'
<1>1. CASE ProcessValue(v, p)
  <2>1. pc' \notin {"returned", "fail"} /\ UNCHANGED outcome
    BY <1>1, LabelIsNoEnd DEF ProcessValue, ValueStr, ValueAtom, ValueEmpty, Push, Enter
  <2>. QED  BY <2>1, WalkFailures DEF outcome
<1>2. CASE RejectValue(v)  BY <1>2, GivesUp DEF RejectValue
<1>3. CASE ValueFails(v)  BY <1>3, GivesUp DEF ValueFails
<1>. QED  BY <1>1, <1>2, <1>3

LEMMA FailureStep == ASSUME FailureInv, [Next]_vars PROVE FailureInv'
<1>1. CASE InitFails  BY <1>1, GivesUp DEF InitFails
<1>2. CASE StartEmpty  BY <1>2, WalkFailures DEF StartEmpty, outcome
<1>3. CASE StartContainer
  BY <1>3, WalkFailures, LabelIsNoEnd DEF StartContainer, Enter, outcome
<1>4. CASE StartSingle \/ SingleFails
  BY <1>4 DEF StartSingle, SingleFails, FailureInv, input
<1>5. CASE ReadPair
  <2>1. CASE /\ pc = "dict_pair_begin" /\ pc' = "dict_key_done" /\ UNCHANGED outcome
    BY <2>1, WalkFailures DEF outcome
  <2>. QED  BY <1>5, <2>1, GivesUp DEF ReadPair
<1>6. CASE PairValue  BY <1>6, ValueFailures DEF PairValue
<1>7. CASE ItemValue  BY <1>7, ValueFailures DEF ItemValue
<1>8. CASE EndContainer
  <2>1. CASE UNCHANGED outcome /\ (pc' = "success" \/ Resume(stack[depth - 1]))
    <3>1. pc' \notin {"returned", "fail"}  BY <2>1, LabelIsNoEnd DEF Resume, Enter
    <3>. QED  BY <1>8, <3>1, <2>1, WalkFailures DEF EndContainer, outcome
  <2>. QED  BY <1>8, <2>1, GivesUp DEF EndContainer
<1>9. CASE Succeed
  <2>1. CASE NoMemory("none")  BY <1>9, <2>1, GivesUp DEF Succeed
  <2>. QED  BY <1>9, <2>1 DEF Succeed, FailureInv
<1>10. CASE ReturnFailure  BY <1>10 DEF ReturnFailure, FailureInv
<1>11. CASE UNCHANGED vars  BY <1>11 DEF vars, input, outcome, FailureInv
<1>. QED
  BY <1>1, <1>2, <1>3, <1>4, <1>5, <1>6, <1>7, <1>8, <1>9, <1>10, <1>11 DEF Next, Step, Returned

\* dumps() of a container returns NULL exactly when an exception is set,
\* whatever fails on the way and whether or not who failed has raised: the
\* caller of the walk raises for those who did not.
THEOREM FailuresRaise == Spec => []FailureRaises
<1>1. Init => FailureInv  BY DEF Init, FailureInv
<1>2. FailureInv => FailureRaises  BY DEF FailureInv, FailureRaises
<1>. QED  BY <1>1, <1>2, FailureStep, PTL DEF Spec
-----------------------------------------------------------------------------
(* Texts.                                                                  *)

Texts == Seq(Toks)

LEMMA TextEmpty == <<>> \in Texts
  BY EmptySeq DEF Texts

LEMMA TextOne == ASSUME NEW x \in Toks PROVE <<x>> \in Texts
<1>1. Append(<<>>, x) \in Seq(Toks)  BY EmptySeq, AppendProperties
<1>2. Append(<<>>, x) = <<x>>  OBVIOUS
<1>. QED  BY <1>1, <1>2 DEF Texts

LEMMA TextConcat ==
  ASSUME NEW a \in Texts, NEW b \in Texts
  PROVE  a \o b \in Texts /\ a \o <<>> = a /\ <<>> \o a = a
  BY ConcatProperties, ConcatEmptySeq DEF Texts

LEMMA TextAssociative ==
  ASSUME NEW a \in Texts, NEW b \in Texts, NEW c \in Texts
  PROVE  (a \o b) \o c = a \o (b \o c)
  BY ConcatAssociative DEF Texts

Associates(a, b, c) == (a \o b) \o c = a \o (b \o c)

LEMMA TextAssociates ==
  ASSUME NEW a \in Texts, NEW b \in Texts, NEW c \in Texts PROVE Associates(a, b, c)
  BY TextAssociative DEF Associates

Associates4(a, b, c, d) == ((a \o b) \o c) \o d = a \o (b \o (c \o d))

LEMMA TextAssociates4 ==
  ASSUME NEW a \in Texts, NEW b \in Texts, NEW c \in Texts, NEW d \in Texts
  PROVE  Associates4(a, b, c, d)
<1>1. PICK e, g : e = a \o b /\ g = c \o d  OBVIOUS
<1>2. e \in Texts /\ g \in Texts  BY <1>1, TextConcat
<1>3. Associates(e, c, d)  BY <1>2, TextAssociates
<1>4. Associates(a, b, g)  BY <1>2, TextAssociates
<1>5. (e \o c) \o d = e \o g /\ e \o g = a \o (b \o g)  BY <1>1, <1>3, <1>4 DEF Associates
<1>. QED  BY <1>1, <1>5 DEF Associates4

LEMMA TextPair == ASSUME NEW x \in Toks, NEW y \in Toks
                  PROVE <<x, y>> \in Texts /\ <<x, y>> = <<x>> \o <<y>>
<1>1. <<x>> \in Texts /\ <<y>> \in Texts  BY TextOne
<1>2. <<x>> \o <<y>> = <<x, y>>
  <2>1. PICK s, t, r : s = <<x>> /\ t = <<y>> /\ r = <<x, y>>  OBVIOUS
  <2>2. /\ s \in Seq(Toks) /\ Len(s) = 1 /\ s[1] = x
        /\ t \in Seq(Toks) /\ Len(t) = 1 /\ t[1] = y
        /\ r \in Seq(Toks) /\ Len(r) = 2 /\ r[1] = x /\ r[2] = y
    BY <2>1
  <2>3. /\ s \o t \in Seq(Toks) /\ Len(s \o t) = 1 + 1
        /\ \A i \in 1 .. 1 + 1 : (s \o t)[i] = IF i <= 1 THEN s[i] ELSE t[i - 1]
    BY <2>2, ConcatProperties
  <2>4. (s \o t)[1] = x /\ (s \o t)[2] = y
    <3>1. 1 \in 1 .. 1 + 1 /\ 2 \in 1 .. 1 + 1 /\ 1 <= 1 /\ ~ (2 <= 1) /\ 2 - 1 = 1  OBVIOUS
    <3>. QED  BY <2>2, <2>3, <3>1
  <2>5. \A i \in 1 .. 2 : (s \o t)[i] = r[i]
    <3>1. \A i \in 1 .. 2 : i = 1 \/ i = 2  OBVIOUS
    <3>. QED  BY <2>2, <2>4, <3>1
  <2>6. s \o t = r
    <3>1. Len(s \o t) = 2  BY <2>3
    <3>. QED  BY <2>2, <2>3, <2>5, <3>1, SeqEqual
  <2>. QED  BY <2>1, <2>6
<1>. QED  BY <1>1, <1>2, TextConcat

\* The last token of a text, and the text without it.
LEMMA TextLast ==
  ASSUME NEW a \in Texts, NEW x \in Toks
  PROVE  /\ Len(a \o <<x>>) = Len(a) + 1 /\ Len(a) \in Nat
         /\ (a \o <<x>>)[Len(a \o <<x>>)] = x
         /\ SubSeq(a \o <<x>>, 1, Len(a \o <<x>>) - 1) = a
<1>1. PICK n \in Nat : n = Len(a)  BY LenProperties DEF Texts
<1>2. Append(a, x) = a \o <<x>>  BY AppendIsConcat DEF Texts
<1>3. PICK s : s = a \o <<x>>  OBVIOUS
<1>4. Len(s) = n + 1 /\ s[n + 1] = x /\ \A i \in 1 .. n : s[i] = a[i]
  BY <1>1, <1>2, <1>3, AppendProperties DEF Texts
<1>5. \A i \in 1 .. n : s[i] \in Toks
  <2>1. \A i \in 1 .. n : a[i] \in Toks  BY <1>1, ElementOfSeq DEF Texts
  <2>. QED  BY <1>4, <2>1
<1>6. /\ SubSeq(s, 1, n) \in Seq(Toks)
      /\ Len(SubSeq(s, 1, n)) = n
      /\ \A i \in 1 .. n : SubSeq(s, 1, n)[i] = a[i]
  <2>1. /\ SubSeq(s, 1, n) \in Seq(Toks)
        /\ Len(SubSeq(s, 1, n)) = IF 1 <= n THEN n - 1 + 1 ELSE 0
        /\ \A i \in 1 .. n - 1 + 1 : SubSeq(s, 1, n)[i] = s[1 + i - 1]
    BY <1>5, SubSeqProperties
  <2>. QED  BY <1>4, <2>1
<1>7. SubSeq(s, 1, n) = a  BY <1>1, <1>6, SeqEqual DEF Texts
<1>8. Len(s) - 1 = n  BY <1>4
<1>. QED  BY <1>1, <1>3, <1>4, <1>7, <1>8

LEMMA PrefixBegins ==
  ASSUME NEW a \in Texts, NEW b \in Texts
  PROVE  IsPrefix(a, a \o b)
<1>1. PICK n \in Nat : n = Len(a)  BY LenProperties DEF Texts
<1>2. PICK k \in Nat : k = Len(b)  BY LenProperties DEF Texts
<1>3. PICK s : s = a \o b  OBVIOUS
<1>4. Len(s) = n + k /\ \A i \in 1 .. n : s[i] = a[i]
  <2>1. /\ Len(s) = n + k
        /\ \A i \in 1 .. n + k : s[i] = IF i <= n THEN a[i] ELSE b[i - n]
    BY <1>1, <1>2, <1>3, ConcatProperties DEF Texts
  <2>. QED  BY <2>1
<1>5. \A i \in 1 .. n : a[i] \in Toks /\ s[i] \in Toks
  <2>1. \A i \in 1 .. n : a[i] \in Toks  BY <1>1, ElementOfSeq DEF Texts
  <2>. QED  BY <1>4, <2>1
<1>6. /\ SubSeq(s, 1, n) \in Seq(Toks) /\ Len(SubSeq(s, 1, n)) = n
      /\ \A i \in 1 .. n : SubSeq(s, 1, n)[i] = s[i]
  <2>1. /\ SubSeq(s, 1, n) \in Seq(Toks)
        /\ Len(SubSeq(s, 1, n)) = IF 1 <= n THEN n - 1 + 1 ELSE 0
        /\ \A i \in 1 .. n - 1 + 1 : SubSeq(s, 1, n)[i] = s[1 + i - 1]
    BY <1>5, SubSeqProperties
  <2>. QED  BY <2>1
<1>7. /\ SubSeq(a, 1, n) \in Seq(Toks) /\ Len(SubSeq(a, 1, n)) = n
      /\ \A i \in 1 .. n : SubSeq(a, 1, n)[i] = a[i]
  <2>1. /\ SubSeq(a, 1, n) \in Seq(Toks)
        /\ Len(SubSeq(a, 1, n)) = IF 1 <= n THEN n - 1 + 1 ELSE 0
        /\ \A i \in 1 .. n - 1 + 1 : SubSeq(a, 1, n)[i] = a[1 + i - 1]
    BY <1>5, SubSeqProperties
  <2>. QED  BY <2>1
<1>8. SubSeq(a, 1, n) = SubSeq(s, 1, n)
  <2>1. \A i \in 1 .. n : SubSeq(a, 1, n)[i] = SubSeq(s, 1, n)[i]  BY <1>4, <1>6, <1>7
  <2>. QED  BY <1>6, <1>7, <2>1, SeqEqual
<1>. QED  BY <1>1, <1>3, <1>4, <1>8 DEF IsPrefix

LEMMA SeparatorType == ASSUME NEW i PROVE Separator(i) \in Texts
<1>1. "comma" \in Toks  BY DEF Toks, Marks
<1>2. <<"comma">> \in Texts  BY <1>1, TextOne
<1>. QED  BY <1>2, TextEmpty DEF Separator

-----------------------------------------------------------------------------
(* Parts joined.                                                           *)

\* A set of numbers has a least one.
LEMMA Least == ASSUME NEW S \in SUBSET Nat, S # {} PROVE \E n \in S : \A m \in S : n <= m
<1>1. IsWellFoundedOn(OpToRel(<, Nat), Nat)  BY NatLessThanWellFounded
<1>2. PICK x \in S : \A y \in S : ~ (<<y, x>> \in OpToRel(<, Nat))  BY <1>1, WFMin
<1>3. \A y \in S : ~ (y < x)  BY <1>2 DEF OpToRel
<1>. QED  BY <1>3

\* f has what is joined of the first m parts, for each m.
JoinedTo(parts, n, f) ==
  f = [m \in 0 .. n |-> IF m = 0 THEN <<>> ELSE f[m - 1] \o Separator(m) \o parts[m]]

LEMMA JoinedGrows ==
  ASSUME NEW parts, NEW n \in Nat, NEW f, JoinedTo(parts, n, f)
  PROVE  \E g : JoinedTo(parts, n + 1, g)
<1>. DEFINE new == f[n] \o Separator(n + 1) \o parts[n + 1]
            g == [m \in 0 .. n + 1 |-> IF m = n + 1 THEN new ELSE f[m]]
<1>1. g = [m \in 0 .. n + 1 |-> g[m]] /\ g[n + 1] = new /\ \A m \in 0 .. n : g[m] = f[m]
  OBVIOUS
<1>2. f[0] = <<>> /\ \A m \in 1 .. n : f[m] = f[m - 1] \o Separator(m) \o parts[m]
  <2>1. 0 \in 0 .. n /\ \A m \in 1 .. n : m \in 0 .. n /\ m # 0  OBVIOUS
  <2>. QED  BY <2>1 DEF JoinedTo
<1>. HIDE DEF g
<1>3. \A m \in 0 .. n + 1 :
        g[m] = IF m = 0 THEN <<>> ELSE g[m - 1] \o Separator(m) \o parts[m]
  <2>1. TAKE m \in 0 .. n + 1
  <2>2. CASE m = 0
    <3>1. 0 \in 0 .. n  OBVIOUS
    <3>. QED  BY <1>1, <1>2, <2>2, <3>1
  <2>3. CASE m = n + 1
    <3>1. n \in 0 .. n /\ m - 1 = n /\ m # 0  BY <2>3
    <3>. QED  BY <1>1, <2>3, <3>1
  <2>4. CASE m # 0 /\ m # n + 1
    <3>1. m \in 1 .. n /\ m \in 0 .. n /\ m - 1 \in 0 .. n  BY <2>4
    <3>. QED  BY <1>1, <1>2, <2>4, <3>1
  <2>. QED  BY <2>2, <2>3, <2>4
<1>4. JoinedTo(parts, n + 1, g)  BY <1>1, <1>3 DEF JoinedTo
<1>. QED  BY <1>4

LEMMA JoinedExists == ASSUME NEW parts, NEW n \in Nat PROVE \E f : JoinedTo(parts, n, f)
<1>. DEFINE Bad == {m \in Nat : ~ \E f : JoinedTo(parts, m, f)}
<1>1. 0 \notin Bad
  <2>. DEFINE f == [m \in 0 .. 0 |-> <<>>]
  <2>1. f = [m \in 0 .. 0 |-> IF m = 0 THEN <<>> ELSE f[m - 1] \o Separator(m) \o parts[m]]
    <3>1. \A m \in 0 .. 0 : m = 0  OBVIOUS
    <3>. QED  BY <3>1
  <2>2. JoinedTo(parts, 0, f)  BY <2>1, Zenon DEF JoinedTo
  <2>. QED  BY <2>2
<1>2. Bad = {}
  <2>1. SUFFICES ASSUME Bad # {} PROVE FALSE  OBVIOUS
  <2>2. PICK m \in Bad : \A k \in Bad : m <= k
    <3>1. Bad \in SUBSET Nat  OBVIOUS
    <3>. QED  BY <2>1, <3>1, Least
  <2>3. m \in Nat /\ m # 0 /\ m - 1 \in Nat /\ m - 1 \notin Bad /\ (m - 1) + 1 = m
    BY <1>1, <2>2
  <2>4. PICK f : JoinedTo(parts, m - 1, f)  BY <2>3
  <2>5. \E g : JoinedTo(parts, m, g)  BY <2>3, <2>4, JoinedGrows
  <2>. QED  BY <2>2, <2>5
<1>. QED  BY <1>2

\* What Joined has of the first parts.
UpTo(parts) ==
  CHOOSE f : f = [n \in 0 .. Len(parts) |->
                    IF n = 0 THEN <<>> ELSE f[n - 1] \o Separator(n) \o parts[n]]

LEMMA UpToIs ==
  ASSUME NEW parts, Len(parts) \in Nat
  PROVE  /\ UpTo(parts)[0] = <<>>
         /\ \A m \in 1 .. Len(parts) :
              UpTo(parts)[m] = (UpTo(parts)[m - 1] \o Separator(m)) \o parts[m]
         /\ Joined(parts) = UpTo(parts)[Len(parts)]
<1>1. PICK f : JoinedTo(parts, Len(parts), f)  BY JoinedExists
<1>2. f = [m \in 0 .. Len(parts) |->
             IF m = 0 THEN <<>> ELSE f[m - 1] \o Separator(m) \o parts[m]]
  BY <1>1 DEF JoinedTo
<1>3. PICK g : g = UpTo(parts)  OBVIOUS
<1>4. g = [m \in 0 .. Len(parts) |->
             IF m = 0 THEN <<>> ELSE g[m - 1] \o Separator(m) \o parts[m]]
  BY <1>2, <1>3 DEF UpTo
<1>5. Joined(parts) = g[Len(parts)]  BY <1>3 DEF Joined, UpTo
<1>6. 0 \in 0 .. Len(parts) /\ \A m \in 1 .. Len(parts) : m \in 0 .. Len(parts) /\ m # 0
  OBVIOUS
<1>7. g[0] = <<>> /\ \A m \in 1 .. Len(parts) : g[m] = (g[m - 1] \o Separator(m)) \o parts[m]
  BY <1>4, <1>6
<1>. QED  BY <1>3, <1>5, <1>7

PartsOK(parts, n) == n \in Nat /\ Len(parts) = n /\ \A m \in 1 .. n : parts[m] \in Texts

LEMMA UpToType ==
  ASSUME NEW parts, NEW n, PartsOK(parts, n)
  PROVE  \A m \in 0 .. n : UpTo(parts)[m] \in Texts
<1>1. PICK f : f = UpTo(parts)  OBVIOUS
<1>2. n \in Nat /\ f[0] = <<>> /\ \A m \in 1 .. n : f[m] = (f[m - 1] \o Separator(m)) \o parts[m]
  BY <1>1, UpToIs DEF PartsOK
<1>. DEFINE Bad == {m \in 0 .. n : f[m] \notin Texts}
<1>3. SUFFICES ASSUME Bad # {} PROVE FALSE  BY <1>1
<1>4. PICK m \in Bad : \A j \in Bad : m <= j
  <2>1. Bad \in SUBSET Nat  BY <1>2
  <2>. QED  BY <1>3, <2>1, Least
<1>5. m # 0  BY <1>2, TextEmpty
<1>6. m \in 1 .. n /\ m - 1 \in 0 .. n /\ ~ (m <= m - 1)  BY <1>2, <1>5
<1>7. f[m - 1] \in Texts  BY <1>4, <1>6
<1>8. f[m - 1] \o Separator(m) \in Texts  BY <1>7, SeparatorType, TextConcat
<1>9. parts[m] \in Texts  BY <1>6 DEF PartsOK
<1>10. f[m] \in Texts  BY <1>2, <1>6, <1>8, <1>9, TextConcat
<1>. QED  BY <1>10

Begins(a, t) == \E r \in Texts : t = a \o r

\* The first parts begin what all make.
LEMMA UpToBegins ==
  ASSUME NEW parts, NEW n, PartsOK(parts, n), NEW i \in 0 .. n
  PROVE  \A m \in i .. n : Begins(UpTo(parts)[i], UpTo(parts)[m])
<1>1. PICK f : f = UpTo(parts)  OBVIOUS
<1>2. n \in Nat /\ \A m \in 1 .. n : f[m] = (f[m - 1] \o Separator(m)) \o parts[m]
  BY <1>1, UpToIs DEF PartsOK
<1>3. \A m \in 0 .. n : f[m] \in Texts  BY <1>1, UpToType
<1>. DEFINE Bad == {m \in i .. n : ~ \E r \in Texts : f[m] = f[i] \o r}
<1>4. SUFFICES ASSUME Bad # {} PROVE FALSE  BY <1>1 DEF Begins
<1>5. PICK m \in Bad : \A j \in Bad : m <= j
  <2>1. Bad \in SUBSET Nat  BY <1>2
  <2>. QED  BY <1>4, <2>1, Least
<1>6. m # i
  <2>1. f[i] = f[i] \o <<>>  BY <1>3, TextConcat, TextEmpty
  <2>. QED  BY <1>5, <2>1, TextEmpty
<1>7. m \in 1 .. n /\ m - 1 \in i .. n /\ ~ (m <= m - 1)  BY <1>2, <1>6
<1>8. PICK r \in Texts : f[m - 1] = f[i] \o r  BY <1>5, <1>7
<1>9. PICK s, p : s = Separator(m) /\ p = parts[m]  OBVIOUS
<1>10. s \in Texts /\ p \in Texts /\ f[i] \in Texts
  BY <1>3, <1>7, <1>9, SeparatorType DEF PartsOK
<1>11. f[m] = ((f[i] \o r) \o s) \o p  BY <1>2, <1>7, <1>8, <1>9
<1>12. f[m] = f[i] \o (r \o (s \o p))
  <2>1. PICK b : b = f[i]  OBVIOUS
  <2>2. Associates4(b, r, s, p)  BY <1>10, <2>1, TextAssociates4
  <2>. QED  BY <1>11, <2>1, <2>2 DEF Associates4
<1>13. r \o (s \o p) \in Texts
  <2>1. s \o p \in Texts  BY <1>10, TextConcat
  <2>. QED  BY <2>1, TextConcat
<1>. QED  BY <1>5, <1>12, <1>13
-----------------------------------------------------------------------------
(* Text and Good unfold.                                                   *)

\* What they say of the objects with n levels below, other being what they say
\* with one level less.
TextBody(n, other) ==
  [o \in Objects |->
     IF o \notin Containers THEN <<o>>
     ELSE IF Items(o) = <<>> THEN <<Opening(o), Closing(o)>>
     ELSE IF n = 0 THEN <<>>
     ELSE <<Opening(o)>> \o Joined(Parts(other, o)) \o <<Closing(o)>>]
GoodBody(n, other) ==
  {o \in Objects :
     IF o \notin Containers THEN GoodLeaf(o)
     ELSE \/ Items(o) = <<>>
          \/ /\ n # 0
             /\ \A i \in 1 .. Len(Items(o)) : GoodKey(o, i) /\ Items(o)[i].val \in other}
Body(w, n, other) == IF w = "text" THEN TextBody(n, other) ELSE GoodBody(n, other)

Unfolds(w, n, f) == f = [m \in 0 .. n |-> Body(w, m, f[m - 1])]

LEMMA BodyOfNone == ASSUME NEW w, NEW f, NEW g PROVE Body(w, 0, f) = Body(w, 0, g)
<1>1. TextBody(0, f) = TextBody(0, g)  BY DEF TextBody
<1>2. GoodBody(0, f) = GoodBody(0, g)
  <2>1. 0 = 0  OBVIOUS
  <2>. QED  BY <2>1 DEF GoodBody
<1>. QED  BY <1>1, <1>2 DEF Body

LEMMA UnfoldsGrows ==
  ASSUME NEW w, NEW n \in Nat, NEW f, Unfolds(w, n, f) PROVE \E g : Unfolds(w, n + 1, g)
<1>. DEFINE new == Body(w, n + 1, f[n])
            g == [m \in 0 .. n + 1 |-> IF m = n + 1 THEN new ELSE f[m]]
<1>1. g = [m \in 0 .. n + 1 |-> g[m]] /\ g[n + 1] = new /\ \A m \in 0 .. n : g[m] = f[m]
  OBVIOUS
<1>2. \A m \in 0 .. n : f[m] = Body(w, m, f[m - 1])  BY DEF Unfolds
<1>. HIDE DEF g
<1>3. \A m \in 0 .. n + 1 : g[m] = Body(w, m, g[m - 1])
  <2>1. TAKE m \in 0 .. n + 1
  <2>2. CASE m = 0
    <3>1. 0 \in 0 .. n  OBVIOUS
    <3>2. g[0] = Body(w, 0, f[0 - 1])  BY <1>1, <1>2, <3>1
    <3>. QED  BY <2>2, <3>2, BodyOfNone
  <2>3. CASE m = n + 1
    <3>1. n \in 0 .. n /\ m - 1 = n  BY <2>3
    <3>. QED  BY <1>1, <2>3, <3>1
  <2>4. CASE m # 0 /\ m # n + 1
    <3>1. m \in 0 .. n /\ m - 1 \in 0 .. n  BY <2>4
    <3>. QED  BY <1>1, <1>2, <3>1
  <2>. QED  BY <2>2, <2>3, <2>4
<1>4. Unfolds(w, n + 1, g)  BY <1>1, <1>3 DEF Unfolds
<1>. QED  BY <1>4

LEMMA UnfoldsExists == ASSUME NEW w, NEW n \in Nat PROVE \E f : Unfolds(w, n, f)
<1>. DEFINE Bad == {m \in Nat : ~ \E f : Unfolds(w, m, f)}
<1>1. 0 \notin Bad
  <2>. DEFINE f == [m \in 0 .. 0 |-> Body(w, 0, <<>>)]
  <2>1. f = [m \in 0 .. 0 |-> Body(w, m, f[m - 1])]
    <3>1. \A m \in 0 .. 0 : m = 0  OBVIOUS
    <3>2. \A m \in 0 .. 0 : Body(w, m, f[m - 1]) = Body(w, 0, <<>>)
      BY <3>1, BodyOfNone, Zenon
    <3>. QED  BY <3>2
  <2>2. Unfolds(w, 0, f)  BY <2>1, Zenon DEF Unfolds
  <2>. QED  BY <2>2
<1>2. Bad = {}
  <2>1. SUFFICES ASSUME Bad # {} PROVE FALSE  OBVIOUS
  <2>2. PICK m \in Bad : \A k \in Bad : m <= k
    <3>1. Bad \in SUBSET Nat  OBVIOUS
    <3>. QED  BY <2>1, <3>1, Least
  <2>3. m \in Nat /\ m # 0 /\ m - 1 \in Nat /\ m - 1 \notin Bad /\ (m - 1) + 1 = m
    BY <1>1, <2>2
  <2>4. PICK f : Unfolds(w, m - 1, f)  BY <2>3
  <2>5. \E g : Unfolds(w, m, g)  BY <2>3, <2>4, UnfoldsGrows
  <2>. QED  BY <2>2, <2>5
<1>. QED  BY <1>2

LEMMA TextIs == \A n \in 0 .. MaxRecursion : Text[n] = TextBody(n, Text[n - 1])
<1>1. PICK f : f = [n \in 0 .. MaxRecursion |-> Body("text", n, f[n - 1])]
  BY UnfoldsExists, MaxRecursionAssumption DEF Unfolds
<1>2. f = [n \in 0 .. MaxRecursion |-> TextBody(n, f[n - 1])]
  <2>1. \A n, g : Body("text", n, g) = TextBody(n, g)  BY DEF Body
  <2>. QED  BY <1>1, <2>1
<1>3. Text = [n \in 0 .. MaxRecursion |-> TextBody(n, Text[n - 1])]
  BY <1>2 DEF Text, TextBody
<1>. QED  BY <1>3

LEMMA GoodIs == \A n \in 0 .. MaxRecursion : Good[n] = GoodBody(n, Good[n - 1])
<1>1. PICK f : f = [n \in 0 .. MaxRecursion |-> Body("good", n, f[n - 1])]
  BY UnfoldsExists, MaxRecursionAssumption DEF Unfolds
<1>2. f = [n \in 0 .. MaxRecursion |-> GoodBody(n, f[n - 1])]
  <2>1. \A n, g : Body("good", n, g) = GoodBody(n, g)  BY DEF Body
  <2>. QED  BY <1>1, <2>1
<1>3. Good = [n \in 0 .. MaxRecursion |-> GoodBody(n, Good[n - 1])]
  BY <1>2 DEF Good, GoodBody
<1>. QED  BY <1>3
-----------------------------------------------------------------------------
(* The text of a container, item by item.                                  *)

LEMMA FunctionLen ==
  ASSUME NEW n \in Nat, NEW f, f = [i \in 1 .. n |-> f[i]] PROVE Len(f) = n
<1>. DEFINE S == {f[j] : j \in 1 .. n}
<1>1. \A i \in 1 .. n : f[i] \in S  OBVIOUS
<1>. HIDE DEF S
<1>2. f \in Seq(S)
  <2>1. f \in [1 .. n -> S]  BY <1>1
  <2>. QED  BY <2>1, SeqDef
<1>3. Len(f) \in Nat /\ DOMAIN f = 1 .. Len(f)  BY <1>2, LenProperties
<1>4. DOMAIN f = 1 .. n  OBVIOUS
<1>5. 1 .. Len(f) = 1 .. n  BY <1>3, <1>4
<1>6. CASE Len(f) < n
  <2>1. n \in 1 .. n /\ n \notin 1 .. Len(f)  BY <1>3, <1>6
  <2>. QED  BY <1>5, <2>1
<1>7. CASE n < Len(f)
  <2>1. Len(f) \in 1 .. Len(f) /\ Len(f) \notin 1 .. n  BY <1>3, <1>7
  <2>. QED  BY <1>5, <2>1
<1>. QED  BY <1>3, <1>6, <1>7

LEMMA LabelType ==
  ASSUME InputOK, NEW o \in Containers, NEW i \in 1 .. Len(Items(o)) PROVE Label(o, i) \in Texts
<1>1. CASE Kind[o] = "dict"
  <2>1. PICK k : k = Items(o)[i].key  OBVIOUS
  <2>2. k \in Toks /\ "colon" \in Toks  BY <1>1, <2>1, ItemsType DEF Toks, Marks
  <2>3. <<k, "colon">> \in Texts  BY <2>2, TextPair
  <2>. QED  BY <1>1, <2>1, <2>3 DEF Label
<1>2. CASE Kind[o] # "dict"  BY <1>2, TextEmpty DEF Label
<1>. QED  BY <1>1, <1>2

TextsOK(texts) == \A v \in Objects : texts[v] \in Texts

LEMMA PartsType ==
  ASSUME InputOK, NEW o \in Containers, NEW texts, TextsOK(texts)
  PROVE  /\ PartsOK(Parts(texts, o), Len(Items(o)))
         /\ \A i \in 1 .. Len(Items(o)) :
              Parts(texts, o)[i] = Label(o, i) \o texts[Items(o)[i].val]
<1>1. PICK n \in Nat : n = Len(Items(o))  BY ItemsType
<1>2. PICK ps : ps = Parts(texts, o)  OBVIOUS
<1>3. ps = [i \in 1 .. n |-> Label(o, i) \o texts[Items(o)[i].val]]  BY <1>1, <1>2 DEF Parts
<1>4. ps = [i \in 1 .. n |-> ps[i]]
      /\ \A i \in 1 .. n : ps[i] = Label(o, i) \o texts[Items(o)[i].val]
  BY <1>3
<1>5. Len(ps) = n  BY <1>4, FunctionLen
<1>6. ASSUME NEW i \in 1 .. n PROVE ps[i] \in Texts
  <2>1. Label(o, i) \in Texts  BY <1>1, LabelType
  <2>2. texts[Items(o)[i].val] \in Texts  BY <1>1, ItemsType DEF TextsOK
  <2>3. PICK a, b : a = Label(o, i) /\ b = texts[Items(o)[i].val]  OBVIOUS
  <2>4. a \o b \in Texts  BY <2>1, <2>2, <2>3, TextConcat
  <2>. QED  BY <1>4, <2>3, <2>4
<1>. QED  BY <1>1, <1>2, <1>4, <1>5, <1>6 DEF PartsOK

LEMMA BracketsType ==
  ASSUME NEW o \in Containers
  PROVE  Opening(o) \in Toks /\ Closing(o) \in Toks /\ "comma" \in Toks /\ "colon" \in Toks
         /\ <<Opening(o)>> \in Texts /\ <<Closing(o)>> \in Texts /\ <<"comma">> \in Texts
<1>1. Opening(o) \in Toks /\ Closing(o) \in Toks /\ "comma" \in Toks /\ "colon" \in Toks
  BY DEF Opening, Closing, Toks, Marks
<1>. QED  BY <1>1, TextOne

\* What Text says of a container of which something is written.
Nested(texts, o) == (<<Opening(o)>> \o UpTo(Parts(texts, o))[Len(Items(o))]) \o <<Closing(o)>>

LEMMA NestedType ==
  ASSUME InputOK, NEW o \in Containers, NEW texts, TextsOK(texts)
  PROVE  /\ Nested(texts, o) \in Texts
         /\ Nested(texts, o) = <<Opening(o)>> \o Joined(Parts(texts, o)) \o <<Closing(o)>>
<1>1. PICK n, ps : n = Len(Items(o)) /\ ps = Parts(texts, o)  OBVIOUS
<1>2. PartsOK(ps, n)  BY <1>1, PartsType
<1>3. n \in Nat /\ Len(ps) = n /\ n \in 0 .. n  BY <1>2 DEF PartsOK
<1>4. UpTo(ps)[n] \in Texts  BY <1>2, <1>3, UpToType
<1>5. Joined(ps) = UpTo(ps)[n]  BY <1>3, UpToIs
<1>6. <<Opening(o)>> \in Texts /\ <<Closing(o)>> \in Texts  BY BracketsType
<1>7. <<Opening(o)>> \o UpTo(ps)[n] \in Texts  BY <1>4, <1>6, TextConcat
<1>8. (<<Opening(o)>> \o UpTo(ps)[n]) \o <<Closing(o)>> \in Texts  BY <1>6, <1>7, TextConcat
<1>. QED  BY <1>1, <1>5, <1>8 DEF Nested

LEMMA TextType ==
  ASSUME InputOK PROVE \A n \in 0 .. MaxRecursion : TextsOK(Text[n])
<1>. DEFINE Bad == {n \in 0 .. MaxRecursion : ~ TextsOK(Text[n])}
<1>1. SUFFICES ASSUME Bad # {} PROVE FALSE  OBVIOUS
<1>2. PICK n \in Bad : \A k \in Bad : n <= k
  <2>1. Bad \in SUBSET Nat  BY MaxRecursionAssumption
  <2>. QED  BY <1>1, <2>1, Least
<1>3. n \in 0 .. MaxRecursion /\ MaxRecursion \in Nat  BY MaxRecursionAssumption
<1>4. ASSUME NEW o \in Objects PROVE Text[n][o] \in Texts
  <2>1. Text[n] = TextBody(n, Text[n - 1])  BY <1>3, TextIs
  <2>2. CASE o \notin Containers
    <3>1. Text[n][o] = <<o>>  BY <2>1, <2>2 DEF TextBody
    <3>2. o \in Toks  BY DEF Toks
    <3>. QED  BY <3>1, <3>2, TextOne
  <2>3. CASE o \in Containers /\ Items(o) = <<>>
    <3>1. Text[n][o] = <<Opening(o), Closing(o)>>  BY <2>1, <2>3 DEF TextBody
    <3>. QED  BY <2>3, <3>1, TextPair, BracketsType
  <2>4. CASE o \in Containers /\ Items(o) # <<>> /\ n = 0
    <3>1. Text[n][o] = <<>>  BY <2>1, <2>4 DEF TextBody
    <3>. QED  BY <3>1, TextEmpty
  <2>5. CASE o \in Containers /\ Items(o) # <<>> /\ n # 0
    <3>1. PICK texts : texts = Text[n - 1]  OBVIOUS
    <3>2. Text[n][o] = <<Opening(o)>> \o Joined(Parts(texts, o)) \o <<Closing(o)>>
      BY <2>1, <2>5, <3>1 DEF TextBody
    <3>3. TextsOK(texts)
      <4>1. n - 1 \in 0 .. MaxRecursion /\ ~ (n <= n - 1)  BY <1>3, <2>5
      <4>. QED  BY <1>2, <3>1, <4>1
    <3>. QED  BY <2>5, <3>2, <3>3, NestedType
  <2>. QED  BY <2>2, <2>3, <2>4, <2>5
<1>. QED  BY <1>2, <1>4 DEF TextsOK

\* Of a container that is written at depth d.
Below(d) == MaxRecursion - d
Whole(d, o) == Text[Below(d) + 1][o]
Value(d, o, i) == Text[Below(d)][Items(o)[i].val]
\* What is written of it up to item i, and up to its value.
Until(d, o, i) == (<<Opening(o)>> \o UpTo(Parts(Text[Below(d)], o))[i - 1]) \o Separator(i)
UntilValue(d, o, i) == Until(d, o, i) \o Label(o, i)

Open(d, o) == d \in 1 .. MaxRecursion /\ o \in Containers /\ Items(o) # <<>>

LEMMA OpenText ==
  ASSUME InputOK, NEW d, NEW o, Open(d, o)
  PROVE  /\ PartsOK(Parts(Text[Below(d)], o), Len(Items(o)))
         /\ TextsOK(Text[Below(d)])
         /\ Len(Items(o)) \in Nat \ {0}
         /\ Whole(d, o) = Nested(Text[Below(d)], o)
         /\ Whole(d, o) \in Texts
<1>1. o \in Containers /\ o \in Objects /\ Items(o) # <<>>  BY DEF Open, Containers
<1>2. PICK n : n = Below(d)  OBVIOUS
<1>3. n \in 0 .. MaxRecursion /\ n + 1 \in 0 .. MaxRecursion /\ n + 1 # 0 /\ (n + 1) - 1 = n
  BY <1>2, MaxRecursionAssumption DEF Below, Open
<1>4. TextsOK(Text[n])  BY <1>3, TextType
<1>5. Text[n + 1] = TextBody(n + 1, Text[n])  BY <1>3, TextIs
<1>6. Text[n + 1][o] = <<Opening(o)>> \o Joined(Parts(Text[n], o)) \o <<Closing(o)>>
  BY <1>1, <1>3, <1>5 DEF TextBody
<1>7. Text[n + 1][o] = Nested(Text[n], o) /\ Nested(Text[n], o) \in Texts
  BY <1>1, <1>4, <1>6, NestedType
<1>8. Len(Items(o)) \in Nat \ {0}  BY <1>1, ItemsType
<1>9. PartsOK(Parts(Text[n], o), Len(Items(o)))  BY <1>1, <1>4, PartsType
<1>. QED  BY <1>2, <1>4, <1>7, <1>8, <1>9 DEF Whole

LEMMA UntilType ==
  ASSUME InputOK, NEW d, NEW o, Open(d, o), NEW i \in 1 .. Len(Items(o)) + 1
  PROVE  /\ <<Opening(o)>> \o UpTo(Parts(Text[Below(d)], o))[i - 1] \in Texts
         /\ Until(d, o, i) \in Texts
         /\ i <= Len(Items(o)) => /\ Label(o, i) \in Texts /\ Value(d, o, i) \in Texts
                                  /\ UntilValue(d, o, i) \in Texts
<1>1. PICK n, ps : n = Len(Items(o)) /\ ps = Parts(Text[Below(d)], o)  OBVIOUS
<1>2. PartsOK(ps, n) /\ n \in Nat /\ TextsOK(Text[Below(d)])  BY <1>1, OpenText
<1>3. i - 1 \in 0 .. n  BY <1>1, <1>2
<1>4. PICK a, b, s : a = <<Opening(o)>> /\ b = UpTo(ps)[i - 1] /\ s = Separator(i)  OBVIOUS
<1>5. a \in Texts /\ b \in Texts /\ s \in Texts
  <2>1. UpTo(ps)[i - 1] \in Texts  BY <1>2, <1>3, UpToType
  <2>. QED  BY <1>4, <2>1, BracketsType, SeparatorType DEF Open
<1>6. a \o b \in Texts  BY <1>5, TextConcat
<1>7. (a \o b) \o s \in Texts  BY <1>5, <1>6, TextConcat
<1>8. Until(d, o, i) \in Texts  BY <1>1, <1>4, <1>7 DEF Until
<1>9. ASSUME i <= n
      PROVE  Label(o, i) \in Texts /\ Value(d, o, i) \in Texts /\ UntilValue(d, o, i) \in Texts
  <2>1. i \in 1 .. Len(Items(o)) /\ o \in Containers  BY <1>1, <1>2, <1>9 DEF Open
  <2>2. Label(o, i) \in Texts  BY <2>1, LabelType
  <2>3. Items(o)[i].val \in Objects  BY <2>1, ItemsType
  <2>4. Value(d, o, i) \in Texts  BY <1>2, <2>3 DEF TextsOK, Value
  <2>5. Until(d, o, i) \o Label(o, i) \in Texts  BY <1>8, <2>2, TextConcat
  <2>. QED  BY <2>2, <2>4, <2>5 DEF UntilValue
<1>. QED  BY <1>1, <1>4, <1>6, <1>8, <1>9

LEMMA UntilFirst == ASSUME InputOK, NEW d, NEW o, Open(d, o) PROVE Until(d, o, 1) = <<Opening(o)>>
<1>1. PICK ps : ps = Parts(Text[Below(d)], o)  OBVIOUS
<1>2. UpTo(ps)[0] = <<>>
  <2>1. Len(ps) \in Nat  BY <1>1, OpenText DEF PartsOK
  <2>. QED  BY <2>1, UpToIs
<1>3. UpTo(ps)[1 - 1] = <<>> /\ Separator(1) = <<>>
  <2>1. 1 - 1 = 0  OBVIOUS
  <2>. QED  BY <1>2, <2>1 DEF Separator
<1>4. PICK a : a = <<Opening(o)>>  OBVIOUS
<1>5. a \in Texts  BY <1>4, BracketsType DEF Open
<1>6. (a \o <<>>) \o <<>> = a  BY <1>5, TextConcat
<1>. QED  BY <1>1, <1>3, <1>4, <1>6 DEF Until

\* An item ends in the text of its value.
LEMMA UntilItem ==
  ASSUME InputOK, NEW d, NEW o, Open(d, o), NEW i \in 1 .. Len(Items(o))
  PROVE  <<Opening(o)>> \o UpTo(Parts(Text[Below(d)], o))[i]
           = UntilValue(d, o, i) \o Value(d, o, i)
<1>1. PICK n, ps : n = Len(Items(o)) /\ ps = Parts(Text[Below(d)], o)  OBVIOUS
<1>2. PartsOK(ps, n) /\ n \in Nat /\ TextsOK(Text[Below(d)])  BY <1>1, OpenText
<1>3. PICK a, b, s : a = <<Opening(o)>> /\ b = UpTo(ps)[i - 1] /\ s = Separator(i)  OBVIOUS
<1>4. PICK l, v : l = Label(o, i) /\ v = Value(d, o, i)  OBVIOUS
<1>5. i \in 1 .. n + 1 /\ i - 1 \in 0 .. n /\ i <= n /\ i \in 1 .. n  BY <1>1, <1>2
<1>6. a \in Texts /\ b \in Texts /\ s \in Texts /\ l \in Texts /\ v \in Texts
  <2>1. UpTo(ps)[i - 1] \in Texts  BY <1>2, <1>5, UpToType
  <2>2. Label(o, i) \in Texts /\ Value(d, o, i) \in Texts  BY <1>1, <1>5, UntilType
  <2>. QED  BY <1>3, <1>4, <2>1, <2>2, BracketsType, SeparatorType DEF Open
<1>7. UpTo(ps)[i] = (b \o s) \o (l \o v)
  <2>1. UpTo(ps)[i] = (UpTo(ps)[i - 1] \o Separator(i)) \o ps[i]
    <3>1. Len(ps) \in Nat /\ i \in 1 .. Len(ps)  BY <1>2, <1>5 DEF PartsOK
    <3>. QED  BY <3>1, UpToIs
  <2>2. ps[i] = Label(o, i) \o Value(d, o, i)  BY <1>1, <1>2, PartsType DEF Value, Open
  <2>. QED  BY <1>3, <1>4, <2>1, <2>2
<1>8. PICK e, f, g, h : e = b \o s /\ f = l \o v /\ g = a \o b /\ h = g \o s  OBVIOUS
<1>9. e \in Texts /\ f \in Texts /\ g \in Texts  BY <1>6, <1>8, TextConcat
<1>10. h \in Texts  BY <1>6, <1>8, <1>9, TextConcat
<1>11. Associates(a, e, f)  BY <1>6, <1>9, TextAssociates
<1>12. Associates(a, b, s)  BY <1>6, TextAssociates
<1>13. Associates(h, l, v)  BY <1>6, <1>10, TextAssociates
<1>14. a \o (e \o f) = (h \o l) \o v
  <2>1. a \o (e \o f) = (a \o e) \o f  BY <1>11 DEF Associates
  <2>2. a \o e = h  BY <1>8, <1>12 DEF Associates
  <2>3. h \o f = (h \o l) \o v  BY <1>8, <1>13 DEF Associates
  <2>. QED  BY <2>1, <2>2, <2>3
<1>15. UntilValue(d, o, i) = h \o l  BY <1>1, <1>3, <1>4, <1>8 DEF UntilValue, Until
<1>. QED  BY <1>1, <1>3, <1>4, <1>7, <1>8, <1>14, <1>15

\* An item that is written is followed by a comma.
LEMMA UntilNext ==
  ASSUME InputOK, NEW d, NEW o, Open(d, o), NEW i \in 1 .. Len(Items(o))
  PROVE  Until(d, o, i + 1) = UntilValue(d, o, i) \o (Value(d, o, i) \o <<"comma">>)
<1>1. Len(Items(o)) \in Nat  BY OpenText
<1>2. i \in 1 .. Len(Items(o)) + 1 /\ i + 1 # 1 /\ (i + 1) - 1 = i /\ i <= Len(Items(o))
  BY <1>1
<1>3. PICK q, v, c : q = UntilValue(d, o, i) /\ v = Value(d, o, i) /\ c = <<"comma">>  OBVIOUS
<1>4. q \in Texts /\ v \in Texts /\ c \in Texts
  BY <1>2, <1>3, UntilType, BracketsType DEF Open
<1>5. Separator(i + 1) = c  BY <1>2, <1>3 DEF Separator
<1>6. Until(d, o, i + 1) = (q \o v) \o c  BY <1>2, <1>3, <1>5, UntilItem DEF Until
<1>7. Associates(q, v, c)  BY <1>4, TextAssociates
<1>. QED  BY <1>3, <1>6, <1>7 DEF Associates

\* What is written of the items begins the text of the container.
LEMMA WholeBegins ==
  ASSUME InputOK, NEW d, NEW o, Open(d, o), NEW j \in 0 .. Len(Items(o))
  PROVE  Begins(<<Opening(o)>> \o UpTo(Parts(Text[Below(d)], o))[j], Whole(d, o))
<1>1. PICK n, ps : n = Len(Items(o)) /\ ps = Parts(Text[Below(d)], o)  OBVIOUS
<1>2. PartsOK(ps, n) /\ n \in Nat /\ Whole(d, o) = Nested(Text[Below(d)], o)  BY <1>1, OpenText
<1>3. PICK a, b, c, u : a = <<Opening(o)>> /\ b = UpTo(ps)[j] /\ c = <<Closing(o)>>
                        /\ u = UpTo(ps)[n]
  OBVIOUS
<1>4. PICK r \in Texts : u = b \o r
  <2>1. n \in j .. n /\ j \in 0 .. n  BY <1>1, <1>2
  <2>2. Begins(b, u)  BY <1>2, <1>3, <2>1, UpToBegins
  <2>. QED  BY <2>2 DEF Begins
<1>5. a \in Texts /\ b \in Texts /\ c \in Texts
  <2>1. UpTo(ps)[j] \in Texts  BY <1>1, <1>2, UpToType
  <2>. QED  BY <1>3, <2>1, BracketsType DEF Open
<1>6. Whole(d, o) = (a \o (b \o r)) \o c  BY <1>1, <1>2, <1>3, <1>4 DEF Nested
<1>7. PICK e, g : e = a \o b /\ g = r \o c  OBVIOUS
<1>8. e \in Texts /\ g \in Texts  BY <1>5, <1>7, TextConcat
<1>9. Associates(a, b, r) /\ Associates(e, r, c)  BY <1>5, <1>8, TextAssociates
<1>10. Whole(d, o) = e \o g  BY <1>6, <1>7, <1>9 DEF Associates
<1>11. Begins(e, Whole(d, o))  BY <1>8, <1>10 DEF Begins
<1>. QED  BY <1>1, <1>3, <1>7, <1>11

Leads(a, v, t) == \E r \in Texts : t = a \o (v \o r)

\* At the value of item i.
LEMMA ValueBegins ==
  ASSUME InputOK, NEW d, NEW o, Open(d, o), NEW i \in 1 .. Len(Items(o))
  PROVE  Leads(UntilValue(d, o, i), Value(d, o, i), Whole(d, o))
<1>1. Len(Items(o)) \in Nat  BY OpenText
<1>2. i \in 0 .. Len(Items(o)) /\ i \in 1 .. Len(Items(o)) + 1 /\ i <= Len(Items(o))  BY <1>1
<1>3. PICK q, v : q = UntilValue(d, o, i) /\ v = Value(d, o, i)  OBVIOUS
<1>4. PICK r \in Texts : Whole(d, o) = (q \o v) \o r
  <2>1. PICK e : e = <<Opening(o)>> \o UpTo(Parts(Text[Below(d)], o))[i]  OBVIOUS
  <2>2. e = q \o v  BY <1>3, <2>1, UntilItem
  <2>3. Begins(e, Whole(d, o))  BY <1>2, <2>1, WholeBegins
  <2>. QED  BY <2>2, <2>3 DEF Begins
<1>5. q \in Texts /\ v \in Texts  BY <1>2, <1>3, UntilType
<1>6. Associates(q, v, r)  BY <1>5, TextAssociates
<1>. QED  BY <1>3, <1>4, <1>6 DEF Associates, Leads

\* Between two items, and behind the last one: the comma is no part of it.
LEMMA CommaBegins ==
  ASSUME InputOK, NEW d, NEW o, Open(d, o), NEW i \in 1 .. Len(Items(o)) + 1, i # 1
  PROVE  \E x \in Texts : /\ Until(d, o, i) = x \o <<"comma">>
                          /\ Begins(x, Whole(d, o))
                          /\ i = Len(Items(o)) + 1 => Whole(d, o) = x \o <<Closing(o)>>
<1>1. Len(Items(o)) \in Nat  BY OpenText
<1>2. PICK x, j : x = <<Opening(o)>> \o UpTo(Parts(Text[Below(d)], o))[j] /\ j = i - 1  OBVIOUS
<1>3. j \in 0 .. Len(Items(o))  BY <1>1, <1>2
<1>4. x \in Texts  BY <1>2, UntilType
<1>5. Separator(i) = <<"comma">>  BY DEF Separator
<1>6. Until(d, o, i) = x \o <<"comma">>  BY <1>2, <1>5 DEF Until
<1>7. Begins(x, Whole(d, o))  BY <1>2, <1>3, WholeBegins
<1>8. ASSUME i = Len(Items(o)) + 1 PROVE Whole(d, o) = x \o <<Closing(o)>>
  <2>1. j = Len(Items(o))  BY <1>1, <1>2, <1>8
  <2>. QED  BY <1>2, <2>1, OpenText DEF Nested
<1>. QED  BY <1>4, <1>6, <1>7, <1>8
-----------------------------------------------------------------------------
(* The text that the path to the container in hand has written.            *)

\* before[d] is what stands in front of the container at depth d.
Around(n, st, before) ==
  /\ before[1] = <<>>
  /\ \A d \in 1 .. n : before[d] \in Texts
  /\ \A d \in 1 .. n - 1 : before[d + 1] = before[d] \o UntilValue(d, st[d].ctn, st[d].index)

\* What is written of container o at label l and position p.
Here(l, d, o, p) == IF l = "dict_key_done" THEN UntilValue(d, o, p) ELSE Until(d, o, p + 1)

Reached(l, n, o, p, st, txt) ==
  \E before : Around(n, st, before) /\ txt = before[n] \o Here(l, n, o, p)

LEMMA GraphStays ==
  ASSUME graph' = graph
  PROVE  /\ Text' = Text
         /\ \A o : Items(o)' = Items(o)
         /\ \A d, o, i : Until(d, o, i)' = Until(d, o, i)
         /\ \A d, o, i : UntilValue(d, o, i)' = UntilValue(d, o, i)
<1>1. Text' = Text  BY DEF Text, Items, Parts, Label
<1>2. \A o : Items(o)' = Items(o)  BY DEF Items
<1>3. \A d, o : Parts(Text[Below(d)], o)' = Parts(Text[Below(d)], o)
  BY <1>1, <1>2 DEF Parts, Label, Below
<1>4. \A d, o, i : Until(d, o, i)' = Until(d, o, i)
  BY DEF Until, UpTo, Below, Text, Items, Parts, Label
<1>5. \A d, o, i : UntilValue(d, o, i)' = UntilValue(d, o, i)
  BY <1>2, <1>4 DEF UntilValue, Label
<1>. QED  BY <1>1, <1>2, <1>4, <1>5

LEMMA ReachedLater ==
  ASSUME graph' = graph, Reached(pc', depth', cur', pos', stack', out')
  PROVE  Reached(pc, depth, cur, pos, stack, out)'
<1>1. PICK before : /\ Around(depth', stack', before)
                    /\ out' = before[depth'] \o Here(pc', depth', cur', pos')
  BY DEF Reached
<1>2. /\ \A d, o, i : Until(d, o, i)' = Until(d, o, i)
      /\ \A d, o, i : UntilValue(d, o, i)' = UntilValue(d, o, i)
  BY GraphStays
<1>3. Around(depth, stack, before)'
  <2>1. /\ before[1] = <<>>
        /\ \A d \in 1 .. depth' : before[d] \in Texts
        /\ \A d \in 1 .. depth' - 1 :
             before[d + 1] = before[d] \o UntilValue(d, stack'[d].ctn, stack'[d].index)
    BY <1>1 DEF Around
  <2>2. \A d : UntilValue(d, stack[d].ctn, stack[d].index)'
                 = UntilValue(d, stack'[d].ctn, stack'[d].index)
    <3>1. PICK st : st = stack'  OBVIOUS
    <3>2. \A d : UntilValue(d, st[d].ctn, st[d].index)' = UntilValue(d, st[d].ctn, st[d].index)
      BY <1>2
    <3>3. \A d, o, i : UntilValue(d, o, i)' = UntilValue(d, o, i)  BY <1>2
    <3>. QED  BY <3>1, <3>2, <3>3
  <2>. QED  BY <2>1, <2>2 DEF Around
<1>4. Here(pc, depth, cur, pos)' = Here(pc', depth', cur', pos')
  BY <1>2 DEF Here
<1>. QED  BY <1>1, <1>3, <1>4 DEF Reached

\* The path from the root, with what its containers are.
LEMMA PathOpen ==
  ASSUME PlaceInv, Walking, Items(cur) # <<>>
  PROVE  /\ depth \in Nat \ {0} /\ depth \in 1 .. depth
         /\ At(1) = root /\ At(depth) = cur
         /\ \A d \in 1 .. depth : Open(d, At(d)) /\ Below(d) \in Nat
         /\ \A d \in 1 .. depth - 1 :
              /\ d \in 1 .. depth /\ d + 1 \in 1 .. depth
              /\ stack[d].ctn = At(d)
              /\ stack[d].index \in 1 .. Len(Items(At(d)))
              /\ Items(At(d))[stack[d].index].val = At(d + 1)
              /\ Value(d, At(d), stack[d].index) = Whole(d + 1, At(d + 1))
<1>1. PICK n \in Nat : n = depth /\ n >= 1 /\ n <= MaxRecursion
  BY MaxRecursionAssumption DEF PlaceInv, WalkOK, InHand
<1>2. At(1) = root /\ At(n) = cur /\ cur \in Containers
  BY <1>1 DEF PlaceInv, StackIsPath, InHand, At
<1>3. ASSUME NEW d \in 1 .. n - 1
      PROVE  /\ stack[d].ctn = At(d) /\ At(d) \in Containers
             /\ stack[d].index \in 1 .. Len(Items(At(d)))
             /\ Items(At(d))[stack[d].index].val = At(d + 1)
  <2>1. stack[d].ctn = At(d)  BY <1>1 DEF At
  <2>2. /\ stack[d].index \in 1 .. Len(Items(stack[d].ctn))
        /\ Items(stack[d].ctn)[stack[d].index].val = At(d + 1)
        /\ stack[d].ctn \in Containers
    BY <1>1 DEF PlaceInv, StackIsPath, InHand
  <2>. QED  BY <2>1, <2>2
<1>4. ASSUME NEW d \in 1 .. n PROVE Open(d, At(d)) /\ Below(d) \in Nat
  <2>1. d \in 1 .. MaxRecursion /\ Below(d) \in Nat
    BY <1>1, MaxRecursionAssumption DEF Below
  <2>2. CASE d = n  BY <1>1, <1>2, <2>1, <2>2 DEF Open
  <2>3. CASE d # n
    <3>1. d \in 1 .. n - 1  BY <2>3
    <3>2. At(d) \in Containers /\ 1 .. Len(Items(At(d))) # {}  BY <1>3, <3>1
    <3>3. Items(At(d)) # <<>>
      <4>1. Len(<<>>) = 0 /\ 1 .. 0 = {}  OBVIOUS
      <4>. QED  BY <3>2, <4>1
    <3>. QED  BY <2>1, <3>2, <3>3 DEF Open
  <2>. QED  BY <2>2, <2>3
<1>5. ASSUME NEW d \in 1 .. n - 1
      PROVE  Value(d, At(d), stack[d].index) = Whole(d + 1, At(d + 1))
  <2>1. Below(d) = Below(d + 1) + 1  BY <1>1, MaxRecursionAssumption DEF Below
  <2>. QED  BY <1>3, <2>1 DEF Value, Whole
<1>6. \A d \in 1 .. n - 1 : d \in 1 .. n /\ d + 1 \in 1 .. n  OBVIOUS
<1>7. n \in 1 .. n /\ n # 0  BY <1>1
<1>. QED  BY <1>1, <1>2, <1>3, <1>4, <1>5, <1>6, <1>7

\* A container that is open begins what is left of the text of the root.
LEMMA PathBegins ==
  ASSUME PlaceInv, Walking, Items(cur) # <<>>, NEW before, Around(depth, stack, before)
  PROVE  \A d \in 1 .. depth : Leads(before[d], Whole(d, At(d)), Whole(1, root))
<1>0. depth \in Nat  BY PathOpen
<1>. DEFINE Bad == {d \in 1 .. depth : ~ Leads(before[d], Whole(d, At(d)), Whole(1, root))}
<1>1. SUFFICES ASSUME Bad # {} PROVE FALSE  OBVIOUS
<1>2. PICK m \in Bad : \A j \in Bad : m <= j
  <2>1. Bad \in SUBSET Nat  BY <1>0
  <2>. QED  BY <1>1, <2>1, Least
<1>3. InputOK  BY DEF PlaceInv
<1>4. m # 1
  <2>1. Whole(1, root) \in Texts /\ At(1) = root  BY <1>3, PathOpen, OpenText
  <2>2. before[1] = <<>>  BY DEF Around
  <2>3. PICK w : w = Whole(1, root)  OBVIOUS
  <2>4. <<>> \o (w \o <<>>) = w  BY <2>1, <2>3, TextConcat
  <2>5. ASSUME m = 1 PROVE FALSE
    <3>1. Whole(1, root) = before[m] \o (Whole(m, At(m)) \o <<>>)
      BY <2>1, <2>2, <2>3, <2>4, <2>5
    <3>. QED  BY <1>2, <3>1, TextEmpty DEF Leads
  <2>. QED  BY <2>5
<1>5. PICK d \in 1 .. depth - 1 : d = m - 1 /\ m = d + 1 /\ d \in 1 .. depth /\ ~ (m <= d)
  <2>1. m \in 1 .. depth /\ depth \in Nat  BY <1>2, PathOpen
  <2>. QED  BY <1>4, <2>1
<1>6. PICK r \in Texts : Whole(1, root) = before[d] \o (Whole(d, At(d)) \o r)
  BY <1>2, <1>5 DEF Leads
<1>7. PICK o, i : o = At(d) /\ i = stack[d].index  OBVIOUS
<1>8. /\ Open(d, o) /\ i \in 1 .. Len(Items(o)) /\ Value(d, o, i) = Whole(m, At(m))
      /\ stack[d].ctn = o
  BY <1>5, <1>7, PathOpen
<1>9. PICK b, q, v : b = before[d] /\ q = UntilValue(d, o, i) /\ v = Value(d, o, i)  OBVIOUS
<1>10. before[m] = b \o q  BY <1>5, <1>7, <1>8, <1>9 DEF Around
<1>11. PICK s \in Texts : Whole(d, o) = q \o (v \o s)  
  <2>1. Leads(q, v, Whole(d, o))  BY <1>3, <1>8, <1>9, ValueBegins
  <2>. QED  BY <2>1 DEF Leads
<1>12. b \in Texts /\ q \in Texts /\ v \in Texts
  <2>1. b \in Texts  BY <1>5, <1>9 DEF Around
  <2>2. Len(Items(o)) \in Nat  BY <1>3, <1>8, OpenText
  <2>3. i \in 1 .. Len(Items(o)) + 1 /\ i <= Len(Items(o))  BY <1>8, <2>2
  <2>. QED  BY <1>3, <1>8, <1>9, <2>1, <2>3, UntilType
<1>13. b \o ((q \o (v \o s)) \o r) = (b \o q) \o (v \o (s \o r))
  <2>1. PICK x, y, z : x = v \o s /\ y = s \o r /\ z = v \o y  OBVIOUS
  <2>2. x \in Texts /\ y \in Texts  BY <1>12, <2>1, TextConcat
  <2>3. z \in Texts  BY <1>12, <2>1, <2>2, TextConcat
  <2>4. Associates(q, x, r) /\ Associates(v, s, r) /\ Associates(b, q, z)
    BY <1>12, <2>2, <2>3, TextAssociates
  <2>5. (q \o x) \o r = q \o z  BY <2>1, <2>4 DEF Associates
  <2>6. (b \o q) \o z = b \o (q \o z)  BY <2>4 DEF Associates
  <2>. QED  BY <2>1, <2>5, <2>6
<1>14. s \o r \in Texts  BY TextConcat
<1>15. Whole(1, root) = before[m] \o (Whole(m, At(m)) \o (s \o r))
  BY <1>6, <1>7, <1>8, <1>9, <1>10, <1>11, <1>13
<1>. QED  BY <1>2, <1>14, <1>15 DEF Leads

\* Inductive with IInv and FailureInv: what the walk has written.
SpellInv ==
  /\ pc = "start" => out = <<>>
  /\ Walking => Items(cur) # <<>> /\ Reached(pc, depth, cur, pos, stack, out)
  /\ pc = "success" => out = Whole(1, root) \o <<"comma">>
  /\ result = "text" => out = Whole(1, root)

\* The item the walk is at, and those it has written.
LEMMA AtItem ==
  ASSUME PlaceInv, Walking, Items(cur) # <<>>
  PROVE  /\ Len(Items(cur)) \in Nat /\ pos \in Nat /\ cur \in Containers
         /\ pos + 1 \in 1 .. Len(Items(cur)) + 1
         /\ pc = "dict_key_done" => pos \in 1 .. Len(Items(cur)) /\ Kind[cur] = "dict"
         /\ InputOK /\ Open(depth, cur)
<1>1. cur \in Containers /\ InputOK /\ pos \in Nat /\ pos <= Len(Items(cur))
  BY DEF PlaceInv, InHand, WalkOK
<1>2. Len(Items(cur)) \in Nat  BY <1>1, ItemsType
<1>3. pc = "dict_key_done" => pos >= 1 /\ Kind[cur] = "dict"  BY DEF PlaceInv, InHand
<1>4. Open(depth, cur)
  <2>1. At(depth) = cur /\ depth \in 1 .. depth  BY PathOpen
  <2>2. Open(depth, At(depth))  BY <2>1, PathOpen
  <2>. QED  BY <2>1, <2>2
<1>. QED  BY <1>1, <1>2, <1>3, <1>4

LEMMA PathPrefix ==
  ASSUME NEW b \in Texts, NEW x \in Texts, NEW w, NEW t, Begins(x, w), Leads(b, w, t)
  PROVE  IsPrefix(b \o x, t)
<1>1. PICK s \in Texts : w = x \o s  BY DEF Begins
<1>2. PICK r \in Texts : t = b \o (w \o r)  BY DEF Leads
<1>3. PICK y, z, u : y = s \o r /\ z = x \o y /\ u = b \o x  OBVIOUS
<1>4. y \in Texts /\ u \in Texts  BY <1>3, TextConcat
<1>5. Associates(x, s, r) /\ Associates(b, x, y)  BY <1>4, TextAssociates
<1>6. w \o r = z  BY <1>1, <1>3, <1>5 DEF Associates
<1>7. t = u \o y  BY <1>2, <1>3, <1>5, <1>6 DEF Associates
<1>8. IsPrefix(u, u \o y)  BY <1>4, PrefixBegins
<1>. QED  BY <1>3, <1>7, <1>8

LEMMA SpellsSoFar == ASSUME PlaceInv, SpellInv PROVE TextSoFar
<1>1. PICK whole : whole = Whole(1, root)  OBVIOUS
<1>2. Text[MaxRecursion][root] = whole
  <2>1. Below(1) + 1 = MaxRecursion  BY MaxRecursionAssumption DEF Below
  <2>. QED  BY <1>1, <2>1 DEF Whole
<1>3. ASSUME Walking
      PROVE  /\ out[Len(out)] # "comma" => IsPrefix(out, whole)
             /\ out[Len(out)] = "comma" => IsPrefix(SubSeq(out, 1, Len(out) - 1), whole)
  <2>1. Items(cur) # <<>> /\ Reached(pc, depth, cur, pos, stack, out)  BY <1>3 DEF SpellInv
  <2>2. PICK before :
          Around(depth, stack, before) /\ out = before[depth] \o Here(pc, depth, cur, pos)
    BY <2>1 DEF Reached
  <2>3. PICK n, o, b, i : n = depth /\ o = cur /\ b = before[depth] /\ i = pos + 1  OBVIOUS
  <2>4. /\ Len(Items(o)) \in Nat /\ i \in 1 .. Len(Items(o)) + 1 /\ InputOK /\ Open(n, o)
        /\ pc = "dict_key_done" => pos \in 1 .. Len(Items(o)) /\ Kind[o] = "dict"
        /\ o \in Containers
    BY <1>3, <2>1, <2>3, AtItem
  <2>5. b \in Texts /\ Leads(b, Whole(n, o), whole)
    <3>1. n \in 1 .. n /\ At(n) = o  BY <1>3, <2>1, <2>3, PathOpen
    <3>2. Leads(before[n], Whole(n, At(n)), Whole(1, root))
      BY <1>3, <2>1, <2>2, <2>3, <3>1, PathBegins
    <3>3. before[n] \in Texts  BY <2>2, <2>3, <3>1 DEF Around
    <3>. QED  BY <1>1, <2>3, <3>1, <3>2, <3>3
  <2>6. CASE pc = "dict_key_done"
    <3>1. PICK p, q, v : p = pos /\ q = UntilValue(n, o, p) /\ v = Value(n, o, p)  OBVIOUS
    <3>2. p \in 1 .. Len(Items(o)) /\ p \in 1 .. Len(Items(o)) + 1 /\ p <= Len(Items(o))
      BY <2>4, <2>6, <3>1
    <3>3. q \in Texts /\ v \in Texts /\ Until(n, o, p) \in Texts
      BY <2>4, <3>1, <3>2, UntilType
    <3>4. Begins(q, Whole(n, o))
      <4>1. Leads(q, v, Whole(n, o))  BY <2>4, <3>1, <3>2, ValueBegins
      <4>2. PICK r \in Texts : Whole(n, o) = q \o (v \o r)  BY <4>1 DEF Leads
      <4>3. v \o r \in Texts  BY <3>3, TextConcat
      <4>. QED  BY <4>2, <4>3 DEF Begins
    <3>5. out = b \o q  BY <2>2, <2>3, <2>6, <3>1 DEF Here
    <3>6. IsPrefix(out, whole)  BY <2>5, <3>3, <3>4, <3>5, PathPrefix
    <3>7. PICK k, u, c : k = Items(o)[p].key /\ u = Until(n, o, p) /\ c = "colon"  OBVIOUS
    <3>8. k \in Toks /\ c \in Toks /\ u \in Texts
      <4>1. k \in Objects  BY <2>4, <2>6, <3>2, <3>7, ItemsType
      <4>. QED  BY <3>3, <3>7, <4>1 DEF Toks, Marks
    <3>9. q = u \o (<<k>> \o <<c>>)
      <4>1. q = u \o <<k, c>>  BY <2>4, <2>6, <3>1, <3>7 DEF UntilValue, Label
      <4>. QED  BY <3>8, <4>1, TextPair
    <3>10. PICK x, y : x = b \o u /\ y = x \o <<k>>  OBVIOUS
    <3>11. out = y \o <<c>> /\ y \in Texts
      <4>1. PICK f, g, h : f = <<k>> /\ g = <<c>> /\ h = f \o g  OBVIOUS
      <4>2. f \in Texts /\ g \in Texts  BY <3>8, <4>1, TextOne
      <4>3. x \in Texts /\ h \in Texts  BY <2>5, <3>8, <3>10, <4>1, <4>2, TextConcat
      <4>4. y \in Texts  BY <3>10, <4>1, <4>2, <4>3, TextConcat
      <4>5. Associates(b, u, h) /\ Associates(x, f, g)
        BY <2>5, <3>8, <4>2, <4>3, TextAssociates
      <4>6. b \o (u \o h) = x \o h  BY <3>10, <4>5 DEF Associates
      <4>7. x \o h = y \o g  BY <3>10, <4>1, <4>5 DEF Associates
      <4>. QED  BY <3>5, <3>9, <4>1, <4>4, <4>6, <4>7
    <3>12. out[Len(out)] = c  BY <3>8, <3>11, TextLast
    <3>. QED  BY <3>6, <3>7, <3>12
  <2>7. CASE pc # "dict_key_done" /\ i = 1
    <3>1. PICK x : x = Opening(o)  OBVIOUS
    <3>2. x \in Toks /\ <<x>> \in Texts  BY <2>4, <3>1, BracketsType
    <3>3. Begins(<<x>>, Whole(n, o))
      <4>1. 0 \in 0 .. Len(Items(o))  BY <2>4
      <4>2. Begins(<<x>> \o UpTo(Parts(Text[Below(n)], o))[0], Whole(n, o))
        BY <2>4, <3>1, <4>1, WholeBegins
      <4>3. UpTo(Parts(Text[Below(n)], o))[0] = <<>>
        <5>1. Len(Parts(Text[Below(n)], o)) \in Nat  BY <2>4, OpenText DEF PartsOK
        <5>. QED  BY <5>1, UpToIs
      <4>4. <<x>> \o <<>> = <<x>>  BY <3>2, TextConcat
      <4>. QED  BY <4>2, <4>3, <4>4
    <3>4. out = b \o <<x>>
      <4>1. Until(n, o, 1) = <<x>>  BY <2>4, <3>1, UntilFirst
      <4>. QED  BY <2>2, <2>3, <2>7, <4>1 DEF Here
    <3>5. IsPrefix(out, whole)  BY <2>5, <3>2, <3>3, <3>4, PathPrefix
    <3>6. out[Len(out)] = x  BY <2>5, <3>2, <3>4, TextLast
    <3>7. x # "comma"  BY <3>1 DEF Opening
    <3>. QED  BY <3>5, <3>6, <3>7
  <2>8. CASE pc # "dict_key_done" /\ i # 1
    <3>1. PICK x \in Texts : Until(n, o, i) = x \o <<"comma">> /\ Begins(x, Whole(n, o))
      BY <2>4, <2>8, CommaBegins
    <3>2. PICK c, y : c = "comma" /\ y = b \o x  OBVIOUS
    <3>3. c \in Toks /\ <<c>> \in Texts  BY <2>4, <3>2, BracketsType
    <3>4. out = y \o <<c>>
      <4>1. Associates(b, x, <<c>>)  BY <2>5, <3>3, TextAssociates
      <4>2. out = b \o (x \o <<c>>)  BY <2>2, <2>3, <2>8, <3>1, <3>2 DEF Here
      <4>. QED  BY <3>2, <4>1, <4>2 DEF Associates
    <3>5. y \in Texts  BY <2>5, <3>2, TextConcat
    <3>6. out[Len(out)] = c /\ SubSeq(out, 1, Len(out) - 1) = y  BY <3>3, <3>4, <3>5, TextLast
    <3>7. IsPrefix(y, whole)  BY <2>5, <3>1, <3>2, PathPrefix
    <3>. QED  BY <3>2, <3>6, <3>7
  <2>. QED  BY <2>6, <2>7, <2>8
<1>4. result = "text" => out = whole  BY <1>1 DEF SpellInv
<1>. QED  BY <1>2, <1>3, <1>4 DEF TextSoFar
-----------------------------------------------------------------------------
(* SpellInv is inductive.                                                  *)

LEMMA TextTriple ==
  ASSUME NEW x \in Toks, NEW y \in Toks, NEW z \in Toks
  PROVE  <<x, y, z>> = <<x, y>> \o <<z>>
<1>1. PICK s, t, r : s = <<x, y>> /\ t = <<z>> /\ r = <<x, y, z>>  OBVIOUS
<1>2. /\ s \in Seq(Toks) /\ Len(s) = 2 /\ s[1] = x /\ s[2] = y
      /\ t \in Seq(Toks) /\ Len(t) = 1 /\ t[1] = z
      /\ r \in Seq(Toks) /\ Len(r) = 3 /\ r[1] = x /\ r[2] = y /\ r[3] = z
  BY <1>1
<1>3. /\ s \o t \in Seq(Toks) /\ Len(s \o t) = 2 + 1
      /\ \A i \in 1 .. 2 + 1 : (s \o t)[i] = IF i <= 2 THEN s[i] ELSE t[i - 2]
  <2>1. /\ s \o t \in Seq(Toks) /\ Len(s \o t) = Len(s) + Len(t)
        /\ \A i \in 1 .. Len(s) + Len(t) : (s \o t)[i] = IF i <= Len(s) THEN s[i] ELSE t[i - Len(s)]
    BY <1>2, ConcatProperties
  <2>. QED  BY <1>2, <2>1
<1>4. (s \o t)[1] = x /\ (s \o t)[2] = y /\ (s \o t)[3] = z
  <2>1. 1 \in 1 .. 2 + 1 /\ 2 \in 1 .. 2 + 1 /\ 3 \in 1 .. 2 + 1
        /\ 1 <= 2 /\ 2 <= 2 /\ ~ (3 <= 2) /\ 3 - 2 = 1
    OBVIOUS
  <2>. QED  BY <1>2, <1>3, <2>1
<1>5. \A i \in 1 .. 3 : (s \o t)[i] = r[i]
  <2>1. \A i \in 1 .. 3 : i = 1 \/ i = 2 \/ i = 3  OBVIOUS
  <2>. QED  BY <1>2, <1>4, <2>1
<1>6. s \o t = r
  <2>1. Len(s \o t) = 3  BY <1>3
  <2>. QED  BY <1>2, <1>3, <1>5, <2>1, SeqEqual
<1>. QED  BY <1>1, <1>6

\* The values that are written in one step.
LEMMA ValueText ==
  ASSUME InputOK, NEW d, NEW o, Open(d, o), NEW i \in 1 .. Len(Items(o)),
         NEW v, v = Items(o)[i].val
  PROVE  /\ v \in Objects
         /\ v \notin Containers => Value(d, o, i) = <<v>>
         /\ v \in Containers /\ Items(v) = <<>> => Value(d, o, i) = <<Opening(v), Closing(v)>>
<1>1. PICK n : n = Below(d)  OBVIOUS
<1>2. n \in 0 .. MaxRecursion  BY <1>1, MaxRecursionAssumption DEF Below, Open
<1>3. Text[n] = TextBody(n, Text[n - 1])  BY <1>2, TextIs
<1>4. v \in Objects  BY ItemsType DEF Open
<1>5. v \notin Containers => Text[n][v] = <<v>>  BY <1>3, <1>4 DEF TextBody
<1>6. v \in Containers /\ Items(v) = <<>> => Text[n][v] = <<Opening(v), Closing(v)>>
  BY <1>3, <1>4 DEF TextBody
<1>. QED  BY <1>1, <1>4, <1>5, <1>6 DEF Value

\* An item and its comma follow what stands in front of it.
LEMMA ItemWritten ==
  ASSUME InputOK, NEW d, NEW o, Open(d, o), NEW i \in 1 .. Len(Items(o)), NEW b \in Texts
  PROVE  (b \o UntilValue(d, o, i)) \o (Value(d, o, i) \o <<"comma">>) = b \o Until(d, o, i + 1)
<1>1. Len(Items(o)) \in Nat  BY OpenText
<1>2. i \in 1 .. Len(Items(o)) + 1 /\ i <= Len(Items(o))  BY <1>1
<1>3. PICK q, v, c, w : q = UntilValue(d, o, i) /\ v = Value(d, o, i) /\ c = <<"comma">>
                        /\ w = v \o c
  OBVIOUS
<1>4. q \in Texts /\ v \in Texts /\ c \in Texts
  BY <1>2, <1>3, UntilType, BracketsType DEF Open
<1>5. w \in Texts  BY <1>3, <1>4, TextConcat
<1>6. Associates(b, q, w)  BY <1>4, <1>5, TextAssociates
<1>7. Until(d, o, i + 1) = q \o w  BY <1>3, UntilNext
<1>. QED  BY <1>3, <1>6, <1>7 DEF Associates

LEMMA WhatIsReached ==
  ASSUME NEW n, NEW st, NEW before, Around(n, st, before), NEW txt, NEW l, NEW o, NEW p,
         txt = before[n] \o Here(l, n, o, p)
  PROVE  Reached(l, n, o, p, st, txt)
  BY DEF Reached

\* The item the walk is about to write.
AtItemOf(i) ==
  /\ i \in 1 .. Len(Items(cur))
  /\ \/ pc = "dict_key_done" /\ i = pos
     \/ pc = "arr_val_begin" /\ i = pos + 1

LEMMA BeforeItem ==
  ASSUME PlaceInv, SpellInv, Walking, NEW i, AtItemOf(i)
  PROVE  \E before : /\ Around(depth, stack, before)
                     /\ before[depth] \in Texts
                     /\ out = before[depth] \o UntilValue(depth, cur, i)
<1>1. Items(cur) # <<>> /\ Reached(pc, depth, cur, pos, stack, out)  BY DEF SpellInv
<1>2. PICK before :
        Around(depth, stack, before) /\ out = before[depth] \o Here(pc, depth, cur, pos)
  BY <1>1 DEF Reached
<1>3. before[depth] \in Texts
  <2>1. depth \in 1 .. depth  BY <1>1, PathOpen
  <2>. QED  BY <1>2, <2>1 DEF Around
<1>4. Here(pc, depth, cur, pos) = UntilValue(depth, cur, i)
  <2>1. CASE pc = "dict_key_done"  BY <2>1 DEF Here, AtItemOf
  <2>2. CASE pc = "arr_val_begin"
    <3>1. Kind[cur] # "dict"  BY <2>2 DEF PlaceInv, InHand
    <3>2. i = pos + 1  BY <2>2 DEF AtItemOf
    <3>3. PICK u : u = Until(depth, cur, i)  OBVIOUS
    <3>4. u \in Texts
      <4>1. i \in 1 .. Len(Items(cur)) + 1  BY <1>1, <3>2, AtItem
      <4>. QED  BY <1>1, <3>3, <4>1, AtItem, UntilType
    <3>5. UntilValue(depth, cur, i) = u
      <4>1. Label(cur, i) = <<>>  BY <3>1 DEF Label
      <4>. QED  BY <3>3, <3>4, <4>1, TextConcat DEF UntilValue
    <3>. QED  BY <2>2, <3>2, <3>3, <3>5 DEF Here
  <2>. QED  BY <2>1, <2>2 DEF AtItemOf
<1>. QED  BY <1>2, <1>3, <1>4

\* What the walk leaves out of sight.
LEMMA WalkingSpells ==
  ASSUME Walking', result' = "null", graph' = graph, Items(cur') # <<>>,
         Reached(pc', depth', cur', pos', stack', out')
  PROVE  SpellInv'
<1>1. Reached(pc, depth, cur, pos, stack, out)'  BY ReachedLater
<1>2. Items(cur)' # <<>>  BY DEF Items
<1>3. pc' # "start" /\ pc' # "success"  BY DEF Walking
<1>. QED  BY <1>1, <1>2, <1>3 DEF SpellInv

LEMMA LabelWalks ==
  ASSUME NEW o
  PROVE  /\ LabelOf(o) \in {"dict_pair_begin", "arr_val_begin"}
         /\ LabelOf(o) # "dict_key_done"
  BY DEF LabelOf

\* A value that is written in one step.
LEMMA LeafSpells ==
  ASSUME PlaceInv, SpellInv, Walking, result' = "null", graph' = graph,
         NEW i, AtItemOf(i), pos' = i, pc' = LabelOf(cur), UNCHANGED <<depth, stack, cur>>,
         NEW w, w = Value(depth, cur, i), out' = out \o (w \o <<"comma">>)
  PROVE  SpellInv'
<1>1. Items(cur) # <<>>  BY DEF SpellInv
<1>2. PICK before : /\ Around(depth, stack, before) /\ before[depth] \in Texts
                    /\ out = before[depth] \o UntilValue(depth, cur, i)
  BY BeforeItem
<1>3. InputOK /\ Open(depth, cur) /\ i \in 1 .. Len(Items(cur))  BY <1>1, AtItem DEF AtItemOf
<1>4. out' = before[depth] \o Until(depth, cur, i + 1)  BY <1>2, <1>3, ItemWritten
<1>5. Here(pc', depth, cur, i) = Until(depth, cur, i + 1)
  <2>1. pc' # "dict_key_done"  BY LabelWalks
  <2>. QED  BY <2>1 DEF Here
<1>6. Reached(pc', depth, cur, i, stack, out')
  <2>1. out' = before[depth] \o Here(pc', depth, cur, i)  BY <1>4, <1>5
  <2>. QED  BY <1>2, <2>1, WhatIsReached
<1>7. Walking'  BY LabelWalks DEF Walking
<1>. QED  BY <1>1, <1>6, <1>7, WalkingSpells

\* A container that is entered.
LEMMA PushSpells ==
  ASSUME PlaceInv, SpellInv, Walking, result' = "null", graph' = graph,
         NEW i, AtItemOf(i), pos' = 0, NEW v \in Containers, Items(v) # <<>>,
         ~AtLimit, Write(<<Opening(v)>>), Push(v, i)
  PROVE  SpellInv'
<1>1. Items(cur) # <<>>  BY DEF SpellInv
<1>2. PICK before : /\ Around(depth, stack, before) /\ before[depth] \in Texts
                    /\ out = before[depth] \o UntilValue(depth, cur, i)
  BY BeforeItem
<1>3. /\ depth \in Nat /\ depth >= 1 /\ depth < MaxRecursion /\ MaxRecursion \in Nat
      /\ depth \in Slots
  BY MaxRecursionAssumption DEF PlaceInv, WalkOK, InHand, AtLimit, Slots
<1>4. PICK n : n = depth + 1  OBVIOUS
<1>5. n \in Nat /\ n # depth /\ n - 1 = depth /\ n \in 1 .. n /\ n # 1 /\ n \in 1 .. MaxRecursion
  BY <1>3, <1>4
<1>6. /\ depth' = n /\ cur' = v /\ pc' = LabelOf(v) /\ out' = out \o <<Opening(v)>>
      /\ stack' = [stack EXCEPT ![depth] = [ctn |-> cur, index |-> i]]
  BY <1>4 DEF Push, Enter, Write
<1>7. InputOK /\ Open(depth, cur) /\ i \in 1 .. Len(Items(cur)) /\ Len(Items(cur)) \in Nat
  BY <1>1, AtItem DEF AtItemOf
<1>8. UntilValue(depth, cur, i) \in Texts
  <2>1. i \in 1 .. Len(Items(cur)) + 1 /\ i <= Len(Items(cur))  BY <1>7
  <2>. QED  BY <1>7, <2>1, UntilType
<1>. DEFINE after == [d \in 1 .. n |-> IF d = n THEN out ELSE before[d]]
<1>9. after[n] = out /\ \A d \in 1 .. depth : after[d] = before[d]
  <2>1. \A d \in 1 .. depth : d \in 1 .. n /\ d # n  BY <1>3, <1>4
  <2>. QED  BY <1>5, <2>1
<1>. HIDE DEF after
<1>10. out \in Texts  BY <1>2, <1>8, TextConcat
<1>11. stack'[depth].ctn = cur /\ stack'[depth].index = i
       /\ \A d \in 1 .. depth - 1 : stack'[d] = stack[d]
  <2>1. stack \in [Slots -> [ctn : Objects \union {None}, index : Nat]]  BY DEF PlaceInv, WalkOK
  <2>2. \A d \in 1 .. depth - 1 : d \in Slots /\ d # depth  BY <1>3 DEF Slots
  <2>. QED  BY <1>3, <1>6, <2>1, <2>2
<1>12. Around(n, stack', after)
  <2>1. after[1] = <<>>
    <3>1. 1 \in 1 .. depth  BY <1>3
    <3>. QED  BY <1>2, <1>9, <3>1 DEF Around
  <2>2. ASSUME NEW d \in 1 .. n PROVE after[d] \in Texts
    <3>1. CASE d = n  BY <1>9, <1>10, <3>1
    <3>2. CASE d # n
      <4>1. d \in 1 .. depth  BY <1>5, <3>2
      <4>. QED  BY <1>2, <1>9, <4>1 DEF Around
    <3>. QED  BY <3>1, <3>2
  <2>3. ASSUME NEW d \in 1 .. n - 1
        PROVE  after[d + 1] = after[d] \o UntilValue(d, stack'[d].ctn, stack'[d].index)
    <3>1. CASE d = depth
      <4>1. d \in 1 .. depth /\ d + 1 = n  BY <1>3, <1>4, <3>1
      <4>2. after[d] = before[depth] /\ after[d + 1] = out  BY <1>9, <3>1, <4>1
      <4>. QED  BY <1>2, <1>11, <3>1, <4>2
    <3>2. CASE d # depth
      <4>1. d \in 1 .. depth - 1 /\ d \in 1 .. depth /\ d + 1 \in 1 .. depth  BY <1>3, <1>5, <3>2
      <4>2. before[d + 1] = before[d] \o UntilValue(d, stack[d].ctn, stack[d].index)
        BY <1>2, <4>1 DEF Around
      <4>. QED  BY <1>9, <1>11, <4>1, <4>2
    <3>. QED  BY <3>1, <3>2
  <2>. QED  BY <2>1, <2>2, <2>3 DEF Around
<1>13. out' = after[n] \o Here(pc', n, v, 0)
  <2>1. pc' # "dict_key_done"  BY <1>6, LabelWalks
  <2>2. Open(n, v)  BY <1>5 DEF Open
  <2>3. Until(n, v, 1) = <<Opening(v)>>  BY <1>7, <2>2, UntilFirst
  <2>4. Here(pc', n, v, 0) = <<Opening(v)>>
    <3>1. 0 + 1 = 1  OBVIOUS
    <3>. QED  BY <2>1, <2>3, <3>1 DEF Here
  <2>. QED  BY <1>6, <1>9, <2>4
<1>14. Reached(pc', n, v, 0, stack', out')  BY <1>12, <1>13, WhatIsReached
<1>15. Walking'  BY <1>6, LabelWalks DEF Walking
<1>. QED  BY <1>6, <1>14, <1>15, WalkingSpells

LEMMA ValueSpells ==
  ASSUME PlaceInv, SpellInv, Walking, result' = "null", graph' = graph,
         NEW i, AtItemOf(i), NEW v, v = Items(cur)[i].val, ProcessValue(v, i)
  PROVE  SpellInv'
<1>1. Items(cur) # <<>>  BY DEF SpellInv
<1>2. InputOK /\ Open(depth, cur) /\ i \in 1 .. Len(Items(cur))  BY <1>1, AtItem DEF AtItemOf
<1>3. "comma" \in Toks  BY DEF Toks, Marks
<1>4. CASE (ValueStr(v) \/ ValueAtom(v)) /\ pos' = i
  <2>1. v \in Objects /\ v \notin Containers  
    BY <1>2, <1>4, ValueText DEF ValueStr, ValueAtom, Containers
  <2>2. Value(depth, cur, i) = <<v>>  BY <1>2, <2>1, ValueText
  <2>3. <<v, "comma">> = <<v>> \o <<"comma">>  BY <1>3, <2>1, TextPair DEF Toks
  <2>4. out' = out \o <<v, "comma">> /\ pc' = LabelOf(cur) /\ UNCHANGED <<depth, stack, cur>>
    BY <1>4 DEF ValueStr, ValueAtom, WriteStr, Write
  <2>. QED  BY <1>4, <2>2, <2>3, <2>4, LeafSpells
<1>5. CASE ValueEmpty(v) /\ pos' = i
  <2>1. v \in Containers /\ Items(v) = <<>>  BY <1>5 DEF ValueEmpty
  <2>2. Value(depth, cur, i) = <<Opening(v), Closing(v)>>  BY <1>2, <2>1, ValueText
  <2>3. <<Opening(v), Closing(v), "comma">> = <<Opening(v), Closing(v)>> \o <<"comma">>
    BY <1>3, <2>1, TextTriple, BracketsType
  <2>4. /\ out' = out \o <<Opening(v), Closing(v), "comma">>
        /\ pc' = LabelOf(cur) /\ UNCHANGED <<depth, stack, cur>>
    BY <1>5 DEF ValueEmpty, Write
  <2>. QED  BY <1>5, <2>2, <2>3, <2>4, LeafSpells
<1>6. CASE /\ v \in Containers /\ Items(v) # <<>> /\ ~AtLimit
           /\ Write(<<Opening(v)>>) /\ Push(v, i) /\ pos' = 0
  BY <1>6, PushSpells
<1>. QED  BY <1>4, <1>5, <1>6 DEF ProcessValue

\* The next pair's key.
LEMMA KeySpells ==
  ASSUME PlaceInv, SpellInv, pc = "dict_pair_begin", result' = "null", graph' = graph,
         pos < Len(Items(cur)), WriteStr(Items(cur)[pos + 1].key, "colon"),
         pos' = pos + 1, pc' = "dict_key_done", UNCHANGED <<cur, depth, stack>>
  PROVE  SpellInv'
<1>1. Walking  BY DEF Walking
<1>2. Items(cur) # <<>> /\ Reached(pc, depth, cur, pos, stack, out)  BY <1>1 DEF SpellInv
<1>3. PICK before :
        Around(depth, stack, before) /\ out = before[depth] \o Here(pc, depth, cur, pos)
  BY <1>2 DEF Reached
<1>4. PICK i, k : i = pos + 1 /\ k = Items(cur)[i].key  OBVIOUS
<1>5. /\ InputOK /\ Open(depth, cur) /\ Kind[cur] = "dict" /\ cur \in Containers
      /\ Len(Items(cur)) \in Nat /\ pos \in Nat
  BY <1>1, <1>2, AtItem DEF PlaceInv, InHand
<1>6. i \in 1 .. Len(Items(cur)) /\ i \in 1 .. Len(Items(cur)) + 1  BY <1>4, <1>5
<1>7. PICK b, u, l : b = before[depth] /\ u = Until(depth, cur, i) /\ l = Label(cur, i)  OBVIOUS
<1>8. b \in Texts /\ u \in Texts /\ l \in Texts
  <2>1. depth \in 1 .. depth  BY <1>1, <1>2, PathOpen
  <2>2. b \in Texts  BY <1>3, <1>7, <2>1 DEF Around
  <2>. QED  BY <1>5, <1>6, <1>7, <2>2, UntilType, LabelType
<1>9. out = b \o u  BY <1>3, <1>4, <1>7 DEF Here
<1>10. l = <<k, "colon">>  BY <1>4, <1>5, <1>7 DEF Label
<1>11. out' = (b \o u) \o l  BY <1>4, <1>9, <1>10 DEF WriteStr
<1>12. Associates(b, u, l)  BY <1>8, TextAssociates
<1>13. out' = before[depth] \o Here(pc', depth, cur, i)
  <2>1. Here(pc', depth, cur, i) = u \o l  BY <1>7 DEF Here, UntilValue
  <2>. QED  BY <1>7, <1>11, <1>12, <2>1 DEF Associates
<1>14. Reached(pc', depth, cur, i, stack, out')  BY <1>3, <1>13, WhatIsReached
<1>15. Walking'  BY DEF Walking
<1>. QED  BY <1>2, <1>4, <1>14, <1>15, WalkingSpells

\* The text of the container in hand is complete.
LEMMA EndSpells ==
  ASSUME PlaceInv, SpellInv, Walking, result' = "null", graph' = graph, root' = root,
         pc # "dict_key_done", pos = Len(Items(cur)),
         WriteEnd(Closing(cur)), stack' = stack, depth' = depth - 1,
         IF depth = 1 THEN pc' = "success" ELSE Resume(stack[depth - 1])
  PROVE  SpellInv'
<1>1. Items(cur) # <<>> /\ Reached(pc, depth, cur, pos, stack, out)  BY DEF SpellInv
<1>2. PICK before :
        Around(depth, stack, before) /\ out = before[depth] \o Here(pc, depth, cur, pos)
  BY <1>1 DEF Reached
<1>3. PICK i : i = pos + 1  OBVIOUS
<1>4. /\ InputOK /\ Open(depth, cur) /\ cur \in Containers
      /\ Len(Items(cur)) \in Nat /\ pos \in Nat
  BY <1>1, AtItem
<1>5. i \in 1 .. Len(Items(cur)) + 1 /\ i # 1 /\ i = Len(Items(cur)) + 1
  <2>1. Len(Items(cur)) # 0  BY <1>1, <1>4, OpenText
  <2>. QED  BY <1>3, <1>4, <2>1
<1>6. PICK x \in Texts : /\ Until(depth, cur, i) = x \o <<"comma">>
                         /\ Whole(depth, cur) = x \o <<Closing(cur)>>
  BY <1>4, <1>5, CommaBegins
<1>7. PICK b, c, e, w : b = before[depth] /\ c = <<"comma">> /\ e = <<Closing(cur)>>
                        /\ w = Whole(depth, cur)
  OBVIOUS
<1>8. b \in Texts /\ c \in Texts /\ e \in Texts /\ w \in Texts
  <2>1. depth \in 1 .. depth  BY <1>1, PathOpen
  <2>2. b \in Texts  BY <1>2, <1>7, <2>1 DEF Around
  <2>. QED  BY <1>4, <1>7, <2>2, BracketsType, OpenText
<1>9. PICK y : y = b \o x  OBVIOUS
<1>10. y \in Texts  BY <1>8, <1>9, TextConcat
<1>11. out = y \o c
  <2>1. out = b \o (x \o c)  BY <1>2, <1>3, <1>6, <1>7 DEF Here
  <2>2. Associates(b, x, c)  BY <1>8, TextAssociates
  <2>. QED  BY <1>9, <2>1, <2>2 DEF Associates
<1>12. SubSeq(out, 1, Len(out) - 1) = y
  <2>1. "comma" \in Toks  BY <1>4, BracketsType
  <2>. QED  BY <1>7, <1>10, <1>11, <2>1, TextLast
<1>13. out' = b \o (w \o c)
  <2>1. <<Closing(cur), "comma">> = e \o c  BY <1>4, <1>7, TextPair, BracketsType
  <2>2. out' = y \o (e \o c)  BY <1>12, <2>1 DEF WriteEnd
  <2>3. PICK f : f = e \o c  OBVIOUS
  <2>4. f \in Texts  BY <1>8, <2>3, TextConcat
  <2>5. Associates(b, x, f) /\ Associates(x, e, c)  BY <1>8, <2>4, TextAssociates
  <2>6. y \o f = b \o (x \o f)  BY <1>9, <2>5 DEF Associates
  <2>7. x \o f = w \o c  BY <1>6, <1>7, <2>3, <2>5 DEF Associates
  <2>. QED  BY <2>2, <2>3, <2>6, <2>7
<1>14. CASE depth = 1
  <2>1. b = <<>>  BY <1>2, <1>7, <1>14 DEF Around
  <2>2. cur = root  BY <1>1, <1>14, PathOpen
  <2>3. w \o c \in Texts  BY <1>8, TextConcat
  <2>4. out' = Whole(1, root) \o <<"comma">>
    <3>1. PICK z : z = w \o c  OBVIOUS
    <3>2. <<>> \o z = z  BY <2>3, <3>1, TextConcat
    <3>. QED  BY <1>7, <1>13, <1>14, <2>1, <2>2, <3>1, <3>2
  <2>5. Whole(1, root)' = Whole(1, root)  BY GraphStays DEF Whole, Below
  <2>6. pc' = "success" /\ ~Walking'  BY <1>14 DEF Walking
  <2>. QED  BY <2>4, <2>5, <2>6 DEF SpellInv
<1>15. CASE depth # 1
  <2>1. PICK n : n = depth - 1  OBVIOUS
  <2>2. n \in 1 .. depth - 1 /\ n + 1 = depth /\ n \in 1 .. n
    <3>1. depth \in Nat \ {0}  BY <1>1, PathOpen
    <3>. QED  BY <1>15, <2>1, <3>1
  <2>3. PICK o, j : o = stack[n].ctn /\ j = stack[n].index  OBVIOUS
  <2>4. /\ Open(n, o) /\ j \in 1 .. Len(Items(o)) /\ Value(n, o, j) = w
        /\ At(n) = o
    <3>1. At(depth) = cur  BY <1>1, PathOpen
    <3>2. /\ n \in 1 .. depth /\ stack[n].ctn = At(n)
          /\ stack[n].index \in 1 .. Len(Items(At(n)))
          /\ Value(n, At(n), stack[n].index) = Whole(n + 1, At(n + 1))
      BY <1>1, <2>2, PathOpen
    <3>3. Open(n, At(n))  BY <1>1, <3>2, PathOpen
    <3>. QED  BY <1>7, <2>2, <2>3, <3>1, <3>2, <3>3
  <2>5. PICK a : a = before[n]  OBVIOUS
  <2>6. a \in Texts /\ b = a \o UntilValue(n, o, j)
    <3>1. n \in 1 .. depth  BY <1>1, <2>2, PathOpen
    <3>. QED  BY <1>2, <1>7, <2>2, <2>3, <2>5, <3>1 DEF Around
  <2>7. out' = a \o Until(n, o, j + 1)  BY <1>4, <1>7, <1>13, <2>4, <2>6, ItemWritten
  <2>8. Around(n, stack', before)
    <3>1. \A d \in 1 .. n : d \in 1 .. depth
      BY <1>1, <2>2, PathOpen
    <3>2. \A d \in 1 .. n - 1 : d \in 1 .. depth - 1
      <4>1. depth \in Nat  BY <1>1, PathOpen
      <4>. QED  BY <2>2, <4>1
    <3>. QED  BY <1>2, <3>1, <3>2 DEF Around
  <2>9. pc' = LabelOf(o) /\ cur' = o /\ pos' = j /\ depth' = n
    BY <1>15, <2>1, <2>3 DEF Resume, Enter
  <2>10. Here(pc', n, o, j) = Until(n, o, j + 1)
    <3>1. pc' # "dict_key_done"  BY <2>9, LabelWalks
    <3>. QED  BY <3>1 DEF Here
  <2>11. Reached(pc', n, o, j, stack', out')
    <3>1. out' = before[n] \o Here(pc', n, o, j)  BY <2>5, <2>7, <2>10
    <3>. QED  BY <2>8, <3>1, WhatIsReached
  <2>12. Walking' /\ Items(o) # <<>>  BY <2>4, <2>9, LabelWalks DEF Walking, Open
  <2>. QED  BY <2>9, <2>11, <2>12, WalkingSpells
<1>. QED  BY <1>14, <1>15

\* Nothing is said of the text of a call that fails.
LEMMA FailSpells ==
  ASSUME pc' \in {"fail", "returned"}, result' = "null" PROVE SpellInv'
<1>1. pc' # "start" /\ ~Walking' /\ pc' # "success"  BY DEF Walking
<1>. QED  BY <1>1 DEF SpellInv

LEMMA GivesUpSpells ==
  ASSUME FailureInv, pc # "returned", NEW e, Fail(e) \/ NoMemory(e)
  PROVE  SpellInv'
<1>1. pc' = "fail" /\ result' = "null"  BY DEF FailureInv, Fail, NoMemory
<1>. QED  BY <1>1, FailSpells

\* The text of the root.
LEMMA RootText ==
  ASSUME InputOK
  PROVE  /\ root \notin Containers => Whole(1, root) = <<root>>
         /\ root \in Containers /\ Items(root) = <<>> =>
              Whole(1, root) = <<Opening(root), Closing(root)>>
<1>1. Below(1) + 1 = MaxRecursion /\ MaxRecursion \in 0 .. MaxRecursion
  BY MaxRecursionAssumption DEF Below
<1>2. Text[MaxRecursion] = TextBody(MaxRecursion, Text[MaxRecursion - 1])  BY <1>1, TextIs
<1>3. root \in Objects  BY DEF InputOK
<1>4. root \notin Containers => Text[MaxRecursion][root] = <<root>>
  BY <1>2, <1>3 DEF TextBody
<1>5. root \in Containers /\ Items(root) = <<>> =>
        Text[MaxRecursion][root] = <<Opening(root), Closing(root)>>
  BY <1>2, <1>3 DEF TextBody
<1>. QED  BY <1>1, <1>4, <1>5 DEF Whole

LEMMA RootTextLater ==
  ASSUME graph' = graph, root' = root PROVE Whole(1, root)' = Whole(1, root)
  BY GraphStays DEF Whole, Below

LEMMA StartSpells ==
  ASSUME IInv, FailureInv, SpellInv, StartEmpty \/ StartContainer \/ StartSingle
  PROVE  SpellInv'
<1>1. pc = "start" /\ out = <<>> /\ result = "null" /\ depth = 0 /\ pos = 0 /\ InputOK
  BY DEF StartEmpty, StartContainer, StartSingle, SpellInv, FailureInv, IInv, PlaceInv, InHand
<1>2. graph' = graph /\ root' = root
  BY DEF StartEmpty, StartContainer, StartSingle, input
<1>3. CASE StartEmpty
  <2>1. PICK a, c, w : a = <<Opening(root), Closing(root)>> /\ c = "comma"
                       /\ w = <<Opening(root), Closing(root), "comma">>
    OBVIOUS
  <2>2. w = a \o <<c>> /\ w \in Texts
    <3>1. Opening(root) \in Toks /\ Closing(root) \in Toks /\ c \in Toks /\ <<c>> \in Texts
      BY <1>3, <2>1, BracketsType DEF StartEmpty
    <3>2. a \in Texts  BY <2>1, <3>1, TextPair
    <3>3. w = a \o <<c>>  BY <2>1, <3>1, TextTriple
    <3>. QED  BY <3>1, <3>2, <3>3, TextConcat
  <2>3. out' = w
    <3>1. out' = <<>> \o w  BY <1>1, <1>3, <2>1 DEF StartEmpty, Write
    <3>. QED  BY <2>2, <3>1, TextConcat
  <2>4. Whole(1, root) = a  BY <1>1, <1>3, <2>1, RootText DEF StartEmpty
  <2>5. out' = Whole(1, root)' \o <<"comma">>  BY <1>2, <2>1, <2>2, <2>3, <2>4, RootTextLater
  <2>6. pc' = "success" /\ ~Walking' /\ result' = "null"
    BY <1>1, <1>3 DEF StartEmpty, Walking, outcome
  <2>. QED  BY <2>5, <2>6 DEF SpellInv
<1>4. CASE StartContainer
  <2>1. /\ root \in Containers /\ Items(root) # <<>> /\ Write(<<Opening(root)>>) /\ depth' = 1
        /\ Enter(root) /\ pos' = 0 /\ stack' = stack /\ result' = "null"
    BY <1>1, <1>4 DEF StartContainer, outcome
  <2>2. Open(1, root)
    <3>1. 1 \in 1 .. MaxRecursion  BY MaxRecursionAssumption
    <3>. QED  BY <2>1, <3>1 DEF Open
  <2>3. PICK w : w = <<Opening(root)>>  OBVIOUS
  <2>4. w \in Texts  BY <2>1, <2>3, BracketsType
  <2>5. out' = <<>> \o w /\ pc' = LabelOf(root) /\ cur' = root
    BY <1>1, <2>1, <2>3 DEF Write, Enter
  <2>6. PICK before : before = [d \in 1 .. 1 |-> <<>>]  OBVIOUS
  <2>7. before[1] = <<>>  BY <2>6
  <2>8. Around(1, stack', before)
    <3>1. \A d \in 1 .. 1 : d = 1  OBVIOUS
    <3>2. 1 .. 1 - 1 = {}  OBVIOUS
    <3>. QED  BY <2>7, <3>1, <3>2, TextEmpty DEF Around
  <2>9. Here(pc', 1, root, 0) = w
    <3>1. pc' # "dict_key_done"  BY <2>5, LabelWalks
    <3>2. Until(1, root, 1) = w  BY <1>1, <2>2, <2>3, UntilFirst
    <3>3. 0 + 1 = 1  OBVIOUS
    <3>. QED  BY <3>1, <3>2, <3>3 DEF Here
  <2>10. Reached(pc', 1, root, 0, stack', out')
    <3>1. out' = before[1] \o Here(pc', 1, root, 0)  BY <2>5, <2>7, <2>9
    <3>. QED  BY <2>8, <3>1, WhatIsReached
  <2>11. Walking'  BY <2>5, LabelWalks DEF Walking
  <2>. QED  BY <1>2, <2>1, <2>5, <2>10, <2>11, WalkingSpells
<1>5. CASE StartSingle
  <2>1. pc' = "returned"  BY <1>5 DEF StartSingle
  <2>2. CASE result' = result  BY <1>1, <2>1, <2>2, FailSpells
  <2>3. CASE result' # result
    <3>1. out' = <<root>> \/ out' = <<>> \o <<root>>
      BY <1>1, <1>5, <2>3 DEF StartSingle, Write
    <3>2. root \in Toks /\ root \notin Containers  BY <1>1, <1>5 DEF InputOK, Toks, StartSingle
    <3>3. <<>> \o <<root>> = <<root>>
      <4>1. PICK w : w = <<root>>  OBVIOUS
      <4>2. w \in Texts  BY <3>2, <4>1, TextOne
      <4>. QED  BY <4>1, <4>2, TextConcat
    <3>4. out' = Whole(1, root)'  BY <1>1, <1>2, <3>1, <3>2, <3>3, RootText, RootTextLater
    <3>5. pc' # "start" /\ ~Walking' /\ pc' # "success"  BY <2>1 DEF Walking
    <3>. QED  BY <3>4, <3>5 DEF SpellInv
  <2>. QED  BY <2>2, <2>3
<1>. QED  BY <1>3, <1>4, <1>5

LEMMA LoopSpells ==
  ASSUME IInv, FailureInv, SpellInv, ReadPair \/ PairValue \/ ItemValue
  PROVE  SpellInv'
<1>1. Walking /\ pc # "returned" /\ PlaceInv
  BY DEF ReadPair, PairValue, ItemValue, Walking, IInv
<1>2. result = "null" /\ Items(cur) # <<>>  BY <1>1 DEF FailureInv, SpellInv
<1>3. /\ Len(Items(cur)) \in Nat /\ pos \in Nat
      /\ pc = "dict_key_done" => pos \in 1 .. Len(Items(cur))
  BY <1>1, <1>2, AtItem
<1>4. CASE ReadPair
  <2>1. PICK k : k = Items(cur)[pos + 1].key  OBVIOUS
  <2>2. CASE Fail("JSONEncodeError") \/ NoMemory("none")  BY <1>1, <2>2, GivesUpSpells
  <2>3. CASE /\ WriteStr(k, "colon") /\ pos' = pos + 1 /\ pc' = "dict_key_done"
             /\ UNCHANGED <<input, outcome, cur, depth, stack>>
    <3>1. result' = "null" /\ graph' = graph  BY <1>2, <2>3 DEF input, outcome
    <3>2. pc = "dict_pair_begin" /\ pos < Len(Items(cur))  BY <1>4 DEF ReadPair
    <3>. QED  BY <1>1, <2>1, <2>3, <3>1, <3>2, KeySpells
  <2>. QED  BY <1>4, <2>1, <2>2, <2>3 DEF ReadPair
<1>5. ASSUME NEW i, NEW v, AtItemOf(i), v = Items(cur)[i].val,
             ProcessValue(v, i) \/ RejectValue(v) \/ ValueFails(v)
      PROVE  SpellInv'
  <2>1. CASE ProcessValue(v, i)
    <3>1. result' = "null" /\ graph' = graph  BY <1>2, <2>1 DEF ProcessValue, input, outcome
    <3>. QED  BY <1>1, <1>5, <2>1, <3>1, ValueSpells
  <2>2. CASE RejectValue(v)  BY <1>1, <2>2, GivesUpSpells DEF RejectValue
  <2>3. CASE ValueFails(v)  BY <1>1, <2>3, GivesUpSpells DEF ValueFails
  <2>. QED  BY <1>5, <2>1, <2>2, <2>3
<1>6. CASE PairValue
  <2>1. AtItemOf(pos)  BY <1>3, <1>6 DEF PairValue, AtItemOf
  <2>2. val = Items(cur)[pos].val  BY <1>1, <1>6 DEF PairValue, PlaceInv, InHand
  <2>. QED  BY <1>5, <1>6, <2>1, <2>2 DEF PairValue
<1>7. CASE ItemValue
  <2>1. PICK i : i = pos + 1  OBVIOUS
  <2>2. AtItemOf(i)
    <3>1. pc = "arr_val_begin" /\ pos < Len(Items(cur))
      BY <1>1, <1>7 DEF ItemValue, PlaceInv, ListInHand
    <3>. QED  BY <1>3, <2>1, <3>1 DEF AtItemOf
  <2>. QED  BY <1>5, <1>7, <2>1, <2>2 DEF ItemValue
<1>. QED  BY <1>4, <1>6, <1>7

LEMMA EndStepSpells ==
  ASSUME IInv, FailureInv, SpellInv, EndContainer PROVE SpellInv'
<1>1. Walking /\ pc # "returned" /\ PlaceInv /\ pc # "dict_key_done"
  BY DEF EndContainer, Walking, IInv
<1>2. CASE NoMemory("none")  BY <1>1, <1>2, GivesUpSpells
<1>3. CASE ~NoMemory("none")
  <2>1. result = "null" /\ Items(cur) # <<>>  BY <1>1 DEF FailureInv, SpellInv
  <2>2. Len(Items(cur)) \in Nat /\ pos \in Nat /\ pos <= Len(Items(cur))
    BY <1>1, <2>1, AtItem DEF PlaceInv, InHand
  <2>3. pos = Len(Items(cur))
    <3>1. pos >= Len(Items(cur))  BY <1>1 DEF EndContainer, PlaceInv, ListInHand
    <3>. QED  BY <2>2, <3>1
  <2>4. /\ WriteEnd(Closing(cur)) /\ depth' = depth - 1 /\ UNCHANGED <<input, val, stack, outcome>>
        /\ IF depth = 1 THEN pc' = "success" ELSE Resume(stack[depth - 1])
    BY <1>3 DEF EndContainer
  <2>5. result' = "null" /\ graph' = graph /\ root' = root  BY <2>1, <2>4 DEF input, outcome
  <2>. QED  BY <1>1, <2>3, <2>4, <2>5, EndSpells
<1>. QED  BY <1>2, <1>3

LEMMA SpellStep == ASSUME IInv, FailureInv, SpellInv, [Next]_vars PROVE SpellInv'
<1>1. CASE InitFails  BY <1>1, GivesUpSpells DEF InitFails
<1>2. CASE StartEmpty \/ StartContainer \/ StartSingle  BY <1>2, StartSpells
<1>3. CASE SingleFails
  <2>1. pc' = "returned" /\ result' = "null"  BY <1>3 DEF SingleFails, FailureInv
  <2>. QED  BY <2>1, FailSpells
<1>4. CASE ReadPair \/ PairValue \/ ItemValue  BY <1>4, LoopSpells
<1>5. CASE EndContainer  BY <1>5, EndStepSpells
<1>6. CASE Succeed
  <2>1. pc = "success" /\ pc # "returned" /\ InputOK  BY <1>6 DEF Succeed, IInv, PlaceInv
  <2>2. CASE NoMemory("none")  BY <2>1, <2>2, GivesUpSpells
  <2>3. CASE /\ pc' = "returned" /\ out' = SubSeq(out, 1, Len(out) - 1)
             /\ UNCHANGED input
    <3>1. PICK w : w = Whole(1, root)  OBVIOUS
    <3>2. w \in Texts
      <4>1. Below(1) + 1 = MaxRecursion /\ MaxRecursion \in 0 .. MaxRecursion
        BY MaxRecursionAssumption DEF Below
      <4>2. TextsOK(Text[MaxRecursion])  BY <2>1, <4>1, TextType
      <4>3. root \in Objects  BY <2>1 DEF InputOK
      <4>. QED  BY <3>1, <4>1, <4>2, <4>3 DEF Whole, TextsOK
    <3>3. "comma" \in Toks  BY DEF Toks, Marks
    <3>4. out = w \o <<"comma">>  BY <2>1, <3>1 DEF SpellInv
    <3>5. out' = w  BY <2>3, <3>2, <3>3, <3>4, TextLast
    <3>6. Whole(1, root)' = w  BY <2>3, <3>1, RootTextLater DEF input
    <3>7. pc' # "start" /\ ~Walking' /\ pc' # "success"  BY <2>3 DEF Walking
    <3>. QED  BY <3>5, <3>6, <3>7 DEF SpellInv
  <2>. QED  BY <1>6, <2>2, <2>3 DEF Succeed
<1>7. CASE ReturnFailure
  <2>1. pc' = "returned" /\ result' = "null"  BY <1>7 DEF ReturnFailure, FailureInv
  <2>. QED  BY <2>1, FailSpells
<1>8. CASE UNCHANGED vars
  <2>1. /\ pc' = pc /\ depth' = depth /\ cur' = cur /\ pos' = pos /\ stack' = stack /\ out' = out
        /\ graph' = graph /\ root' = root /\ result' = result
    BY <1>8 DEF vars, input, place, text, outcome
  <2>2. Whole(1, root)' = Whole(1, root)  BY <2>1, RootTextLater
  <2>3. Items(cur)' = Items(cur)  BY <2>1 DEF Items
  <2>4. Walking' = Walking  BY <2>1 DEF Walking
  <2>5. Walking => Reached(pc, depth, cur, pos, stack, out)'
    <3>1. SUFFICES ASSUME Walking PROVE Reached(pc, depth, cur, pos, stack, out)'  OBVIOUS
    <3>2. Reached(pc, depth, cur, pos, stack, out)  BY <3>1 DEF SpellInv
    <3>3. Reached(pc', depth', cur', pos', stack', out')  BY <2>1, <3>2
    <3>. QED  BY <2>1, <3>3, ReachedLater
  <2>. QED  BY <2>1, <2>2, <2>3, <2>4, <2>5 DEF SpellInv
<1>. QED
  BY <1>1, <1>2, <1>3, <1>4, <1>5, <1>6, <1>7, <1>8 DEF Next, Step, Returned

LEMMA FailureInvariant == Spec => []FailureInv
<1>1. Init => FailureInv  BY DEF Init, FailureInv
<1>. QED  BY <1>1, FailureStep, PTL DEF Spec

\* Whatever the graph is, circular or shared, what is written so far begins
\* the text of the root, and what is returned is that text: no item is left
\* out, written twice, or put in another container than its own.
THEOREM TextCorrect == Spec => []TextSoFar
<1>1. Init => SpellInv  BY DEF Init, SpellInv, Walking
<1>2. IInv /\ FailureInv /\ SpellInv /\ [Next]_vars => SpellInv'  BY SpellStep
<1>3. Spec => []SpellInv  BY <1>1, <1>2, Invariant, FailureInvariant, PTL DEF Spec
<1>4. IInv /\ SpellInv => TextSoFar  BY SpellsSoFar DEF IInv
<1>. QED  BY <1>3, <1>4, Invariant, PTL
-----------------------------------------------------------------------------
(* Which objects have a text.                                              *)

\* Item i of a container at depth d can be written.
GoodItem(d, o, i) == GoodKey(o, i) /\ Items(o)[i].val \in Good[Below(d)]
\* So can the items in front of item n.
Done(d, o, n) == \A i \in 1 .. Len(Items(o)) : i < n => GoodItem(d, o, i)

LEMMA GoodContainer ==
  ASSUME NEW d, NEW o, Open(d, o)
  PROVE  o \in Good[Below(d) + 1] <=> \A i \in 1 .. Len(Items(o)) : GoodItem(d, o, i)
<1>1. o \in Containers /\ o \in Objects /\ Items(o) # <<>>  BY DEF Open, Containers
<1>2. PICK n : n = Below(d)  OBVIOUS
<1>3. n + 1 \in 0 .. MaxRecursion /\ n + 1 # 0 /\ (n + 1) - 1 = n
  BY <1>2, MaxRecursionAssumption DEF Below, Open
<1>4. Good[n + 1] = GoodBody(n + 1, Good[n])  BY <1>3, GoodIs
<1>5. o \in Good[n + 1] <=>
        \A i \in 1 .. Len(Items(o)) : GoodKey(o, i) /\ Items(o)[i].val \in Good[n]
  BY <1>1, <1>3, <1>4 DEF GoodBody
<1>. QED  BY <1>2, <1>5 DEF GoodItem

LEMMA GoodValue ==
  ASSUME NEW n \in 0 .. MaxRecursion, NEW v \in Objects
  PROVE  /\ v \notin Containers => (v \in Good[n] <=> GoodLeaf(v))
         /\ v \in Containers /\ Items(v) = <<>> => v \in Good[n]
         /\ v \in Containers /\ Items(v) # <<>> /\ n = 0 => v \notin Good[n]
<1>1. Good[n] = GoodBody(n, Good[n - 1])  BY GoodIs
<1>. QED  BY <1>1 DEF GoodBody

LEMMA GoodStays ==
  ASSUME graph' = graph, bytes' = bytes
  PROVE  /\ Good' = Good
         /\ \A o, i : GoodKey(o, i)' = GoodKey(o, i)
         /\ \A d, o, n : Done(d, o, n)' = Done(d, o, n)
<1>1. Good' = Good  BY DEF Good, GoodLeaf, GoodKey, Items
<1>2. \A o, i : GoodKey(o, i)' = GoodKey(o, i)  BY DEF GoodKey, GoodLeaf, Items
<1>3. \A d, o, n : Done(d, o, n)' = Done(d, o, n)
  BY <1>1, <1>2 DEF Done, GoodItem, Items, Below
<1>. QED  BY <1>1, <1>2, <1>3

\* What was passed on the way to position p of container o is good.
GoodPath(l, n, o, p, st) ==
  /\ \A d \in 1 .. n - 1 : Done(d, st[d].ctn, st[d].index) /\ GoodKey(st[d].ctn, st[d].index)
  /\ l = "dict_key_done" => Done(n, o, p) /\ GoodKey(o, p)
  /\ l # "dict_key_done" => Done(n, o, p + 1)

LEMMA GoodPathLater ==
  ASSUME graph' = graph, bytes' = bytes, GoodPath(pc', depth', cur', pos', stack')
  PROVE  GoodPath(pc, depth, cur, pos, stack)'
<1>1. /\ \A o, i : GoodKey(o, i)' = GoodKey(o, i)
      /\ \A d, o, n : Done(d, o, n)' = Done(d, o, n)
  BY GoodStays
<1>2. PICK l, n, o, p, st : l = pc' /\ n = depth' /\ o = cur' /\ p = pos' /\ st = stack'  OBVIOUS
<1>3. GoodPath(l, n, o, p, st)  BY <1>2
<1>4. GoodPath(l, n, o, p, st)'  BY <1>1, <1>3 DEF GoodPath
<1>. QED  BY <1>2, <1>4 DEF GoodPath

\* Inductive with IInv, FailureInv and SpellInv.
GoodInv ==
  /\ Walking => GoodPath(pc, depth, cur, pos, stack)
  /\ pc = "success" => root \in Good[MaxRecursion]
  /\ pc = "fail" /\ ~oom => root \notin Good[MaxRecursion]
  /\ ReturnsForGood

\* A good root has good containers all along the path.
LEMMA PathGood ==
  ASSUME PlaceInv, Walking, Items(cur) # <<>>, root \in Good[MaxRecursion]
  PROVE  cur \in Good[Below(depth) + 1]
<1>0. depth \in Nat /\ depth \in 1 .. depth /\ At(depth) = cur  BY PathOpen
<1>. DEFINE Bad == {d \in 1 .. depth : At(d) \notin Good[Below(d) + 1]}
<1>1. SUFFICES ASSUME Bad # {} PROVE FALSE  BY <1>0
<1>2. PICK m \in Bad : \A j \in Bad : m <= j
  <2>1. Bad \in SUBSET Nat  BY <1>0
  <2>. QED  BY <1>1, <2>1, Least
<1>3. m # 1
  <2>1. Below(1) + 1 = MaxRecursion  BY MaxRecursionAssumption DEF Below
  <2>2. At(1) = root  BY PathOpen
  <2>. QED  BY <1>2, <2>1, <2>2
<1>4. PICK d \in 1 .. depth - 1 : d = m - 1 /\ m = d + 1 /\ d \in 1 .. depth /\ ~ (m <= d)
  <2>1. m \in 1 .. depth /\ depth \in Nat  BY <1>0, <1>2
  <2>. QED  BY <1>3, <2>1
<1>5. At(d) \in Good[Below(d) + 1]  BY <1>2, <1>4
<1>6. /\ Open(d, At(d)) /\ stack[d].index \in 1 .. Len(Items(At(d)))
      /\ Items(At(d))[stack[d].index].val = At(m)
  BY <1>4, PathOpen
<1>7. At(m) \in Good[Below(d)]
  <2>1. GoodItem(d, At(d), stack[d].index)  BY <1>5, <1>6, GoodContainer
  <2>. QED  BY <1>6, <2>1 DEF GoodItem
<1>8. Below(d) = Below(m) + 1
  <2>1. d \in Nat /\ m \in Nat  BY <1>0, <1>4
  <2>. QED  BY <1>4, <2>1, MaxRecursionAssumption DEF Below
<1>. QED  BY <1>2, <1>7, <1>8

\* An item that cannot be written makes the call fail rightly.
LEMMA BadItem ==
  ASSUME PlaceInv, Walking, Items(cur) # <<>>, NEW i \in 1 .. Len(Items(cur)),
         ~ GoodItem(depth, cur, i)
  PROVE  root \notin Good[MaxRecursion]
<1>1. Open(depth, cur)  BY AtItem
<1>2. cur \notin Good[Below(depth) + 1]  BY <1>1, GoodContainer
<1>. QED  BY <1>2, PathGood

LEMMA WalkingGood ==
  ASSUME Walking', graph' = graph, bytes' = bytes,
         GoodPath(pc', depth', cur', pos', stack')
  PROVE  GoodInv'
<1>1. GoodPath(pc, depth, cur, pos, stack)'  BY GoodPathLater
<1>2. pc' # "success" /\ pc' # "fail" /\ pc' # "returned"  BY DEF Walking
<1>. QED  BY <1>1, <1>2 DEF GoodInv, ReturnsForGood

LEMMA NoMemoryGood == ASSUME NEW e, NoMemory(e) PROVE GoodInv'
<1>1. pc' = "fail" /\ oom' /\ ~Walking'  BY DEF NoMemory, Walking
<1>. QED  BY <1>1 DEF GoodInv, ReturnsForGood

LEMMA FailGood == ASSUME NEW e, Fail(e), root \notin Good[MaxRecursion] PROVE GoodInv'
<1>1. pc' = "fail" /\ ~Walking' /\ root' = root /\ graph' = graph /\ bytes' = bytes
  BY DEF Fail, Walking, input
<1>2. Good' = Good  BY <1>1, GoodStays
<1>3. root' \notin Good'[MaxRecursion]  BY <1>1, <1>2
<1>. QED  BY <1>1, <1>3 DEF GoodInv, ReturnsForGood

\* The item in hand, and what was passed.
LEMMA AtGoodItem ==
  ASSUME PlaceInv, GoodInv, Walking, NEW i, AtItemOf(i)
  PROVE  /\ \A d \in 1 .. depth - 1 :
              Done(d, stack[d].ctn, stack[d].index) /\ GoodKey(stack[d].ctn, stack[d].index)
         /\ Done(depth, cur, i) /\ GoodKey(cur, i)
<1>1. GoodPath(pc, depth, cur, pos, stack)  BY DEF GoodInv
<1>2. CASE pc = "dict_key_done"  BY <1>1, <1>2 DEF GoodPath, AtItemOf
<1>3. CASE pc = "arr_val_begin"
  <2>1. Kind[cur] # "dict"  BY <1>3 DEF PlaceInv, InHand
  <2>2. GoodKey(cur, i)  BY <2>1 DEF GoodKey
  <2>. QED  BY <1>1, <1>3, <2>2 DEF GoodPath, AtItemOf
<1>. QED  BY <1>2, <1>3 DEF AtItemOf

\* One more item is done.
LEMMA OneMoreDone ==
  ASSUME InputOK, NEW d, NEW o, Open(d, o), NEW i \in 1 .. Len(Items(o)),
         Done(d, o, i), GoodItem(d, o, i)
  PROVE  Done(d, o, i + 1)
<1>1. Len(Items(o)) \in Nat  BY OpenText
<1>2. ASSUME NEW j \in 1 .. Len(Items(o)), j < i + 1 PROVE GoodItem(d, o, j)
  <2>1. CASE j = i  BY <2>1
  <2>2. CASE j # i
    <3>1. j < i  BY <1>1, <1>2, <2>2
    <3>. QED  BY <3>1 DEF Done
  <2>. QED  BY <2>1, <2>2
<1>. QED  BY <1>2 DEF Done

LEMMA ValueGood ==
  ASSUME PlaceInv, SpellInv, GoodInv, Walking, graph' = graph, bytes' = bytes,
         NEW i, AtItemOf(i), NEW v, v = Items(cur)[i].val, ProcessValue(v, i)
  PROVE  GoodInv'
<1>1. Items(cur) # <<>>  BY DEF SpellInv
<1>2. /\ InputOK /\ Open(depth, cur) /\ i \in 1 .. Len(Items(cur)) /\ Len(Items(cur)) \in Nat
      /\ v \in Objects
  BY <1>1, AtItem, ValueText DEF AtItemOf
<1>3. /\ \A d \in 1 .. depth - 1 :
           Done(d, stack[d].ctn, stack[d].index) /\ GoodKey(stack[d].ctn, stack[d].index)
      /\ Done(depth, cur, i) /\ GoodKey(cur, i)
  BY AtGoodItem
<1>4. Below(depth) \in 0 .. MaxRecursion
  BY <1>2, MaxRecursionAssumption DEF Below, Open
<1>5. CASE (ValueStr(v) \/ ValueAtom(v) \/ ValueEmpty(v)) /\ pos' = i
  <2>1. v \in Good[Below(depth)]
    <3>1. CASE ValueStr(v) \/ ValueAtom(v)
      <4>1. v \notin Containers  BY <3>1 DEF ValueStr, ValueAtom, Containers
      <4>2. GoodLeaf(v)
        <5>1. Kind[v] = "atom" => v \notin Lone  BY ObjectsAssumption DEF Strs
        <5>. QED  BY <3>1, <5>1 DEF ValueStr, ValueAtom, GoodLeaf
      <4>. QED  BY <1>2, <1>4, <4>1, <4>2, GoodValue
    <3>2. CASE ValueEmpty(v)  BY <1>2, <1>4, <3>2, GoodValue DEF ValueEmpty
    <3>. QED  BY <1>5, <3>1, <3>2
  <2>2. GoodItem(depth, cur, i)  BY <1>3, <2>1 DEF GoodItem
  <2>3. Done(depth, cur, i + 1)  BY <1>2, <1>3, <2>2, OneMoreDone
  <2>4. pc' = LabelOf(cur) /\ UNCHANGED <<depth, stack, cur>>
    BY <1>5 DEF ValueStr, ValueAtom, ValueEmpty
  <2>5. GoodPath(pc', depth, cur, i, stack)
    <3>1. pc' # "dict_key_done"  BY <2>4, LabelWalks
    <3>. QED  BY <1>3, <2>3, <3>1 DEF GoodPath
  <2>6. Walking'  BY <2>4, LabelWalks DEF Walking
  <2>. QED  BY <1>5, <2>4, <2>5, <2>6, WalkingGood
<1>6. CASE /\ v \in Containers /\ Items(v) # <<>> /\ ~AtLimit
           /\ Write(<<Opening(v)>>) /\ Push(v, i) /\ pos' = 0
  <2>1. PICK n : n = depth + 1  OBVIOUS
  <2>2. depth \in Nat /\ depth \in Slots /\ n - 1 = depth
    BY <1>2, <2>1, MaxRecursionAssumption DEF Open, Slots
  <2>3. /\ depth' = n /\ cur' = v /\ pc' = LabelOf(v)
        /\ stack' = [stack EXCEPT ![depth] = [ctn |-> cur, index |-> i]]
    BY <1>6, <2>1 DEF Push, Enter
  <2>4. stack'[depth].ctn = cur /\ stack'[depth].index = i
        /\ \A d \in 1 .. depth - 1 : stack'[d] = stack[d]
    <3>1. stack \in [Slots -> [ctn : Objects \union {None}, index : Nat]]  BY DEF PlaceInv, WalkOK
    <3>2. \A d \in 1 .. depth - 1 : d \in Slots /\ d # depth
      BY <2>2, MaxRecursionAssumption DEF Slots
    <3>. QED  BY <2>2, <2>3, <3>1, <3>2
  <2>5. ASSUME NEW d \in 1 .. n - 1
        PROVE  /\ Done(d, stack'[d].ctn, stack'[d].index)
               /\ GoodKey(stack'[d].ctn, stack'[d].index)
    <3>1. CASE d = depth  BY <1>3, <2>4, <3>1
    <3>2. CASE d # depth
      <4>1. d \in 1 .. depth - 1  BY <2>2, <3>2
      <4>. QED  BY <1>3, <2>4, <4>1
    <3>. QED  BY <3>1, <3>2
  <2>6. Done(n, v, 0 + 1)
    <3>1. \A j \in 1 .. Len(Items(v)) : ~ (j < 0 + 1)
      <4>1. \A j \in Nat : j >= 1 => ~ (j < 0 + 1)  OBVIOUS
      <4>2. Len(Items(v)) \in Nat  BY <1>2, <1>6, ItemsType
      <4>. QED  BY <4>1, <4>2
    <3>. QED  BY <3>1 DEF Done
  <2>7. GoodPath(pc', n, v, 0, stack')
    <3>1. pc' # "dict_key_done"  BY <2>3, LabelWalks
    <3>. QED  BY <2>5, <2>6, <3>1 DEF GoodPath
  <2>8. Walking'  BY <2>3, LabelWalks DEF Walking
  <2>. QED  BY <1>6, <2>3, <2>7, <2>8, WalkingGood
<1>. QED  BY <1>5, <1>6 DEF ProcessValue

LEMMA RejectGood ==
  ASSUME PlaceInv, SpellInv, Walking, NEW i, AtItemOf(i),
         NEW v, v = Items(cur)[i].val, RejectValue(v)
  PROVE  GoodInv'
<1>1. Items(cur) # <<>>  BY DEF SpellInv
<1>2. InputOK /\ Open(depth, cur) /\ i \in 1 .. Len(Items(cur)) /\ v \in Objects
  BY <1>1, AtItem, ValueText DEF AtItemOf
<1>3. Below(depth) \in 0 .. MaxRecursion
  BY <1>2, MaxRecursionAssumption DEF Below, Open
<1>4. v \notin Good[Below(depth)]
  <2>1. CASE Kind[v] = "huge" \/ Kind[v] = "other" \/ (bytes /\ v \in Lone)
    <3>1. v \notin Containers /\ ~GoodLeaf(v)
      BY <2>1, ObjectsAssumption DEF Containers, GoodLeaf, Strs
    <3>. QED  BY <1>2, <1>3, <3>1, GoodValue
  <2>2. CASE TooDeep(v)
    <3>1. Below(depth) = 0  BY <1>2, <2>2, MaxRecursionAssumption DEF TooDeep, AtLimit, Below, Open
    <3>. QED  BY <1>2, <1>3, <2>2, <3>1, GoodValue DEF TooDeep
  <2>. QED  BY <2>1, <2>2 DEF RejectValue
<1>5. ~GoodItem(depth, cur, i)  BY <1>4 DEF GoodItem
<1>6. root \notin Good[MaxRecursion]  BY <1>1, <1>2, <1>5, BadItem
<1>. QED  BY <1>6, FailGood DEF RejectValue

LEMMA StartGood ==
  ASSUME IInv, FailureInv, StartEmpty \/ StartContainer \/ StartSingle \/ SingleFails
  PROVE  GoodInv'
<1>1. result = "null" /\ root \in Objects /\ pc # "returned" /\ InputOK
  BY DEF StartEmpty, StartContainer, StartSingle, SingleFails, FailureInv, IInv, PlaceInv,
         InputOK
<1>2. graph' = graph /\ root' = root /\ bytes' = bytes
  BY DEF StartEmpty, StartContainer, StartSingle, SingleFails, input
<1>3. Good' = Good  BY <1>2, GoodStays
<1>4. MaxRecursion \in 0 .. MaxRecursion  BY MaxRecursionAssumption
<1>5. CASE StartEmpty
  <2>1. root \in Good[MaxRecursion]  BY <1>1, <1>4, <1>5, GoodValue DEF StartEmpty
  <2>2. root' \in Good'[MaxRecursion]  BY <1>2, <1>3, <2>1
  <2>3. pc' = "success" /\ ~Walking'  BY <1>5 DEF StartEmpty, Walking
  <2>. QED  BY <2>2, <2>3 DEF GoodInv, ReturnsForGood
<1>6. CASE StartContainer
  <2>1. /\ root \in Containers /\ Items(root) # <<>> /\ depth' = 1
        /\ pc' = LabelOf(root) /\ cur' = root /\ pos' = 0
    BY <1>6 DEF StartContainer, Enter, IInv, PlaceInv, InHand
  <2>2. Done(1, root, 0 + 1)
    <3>1. \A j \in 1 .. Len(Items(root)) : ~ (j < 0 + 1)
      <4>1. \A j \in Nat : j >= 1 => ~ (j < 0 + 1)  OBVIOUS
      <4>2. Len(Items(root)) \in Nat  BY <1>1, <2>1, ItemsType
      <4>. QED  BY <4>1, <4>2
    <3>. QED  BY <3>1 DEF Done
  <2>3. GoodPath(pc', 1, root, 0, stack')
    <3>1. pc' # "dict_key_done"  BY <2>1, LabelWalks
    <3>2. 1 .. 1 - 1 = {}  OBVIOUS
    <3>. QED  BY <2>2, <3>1, <3>2 DEF GoodPath
  <2>4. Walking'  BY <2>1, LabelWalks DEF Walking
  <2>. QED  BY <1>2, <2>1, <2>3, <2>4, WalkingGood
<1>7. CASE StartSingle
  <2>1. root \in Good[MaxRecursion] <=> GoodLeaf(root)
    BY <1>1, <1>4, <1>7, GoodValue DEF StartSingle
  <2>2. result' = "text" <=> GoodLeaf(root)
    <3>1. root \in Lone => Kind[root] = "str"  BY ObjectsAssumption DEF Strs
    <3>2. CASE Kind[root] = "other" \/ Kind[root] = "huge" \/ (bytes /\ root \in Lone)
      <4>1. ~GoodLeaf(root)  BY <3>2 DEF GoodLeaf
      <4>2. result' = "null"  BY <1>1, <1>7, <3>1, <3>2 DEF StartSingle
      <4>. QED  BY <4>1, <4>2
    <3>3. CASE Kind[root] = "atom" \/ (Kind[root] = "str" /\ ~(bytes /\ root \in Lone))
      <4>1. GoodLeaf(root)  BY <3>1, <3>3 DEF GoodLeaf
      <4>2. result' = "text"  BY <1>1, <1>7, <3>1, <3>3 DEF StartSingle
      <4>. QED  BY <4>1, <4>2
    <3>. QED  BY <1>7, <3>2, <3>3 DEF StartSingle
  <2>3. pc' = "returned" /\ ~Walking'  BY <1>7 DEF StartSingle, Walking
  <2>4. root' \in Good'[MaxRecursion] <=> result' = "text"  BY <1>2, <1>3, <2>1, <2>2
  <2>. QED  BY <2>3, <2>4 DEF GoodInv, ReturnsForGood
<1>8. CASE SingleFails
  <2>1. pc' = "returned" /\ oom' /\ ~Walking'  BY <1>8 DEF SingleFails, Walking
  <2>. QED  BY <2>1 DEF GoodInv, ReturnsForGood
<1>. QED  BY <1>5, <1>6, <1>7, <1>8

LEMMA KeyGood ==
  ASSUME PlaceInv, SpellInv, GoodInv, ReadPair PROVE GoodInv'
<1>1. Walking /\ pc = "dict_pair_begin" /\ pos < Len(Items(cur))  BY DEF ReadPair, Walking
<1>2. Items(cur) # <<>> /\ GoodPath(pc, depth, cur, pos, stack)
  BY <1>1 DEF SpellInv, GoodInv
<1>3. PICK i, k : i = pos + 1 /\ k = Items(cur)[i].key  OBVIOUS
<1>4. i \in 1 .. Len(Items(cur)) /\ Kind[cur] = "dict"
  <2>1. Len(Items(cur)) \in Nat /\ pos \in Nat  BY <1>1, <1>2, AtItem
  <2>. QED  BY <1>1, <1>3, <2>1 DEF PlaceInv, InHand
<1>5. CASE NoMemory("none")  BY <1>5, NoMemoryGood
<1>6. CASE (Kind[k] # "str" \/ (bytes /\ k \in Lone)) /\ Fail("JSONEncodeError")
  <2>1. ~GoodKey(cur, i)  BY <1>3, <1>4, <1>6 DEF GoodKey, GoodLeaf
  <2>2. root \notin Good[MaxRecursion]
    BY <1>1, <1>2, <1>4, <2>1, BadItem DEF GoodItem
  <2>. QED  BY <1>6, <2>2, FailGood
<1>7. CASE /\ Kind[k] = "str" /\ ~(bytes /\ k \in Lone)
           /\ pos' = pos + 1 /\ pc' = "dict_key_done"
           /\ UNCHANGED <<input, cur, depth, stack>>
  <2>1. GoodKey(cur, i)  BY <1>3, <1>7 DEF GoodKey, GoodLeaf
  <2>2. Done(depth, cur, i)  BY <1>1, <1>2, <1>3 DEF GoodPath
  <2>3. \A d \in 1 .. depth - 1 :
          Done(d, stack[d].ctn, stack[d].index) /\ GoodKey(stack[d].ctn, stack[d].index)
    BY <1>2 DEF GoodPath
  <2>4. GoodPath(pc', depth, cur, i, stack)  BY <1>7, <2>1, <2>2, <2>3 DEF GoodPath
  <2>5. Walking'  BY <1>7 DEF Walking
  <2>6. graph' = graph /\ bytes' = bytes  BY <1>7 DEF input
  <2>. QED  BY <1>3, <1>7, <2>4, <2>5, <2>6, WalkingGood
<1>. QED  BY <1>3, <1>5, <1>6, <1>7 DEF ReadPair

LEMMA ItemsGood ==
  ASSUME PlaceInv, SpellInv, GoodInv, PairValue \/ ItemValue PROVE GoodInv'
<1>1. Walking  BY DEF PairValue, ItemValue, Walking
<1>2. Items(cur) # <<>>  BY <1>1 DEF SpellInv
<1>3. /\ Len(Items(cur)) \in Nat /\ pos \in Nat
      /\ pc = "dict_key_done" => pos \in 1 .. Len(Items(cur))
  BY <1>1, <1>2, AtItem
<1>4. ASSUME NEW i, NEW v, AtItemOf(i), v = Items(cur)[i].val,
             ProcessValue(v, i) \/ RejectValue(v) \/ ValueFails(v)
      PROVE  GoodInv'
  <2>1. CASE ProcessValue(v, i)
    <3>1. graph' = graph /\ bytes' = bytes  BY <2>1 DEF ProcessValue, input
    <3>. QED  BY <1>1, <1>4, <2>1, <3>1, ValueGood
  <2>2. CASE RejectValue(v)  BY <1>1, <1>4, <2>2, RejectGood
  <2>3. CASE ValueFails(v)  BY <2>3, NoMemoryGood DEF ValueFails
  <2>. QED  BY <1>4, <2>1, <2>2, <2>3
<1>5. CASE PairValue
  <2>1. AtItemOf(pos)  BY <1>3, <1>5 DEF PairValue, AtItemOf
  <2>2. val = Items(cur)[pos].val  BY <1>1, <1>5 DEF PairValue, PlaceInv, InHand
  <2>. QED  BY <1>4, <1>5, <2>1, <2>2 DEF PairValue
<1>6. CASE ItemValue
  <2>1. PICK i : i = pos + 1  OBVIOUS
  <2>2. AtItemOf(i)
    <3>1. pc = "arr_val_begin" /\ pos < Len(Items(cur))
      BY <1>1, <1>6 DEF ItemValue, PlaceInv, ListInHand
    <3>. QED  BY <1>3, <2>1, <3>1 DEF AtItemOf
  <2>. QED  BY <1>4, <1>6, <2>1, <2>2 DEF ItemValue
<1>. QED  BY <1>5, <1>6

LEMMA EndGood ==
  ASSUME PlaceInv, SpellInv, GoodInv, EndContainer PROVE GoodInv'
<1>1. Walking /\ pc # "dict_key_done"  BY DEF EndContainer, Walking
<1>2. CASE NoMemory("none")  BY <1>2, NoMemoryGood
<1>3. CASE ~NoMemory("none")
  <2>1. /\ graph' = graph /\ root' = root /\ bytes' = bytes /\ stack' = stack
        /\ depth' = depth - 1
        /\ IF depth = 1 THEN pc' = "success" ELSE Resume(stack[depth - 1])
    BY <1>3 DEF EndContainer, input
  <2>2. Items(cur) # <<>> /\ GoodPath(pc, depth, cur, pos, stack)
    BY <1>1 DEF SpellInv, GoodInv
  <2>3. Len(Items(cur)) \in Nat /\ pos \in Nat /\ Open(depth, cur) /\ InputOK
    BY <1>1, <2>2, AtItem
  <2>4. pos >= Len(Items(cur))  BY <1>1 DEF EndContainer, PlaceInv, ListInHand
  <2>5. cur \in Good[Below(depth) + 1]
    <3>1. Done(depth, cur, pos + 1)  BY <1>1, <2>2 DEF GoodPath
    <3>2. \A j \in 1 .. Len(Items(cur)) : j < pos + 1  BY <2>3, <2>4
    <3>3. \A j \in 1 .. Len(Items(cur)) : GoodItem(depth, cur, j)  BY <3>1, <3>2 DEF Done
    <3>. QED  BY <2>3, <3>3, GoodContainer
  <2>6. CASE depth = 1
    <3>1. Below(1) + 1 = MaxRecursion  BY MaxRecursionAssumption DEF Below
    <3>2. root = cur  BY <1>1, <2>2, <2>6, PathOpen
    <3>3. root \in Good[MaxRecursion]  BY <2>5, <2>6, <3>1, <3>2
    <3>4. root' \in Good'[MaxRecursion]  BY <2>1, <3>3, GoodStays
    <3>5. pc' = "success" /\ ~Walking'  BY <2>1, <2>6 DEF Walking
    <3>. QED  BY <3>4, <3>5 DEF GoodInv, ReturnsForGood
  <2>7. CASE depth # 1
    <3>1. PICK n : n = depth - 1  OBVIOUS
    <3>2. n \in 1 .. depth - 1 /\ n + 1 = depth /\ n \in Nat /\ depth \in Nat
      <4>1. depth \in Nat \ {0}  BY <1>1, <2>2, PathOpen
      <4>. QED  BY <2>7, <3>1, <4>1
    <3>3. PICK o, j : o = stack[n].ctn /\ j = stack[n].index  OBVIOUS
    <3>4. Open(n, o) /\ j \in 1 .. Len(Items(o)) /\ Items(o)[j].val = cur
      <4>1. At(depth) = cur  BY <1>1, <2>2, PathOpen
      <4>2. /\ n \in 1 .. depth /\ stack[n].ctn = At(n)
            /\ stack[n].index \in 1 .. Len(Items(At(n)))
            /\ Items(At(n))[stack[n].index].val = At(n + 1)
        BY <1>1, <2>2, <3>2, PathOpen
      <4>3. Open(n, At(n))  BY <1>1, <2>2, <4>2, PathOpen
      <4>. QED  BY <3>2, <3>3, <4>1, <4>2, <4>3
    <3>5. Done(n, o, j) /\ GoodKey(o, j)  BY <2>2, <3>2, <3>3 DEF GoodPath
    <3>6. Below(n) = Below(depth) + 1  BY <3>1, <3>2, MaxRecursionAssumption DEF Below
    <3>7. GoodItem(n, o, j)  BY <2>5, <3>4, <3>5, <3>6 DEF GoodItem
    <3>8. Done(n, o, j + 1)  BY <2>3, <3>4, <3>5, <3>7, OneMoreDone
    <3>9. pc' = LabelOf(o) /\ cur' = o /\ pos' = j /\ depth' = n
      BY <2>1, <2>7, <3>1, <3>3 DEF Resume, Enter
    <3>10. GoodPath(pc', n, o, j, stack)
      <4>1. pc' # "dict_key_done"  BY <3>9, LabelWalks
      <4>2. \A d \in 1 .. n - 1 : d \in 1 .. depth - 1  BY <3>1, <3>2
      <4>. QED  BY <2>2, <3>8, <4>1, <4>2 DEF GoodPath
    <3>11. Walking'  BY <3>9, LabelWalks DEF Walking
    <3>. QED  BY <2>1, <3>9, <3>10, <3>11, WalkingGood
  <2>. QED  BY <2>6, <2>7
<1>. QED  BY <1>2, <1>3

LEMMA GoodStep == ASSUME IInv, FailureInv, SpellInv, GoodInv, [Next]_vars PROVE GoodInv'
<1>0. PlaceInv  BY DEF IInv
<1>1. CASE InitFails  BY <1>1, NoMemoryGood DEF InitFails
<1>2. CASE StartEmpty \/ StartContainer \/ StartSingle \/ SingleFails  BY <1>2, StartGood
<1>3. CASE ReadPair  BY <1>0, <1>3, KeyGood
<1>4. CASE PairValue \/ ItemValue  BY <1>0, <1>4, ItemsGood
<1>5. CASE EndContainer  BY <1>0, <1>5, EndGood
<1>6. CASE Succeed
  <2>1. CASE NoMemory("none")  BY <2>1, NoMemoryGood
  <2>2. CASE pc' = "returned" /\ result' = "text" /\ UNCHANGED input
    <3>1. root \in Good[MaxRecursion]  BY <1>6 DEF Succeed, GoodInv
    <3>2. root' \in Good'[MaxRecursion]  BY <2>2, <3>1, GoodStays DEF input
    <3>3. ~Walking'  BY <2>2 DEF Walking
    <3>. QED  BY <2>2, <3>2, <3>3 DEF GoodInv, ReturnsForGood
  <2>. QED  BY <1>6, <2>1, <2>2 DEF Succeed
<1>7. CASE ReturnFailure
  <2>1. pc' = "returned" /\ result' = "null" /\ oom' = oom /\ UNCHANGED input
    BY <1>7 DEF ReturnFailure, FailureInv
  <2>2. ~oom => root \notin Good[MaxRecursion]  BY <1>7 DEF ReturnFailure, GoodInv
  <2>3. ~oom' => root' \notin Good'[MaxRecursion]  BY <2>1, <2>2, GoodStays DEF input
  <2>4. ~Walking'  BY <2>1 DEF Walking
  <2>. QED  BY <2>1, <2>3, <2>4 DEF GoodInv, ReturnsForGood
<1>8. CASE UNCHANGED vars
  <2>1. /\ pc' = pc /\ depth' = depth /\ cur' = cur /\ pos' = pos /\ stack' = stack
        /\ graph' = graph /\ root' = root /\ bytes' = bytes /\ result' = result /\ oom' = oom
    BY <1>8 DEF vars, input, place, outcome
  <2>2. Good' = Good  BY <2>1, GoodStays
  <2>3. Walking' = Walking  BY <2>1 DEF Walking
  <2>4. Walking => GoodPath(pc, depth, cur, pos, stack)'
    <3>1. SUFFICES ASSUME Walking PROVE GoodPath(pc, depth, cur, pos, stack)'  OBVIOUS
    <3>2. GoodPath(pc', depth', cur', pos', stack')  BY <2>1, <3>1 DEF GoodInv
    <3>. QED  BY <2>1, <3>2, GoodPathLater
  <2>5. ReturnsForGood'  BY <2>1, <2>2 DEF GoodInv, ReturnsForGood
  <2>. QED  BY <2>1, <2>2, <2>3, <2>4, <2>5 DEF GoodInv
<1>. QED
  BY <1>1, <1>2, <1>3, <1>4, <1>5, <1>6, <1>7, <1>8 DEF Next, Step, Returned

\* For every graph and every limit: while no allocation fails, a call returns
\* a text exactly for an object that is supported all the way down and nests
\* within the limit.  A circular object is no such object.
THEOREM ReturnsExactlyGood == Spec => []ReturnsForGood
<1>1. Init => SpellInv /\ GoodInv
  BY DEF Init, SpellInv, GoodInv, ReturnsForGood, Walking
<1>2. IInv /\ FailureInv /\ SpellInv /\ [Next]_vars => SpellInv'  BY SpellStep
<1>3. IInv /\ FailureInv /\ SpellInv /\ GoodInv /\ [Next]_vars => GoodInv'  BY GoodStep
<1>4. GoodInv => ReturnsForGood  BY DEF GoodInv
<1>. QED  BY <1>1, <1>2, <1>3, <1>4, Invariant, FailureInvariant, PTL DEF Spec
===============================================================================
