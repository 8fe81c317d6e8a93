-------------------------- MODULE DecodeStackProofs --------------------------
(***************************************************************************)
(* Theorems of DecodeStack, for every depth limit, every initial capacity, *)
(* every set of tokens and documents of every length.                      *)
(***************************************************************************)
EXTENDS DecodeRefinement, SequenceTheorems, WellFoundedInduction, TLAPS

\* Inductive: popping a container stays inside the object stack because the
\* counts add up, and the counts add up because the label fits the container.
IInv == TypeOK /\ StackAccounting /\ LabelFitsContainer

Ctn == [arr : BOOLEAN, len : Nat]
Ref == [kind : Kinds, items : Seq(Nat)]

-----------------------------------------------------------------------------
(* The type invariant, in the parts that the operations share.             *)

ContainersOK == ctn \in Seq(Ctn) /\ Len(ctn) <= MaxDepth /\ base \in Seq(Nat)
StoreOK == /\ stack \in Seq(Nat) /\ cap \in Nat
           /\ Len(stack) <= cap /\ InitCap <= cap
           /\ blocks \subseteq {"string", "stack"}
ObjectsOK == heap \in Seq(Ref) /\ released \subseteq Nat /\ lost \subseteq Nat
CallOK == /\ strbuf \in {"uninit", "tls", "heap", "null"}
          /\ result \in Nat /\ wildFree \in BOOLEAN
ErrorOK == err \in {"none", "memory", "decode"} /\ oom \in BOOLEAN
InputOK == input \in Seq(Tokens)

LEMMA TypeParts ==
  TypeOK <=> /\ pc \in Labels
             /\ ContainersOK /\ StoreOK /\ ObjectsOK /\ CallOK /\ ErrorOK /\ InputOK
  BY DEF TypeOK, ContainersOK, StoreOK, ObjectsOK, CallOK, ErrorOK, InputOK, Ctn, Ref

LEMMA TypeParts2 ==
  TypeOK' <=> /\ pc' \in Labels
              /\ ContainersOK' /\ StoreOK' /\ ObjectsOK' /\ CallOK' /\ ErrorOK' /\ InputOK'
  BY DEF TypeOK, ContainersOK, StoreOK, ObjectsOK, CallOK, ErrorOK, InputOK, Ctn, Ref

\* Reading a token keeps the history of the input a sequence of tokens.
LEMMA ReadKeeps ==
  ASSUME InputOK, NEW t, Read(t)
  PROVE  InputOK'
  BY AppendProperties DEF InputOK, Read

\* A reference joins the history.
LEMMA NewRefKeeps ==
  ASSUME ObjectsOK, NEW kind \in Kinds, NEW items \in Seq(Nat), NewRef(kind, items)
  PROVE  heap' \in Seq(Ref) /\ FreshRef \in Nat
  <1>1. [kind |-> kind, items |-> items] \in Ref
    BY DEF Ref
  <1>2. QED
    BY <1>1, AppendProperties, LenProperties DEF ObjectsOK, NewRef, FreshRef

\* A push leaves the stack one higher, within its capacity.
LEMMA PushedKeeps ==
  ASSUME StoreOK, NEW s \in Seq(Nat), Len(s) <= cap, NEW ref \in Nat, Pushed(s, ref)
  PROVE  StoreOK' /\ Len(stack') = Len(s) + 1
  <1>1. /\ stack' \in Seq(Nat)
        /\ Len(stack') = Len(s) + 1
        /\ Len(s) \in Nat
    BY AppendProperties, LenProperties DEF Pushed
  <1>2. CASE Len(s) < cap /\ UNCHANGED <<cap, blocks>>
    BY <1>1, <1>2 DEF StoreOK
  <1>3. CASE Len(s) >= cap /\ cap' = 2 * cap /\ blocks' = blocks \union {"stack"}
    <2>1. cap >= 1
      BY SizeAssumption DEF StoreOK
    <2>2. QED
      BY <1>1, <1>3, <2>1, SizeAssumption DEF StoreOK
  <1>4. QED
    BY <1>2, <1>3 DEF Pushed

-----------------------------------------------------------------------------
(* The container stack.                                                    *)

\* Reading the container on top.
LEMMA TopType ==
  ASSUME ContainersOK, Depth > 0
  PROVE  /\ Depth \in Nat
         /\ Top \in Ctn
         /\ Top.arr \in BOOLEAN
         /\ Top.len \in Nat
         /\ CountedWidth \in Nat
         /\ CountedWidth = Width(Top.arr, Top.len)
  <1>1. Depth \in Nat /\ Depth \in 1 .. Len(ctn)
    BY LenProperties DEF ContainersOK, Depth
  <1>2. Top \in Ctn
    BY <1>1, ElementOfSeq DEF ContainersOK, Top
  <1>3. Top.arr \in BOOLEAN /\ Top.len \in Nat
    BY <1>2 DEF Ctn
  <1>4. CountedWidth \in Nat
    BY <1>3 DEF CountedWidth, Width
  <1>5. QED
    BY <1>1, <1>2, <1>3, <1>4 DEF CountedWidth

\* Counting one more entry changes the top count only.
LEMMA IncrementedProperties ==
  ASSUME NEW c \in Seq(Ctn), Len(c) > 0
  PROVE  /\ Incremented(c) \in Seq(Ctn)
         /\ Len(Incremented(c)) = Len(c)
         /\ \A d \in 1 .. Len(c) :
              /\ Incremented(c)[d].arr = c[d].arr
              /\ d # Len(c) => Incremented(c)[d] = c[d]
              /\ d = Len(c) => Incremented(c)[d].len = c[d].len + 1
  <1>1. Len(c) \in 1 .. Len(c) /\ c[Len(c)] \in Ctn
    BY ElementOfSeq, LenProperties
  <1> DEFINE e == [c[Len(c)] EXCEPT !.len = @ + 1]
  <1>2. e \in Ctn /\ e.arr = c[Len(c)].arr /\ e.len = c[Len(c)].len + 1
    BY <1>1 DEF Ctn
  <1>3. Incremented(c) = [c EXCEPT ![Len(c)] = e]
    BY DEF Incremented
  <1> HIDE DEF e
  <1>4. QED
    BY <1>1, <1>2, <1>3, ExceptSeq

\* Dropping the last entry of a sequence.
LEMMA OuterProperties ==
  ASSUME NEW S, NEW s \in Seq(S), Len(s) > 0
  PROVE  /\ Outer(s) \in Seq(S)
         /\ Len(Outer(s)) = Len(s) - 1
         /\ \A i \in 1 .. Len(s) - 1 : Outer(s)[i] = s[i]
  <1> DEFINE n == Len(s) - 1
  <1>1. n \in Nat /\ \A i \in 1 .. n : s[i] \in S
    BY ElementOfSeq, LenProperties
  <1> HIDE DEF n
  <1>2. /\ SubSeq(s, 1, n) \in Seq(S)
        /\ Len(SubSeq(s, 1, n)) = IF 1 <= n THEN n - 1 + 1 ELSE 0
        /\ \A i \in 1 .. n - 1 + 1 : SubSeq(s, 1, n)[i] = s[1 + i - 1]
    BY <1>1, SubSeqProperties
  <1>3. Len(SubSeq(s, 1, n)) = n /\ \A i \in 1 .. n : SubSeq(s, 1, n)[i] = s[i]
    BY <1>1, <1>2
  <1>4. QED
    BY <1>2, <1>3 DEF Outer, n

\* Where control goes on after a value.
LEMMA ValueEndLabel ==
  ASSUME NEW c \in Seq(Ctn), Len(c) > 0
  PROVE  /\ ValueEnd(c) \in {"arr_val_end", "obj_val_end"}
         /\ ValueEnd(c) = "arr_val_end" <=> c[Len(c)].arr
  BY ElementOfSeq, LenProperties DEF ValueEnd, Ctn

\* The entries of the innermost container are on the stack, none below its
\* base: the assert on list_val_start in pyyjson_decode_arr.
LEMMA EntriesOnStack ==
  ASSUME TypeOK, StackAccounting, Depth > 0, Parsing,
         ~KeyPending(Depth), ~NanPending(Depth)
  PROVE  /\ base[Depth] \in Nat
         /\ Len(stack) = base[Depth] + CountedWidth
  <1>1. Depth \in 1 .. Depth /\ Len(base) = Depth /\ base \in Seq(Nat)
    BY LenProperties DEF TypeOK, Depth, StackAccounting
  <1>2. base[Depth] \in Nat
    BY <1>1, ElementOfSeq
  <1>3. Above(Depth) = base[Depth] + Held(Depth)
    BY <1>1 DEF StackAccounting
  <1>4. Above(Depth) = Len(stack)
    BY DEF Above
  <1>5. CountedWidth \in Nat /\ CountedWidth = Width(Top.arr, Top.len)
    BY TypeParts, TopType
  <1>6. Held(Depth) = CountedWidth
    BY <1>5 DEF Held, Top
  <1>7. QED
    BY <1>2, <1>3, <1>4, <1>6

\* Popping them leaves the stack at that base.
LEMMA PoppedProperties ==
  ASSUME StoreOK, CountedWidth \in Nat, NEW b \in Nat, Len(stack) = b + CountedWidth
  PROVE  /\ Kept \in Seq(Nat) /\ Len(Kept) = b
         /\ \A i \in 1 .. b : Kept[i] = stack[i]
         /\ Popped \in Seq(Nat) /\ Len(Popped) = CountedWidth
         /\ \A i \in 1 .. CountedWidth : Popped[i] = stack[b + i]
  <1> DEFINE n == Len(stack) - CountedWidth
  <1>1. /\ n = b /\ n \in Nat /\ Len(stack) \in Nat
        /\ \A i \in 1 .. Len(stack) : stack[i] \in Nat
    BY ElementOfSeq, LenProperties DEF StoreOK
  <1> HIDE DEF n
  <1>2. /\ SubSeq(stack, 1, n) \in Seq(Nat)
        /\ Len(SubSeq(stack, 1, n)) = IF 1 <= n THEN n - 1 + 1 ELSE 0
        /\ \A i \in 1 .. n - 1 + 1 : SubSeq(stack, 1, n)[i] = stack[1 + i - 1]
    <2>1. \A i \in 1 .. n : stack[i] \in Nat
      BY <1>1
    <2>2. QED
      BY <1>1, <2>1, SubSeqProperties
  <1>3. /\ Len(SubSeq(stack, 1, n)) = n
        /\ \A i \in 1 .. n : SubSeq(stack, 1, n)[i] = stack[i]
    BY <1>1, <1>2
  <1> DEFINE m == n + 1
             last == Len(stack)
  <1>4. m \in Nat /\ last \in Nat /\ last - m + 1 = CountedWidth
    BY <1>1
  <1>5. \A i \in m .. last : stack[i] \in Nat
    BY <1>1
  <1> HIDE DEF m, last
  <1>6. /\ SubSeq(stack, m, last) \in Seq(Nat)
        /\ Len(SubSeq(stack, m, last)) = IF m <= last THEN last - m + 1 ELSE 0
        /\ \A i \in 1 .. last - m + 1 : SubSeq(stack, m, last)[i] = stack[m + i - 1]
    BY <1>4, <1>5, SubSeqProperties
  <1>7. /\ Len(SubSeq(stack, m, last)) = CountedWidth
        /\ \A i \in 1 .. CountedWidth : SubSeq(stack, m, last)[i] = stack[m + i - 1]
    BY <1>4, <1>6
  <1>8. \A i \in 1 .. CountedWidth : m + i - 1 = b + i
    BY <1>1 DEF m
  <1>9. Kept = SubSeq(stack, 1, n) /\ Popped = SubSeq(stack, m, last)
    BY DEF Kept, Popped, n, m, last
  <1>10. QED
    BY <1>1, <1>2, <1>3, <1>6, <1>7, <1>8, <1>9

-----------------------------------------------------------------------------
(* How the operations move the accounts.                                   *)

Pending == KeyPending(Depth) \/ NanPending(Depth)

LEMMA AccountsTypes ==
  ASSUME IInv
  PROVE  /\ Depth \in Nat /\ Len(base) = Depth /\ Len(stack) \in Nat
         /\ \A d \in 1 .. Depth : base[d] \in Nat /\ ctn[d] \in Ctn
         /\ \A d \in 1 .. Depth : ctn[d].arr \in BOOLEAN /\ ctn[d].len \in Nat
  <1>1. /\ ctn \in Seq(Ctn) /\ base \in Seq(Nat) /\ stack \in Seq(Nat)
        /\ Len(base) = Depth /\ Depth = Len(ctn)
    BY DEF IInv, TypeOK, StackAccounting, Depth, Ctn
  <1>2. Depth \in Nat /\ Len(stack) \in Nat
    BY <1>1, LenProperties
  <1>3. \A d \in 1 .. Depth : base[d] \in Nat /\ ctn[d] \in Ctn
    BY <1>1, ElementOfSeq
  <1>4. QED
    BY <1>1, <1>2, <1>3 DEF Ctn

\* A call that has stopped keeps no accounts.
LEMMA StoppedAccounts ==
  ASSUME IInv, UNCHANGED containers, pc' \in {"failed_cleanup", "returned"}
  PROVE  StackAccounting' /\ LabelFitsContainer'
  BY DEF IInv, StackAccounting, LabelFitsContainer, Parsing, containers

\* Control moves on and neither stack changes.
LEMMA SameAccounts ==
  ASSUME IInv, UNCHANGED containers, stack' = stack, Depth > 0,
         Parsing, Parsing', Pending <=> Pending',
         LabelFitsContainer'
  PROVE  StackAccounting'
  <1>1. Depth' = Depth /\ ctn' = ctn /\ base' = base
    BY DEF containers, Depth
  <1>2. /\ Len(base) = Len(ctn) /\ base[1] = 0
        /\ \A d \in 1 .. Depth : Above(d) = base[d] + Held(d)
    BY DEF IInv, StackAccounting
  <1>3. ASSUME NEW d \in 1 .. Depth
        PROVE  Above(d)' = Above(d) /\ Held(d)' = Held(d)
    <2>1. Above(d)' = Above(d)
      BY <1>1 DEF Above
    <2>2. CASE d = Depth
      <3>1. Held(d)' = Width(ctn[d].arr, ctn[d].len) + IF Pending' THEN 1 ELSE 0
        BY <1>1, <2>2 DEF Held, Pending
      <3>2. Held(d) = Width(ctn[d].arr, ctn[d].len) + IF Pending THEN 1 ELSE 0
        BY <2>2 DEF Held, Pending
      <3>3. QED
        BY <2>1, <3>1, <3>2
    <2>3. CASE d # Depth
      <3>1. NanPending(d)' = FALSE /\ NanPending(d) = FALSE
        BY <1>1, <2>3 DEF NanPending
      <3>2. KeyPending(d)' = KeyPending(d)
        BY <1>1, <2>3 DEF KeyPending
      <3>3. QED
        BY <1>1, <2>1, <3>1, <3>2 DEF Held
    <2>4. QED
      BY <2>2, <2>3
  <1>4. pc' # "success"
    BY DEF Parsing
  <1>5. \A d \in 1 .. Depth' : (Above(d) = base[d] + Held(d))'
    BY <1>1, <1>2, <1>3
  <1>6. QED
    BY <1>1, <1>2, <1>4, <1>5 DEF StackAccounting

\* A value is pushed and counted.
LEMMA CountedAccounts ==
  ASSUME IInv, Counted, Len(stack') = Len(stack) + 1, Depth > 0,
         Parsing, Pending <=> ~Top.arr
  PROVE  /\ StackAccounting' /\ LabelFitsContainer'
         /\ ContainersOK' /\ pc' \in Labels
  <1> USE AccountsTypes
  <1>1. /\ ctn \in Seq(Ctn) /\ Len(ctn) = Depth /\ base' = base
        /\ ctn' = Incremented(ctn) /\ Len(ctn) <= MaxDepth /\ base \in Seq(Nat)
    BY DEF Counted, Depth, IInv, TypeOK, Ctn
  <1>2. /\ ctn' \in Seq(Ctn) /\ Depth' = Depth /\ Len(ctn') = Len(ctn)
        /\ \A d \in 1 .. Depth :
             /\ ctn'[d].arr = ctn[d].arr
             /\ d # Depth => ctn'[d] = ctn[d]
             /\ d = Depth => ctn'[d].len = ctn[d].len + 1
    BY <1>1, IncrementedProperties DEF Depth
  <1>3. /\ pc' \in {"arr_val_end", "obj_val_end"}
        /\ pc' = "arr_val_end" <=> Top.arr
    BY <1>1, ValueEndLabel DEF Counted, Top, Depth
  <1>4. /\ Len(base) = Len(ctn) /\ base[1] = 0
        /\ \A d \in 1 .. Depth : Above(d) = base[d] + Held(d)
    BY DEF IInv, StackAccounting
  <1>5. ASSUME NEW d \in 1 .. Depth
        PROVE  Above(d)' = base[d] + Held(d)'
    <2>1. CASE d # Depth
      <3>1. Above(d)' = Above(d) /\ Held(d)' = Held(d)
        BY <1>1, <1>2, <2>1 DEF Above, Held, KeyPending, NanPending
      <3>2. QED
        BY <1>4, <3>1
    <2>2. CASE d = Depth
      <3>1. Above(d)' = Len(stack) + 1 /\ Above(d) = Len(stack)
        BY <1>2, <2>2 DEF Above
      <3>2. Held(d)' = Width(ctn[d].arr, ctn[d].len + 1)
        <4>1. ~KeyPending(d)' /\ ~NanPending(d)'
          BY <1>2, <1>3, <2>2 DEF KeyPending, NanPending
        <4>2. ctn'[d].arr = ctn[d].arr /\ ctn'[d].len = ctn[d].len + 1
          BY <1>2, <2>2
        <4>3. Width(ctn[d].arr, ctn[d].len + 1) \in Nat
          BY <2>2 DEF Width
        <4>4. Held(d)' = Width(ctn'[d].arr, ctn'[d].len) + 0
          BY <4>1 DEF Held
        <4>5. QED
          BY <4>2, <4>3, <4>4
      <3>3. Held(d) = Width(ctn[d].arr, ctn[d].len) + IF ctn[d].arr THEN 0 ELSE 1
        BY <2>2 DEF Held, Pending, Top
      <3>4. ctn[d].arr \in BOOLEAN /\ ctn[d].len \in Nat /\ base[d] \in Nat
        BY <2>2
      <3>5. Held(d)' = Held(d) + 1
        BY <3>2, <3>3, <3>4 DEF Width
      <3>6. Held(d) \in Nat
        BY <3>3, <3>4 DEF Width
      <3>7. QED
        BY <1>4, <3>1, <3>4, <3>5, <3>6
    <2>3. QED
      BY <2>1, <2>2
  <1>6. StackAccounting'
    <2>1. \A d \in 1 .. Depth' : (Above(d) = base[d] + Held(d))'
      BY <1>1, <1>2, <1>5
    <2>2. QED
      BY <1>1, <1>2, <1>3, <1>4, <2>1 DEF StackAccounting
  <1>7. LabelFitsContainer'
    <2>1. Top'.arr = Top.arr
      BY <1>2 DEF Top
    <2>2. QED
      BY <1>2, <1>3, <2>1 DEF LabelFitsContainer
  <1>8. QED
    BY <1>1, <1>2, <1>3, <1>6, <1>7 DEF ContainersOK, Labels

\* A key is pushed; it is counted with its value.
LEMMA KeyAccounts ==
  ASSUME IInv, UNCHANGED containers, Len(stack') = Len(stack) + 1,
         pc = "obj_key_begin", pc' = "obj_key_end"
  PROVE  StackAccounting' /\ LabelFitsContainer'
  <1> USE AccountsTypes
  <1>1. Depth > 0 /\ ~Top.arr /\ Depth' = Depth /\ ctn' = ctn /\ base' = base
    BY DEF IInv, LabelFitsContainer, containers, Depth
  <1>2. /\ Len(base) = Len(ctn) /\ base[1] = 0
        /\ \A d \in 1 .. Depth : Above(d) = base[d] + Held(d)
    BY <1>1 DEF IInv, StackAccounting, Parsing
  <1>3. ASSUME NEW d \in 1 .. Depth
        PROVE  Above(d)' = base[d] + Held(d)'
    <2>1. ~NanPending(d)' /\ ~NanPending(d)
      BY DEF NanPending
    <2>2. CASE d # Depth
      <3>1. KeyPending(d)' = KeyPending(d) /\ Above(d)' = Above(d)
        BY <1>1, <2>2 DEF KeyPending, Above
      <3>2. QED
        BY <1>1, <1>2, <2>1, <3>1 DEF Held
    <2>3. CASE d = Depth
      <3>1. KeyPending(d)' /\ ~KeyPending(d)
        BY <1>1, <2>3 DEF KeyPending
      <3>2. Above(d)' = Len(stack) + 1 /\ Above(d) = Len(stack)
        BY <1>1, <2>3 DEF Above
      <3>3. Width(ctn[d].arr, ctn[d].len) \in Nat /\ base[d] \in Nat
        BY DEF Width
      <3>4. /\ Held(d) = Width(ctn[d].arr, ctn[d].len) + 0
            /\ Held(d)' = Width(ctn[d].arr, ctn[d].len) + 1
        BY <1>1, <2>1, <3>1 DEF Held
      <3>5. QED
        BY <1>2, <3>2, <3>3, <3>4
    <2>4. QED
      BY <2>2, <2>3
  <1>4. \A d \in 1 .. Depth' : (Above(d) = base[d] + Held(d))'
    BY <1>1, <1>3
  <1>5. StackAccounting'
    BY <1>1, <1>2, <1>4 DEF StackAccounting
  <1>6. LabelFitsContainer'
    BY <1>1 DEF LabelFitsContainer, Top
  <1>7. QED
    BY <1>5, <1>6

\* A container is opened on top of the entries of its parent.
LEMMA PushContainerAccounts ==
  ASSUME IInv, NEW t \in {"lbrack", "lbrace"}, PushContainer(t), Depth < MaxDepth,
         pc \in {"root", "arr_val_begin", "obj_val_begin"}
  PROVE  StackAccounting' /\ LabelFitsContainer' /\ ContainersOK' /\ pc' \in Labels
  <1> USE AccountsTypes
  <1> DEFINE new == [arr |-> t = "lbrack", len |-> 0]
  <1>1. /\ ctn \in Seq(Ctn) /\ base \in Seq(Nat) /\ new \in Ctn
        /\ Len(ctn) = Depth /\ Len(base) = Depth /\ Len(stack) \in Nat
    BY DEF IInv, TypeOK, Ctn, Depth
  <1>2. /\ ctn' = Append(ctn, new) /\ base' = Append(base, Len(stack))
        /\ stack' = stack
        /\ pc' = IF t = "lbrack" THEN "arr_val_begin" ELSE "obj_key_begin"
    BY DEF PushContainer, store
  <1>3. /\ ctn' \in Seq(Ctn) /\ Depth' = Depth + 1 /\ Len(base') = Depth + 1
        /\ base' \in Seq(Nat)
        /\ \A d \in 1 .. Depth : ctn'[d] = ctn[d] /\ base'[d] = base[d]
        /\ ctn'[Depth + 1] = new /\ base'[Depth + 1] = Len(stack)
    <2> HIDE DEF new
    <2>1. QED
      BY <1>1, <1>2, AppendProperties DEF Depth
  <1>4. Depth > 0 =>
          /\ base[1] = 0
          /\ \A d \in 1 .. Depth : Above(d) = base[d] + Held(d)
    BY DEF IInv, StackAccounting, Parsing
  <1>5. Depth = 0 => Len(stack) = 0
    BY DEF IInv, StackAccounting, Parsing
  <1>6. base'[1] = 0
    BY <1>3, <1>4, <1>5
  <1>7. ASSUME NEW d \in 1 .. Depth
        PROVE  Above(d)' = base'[d] + Held(d)'
    <2>1. KeyPending(d)' = ~ctn[d].arr /\ ~NanPending(d)'
      BY <1>3 DEF KeyPending, NanPending
    <2>2. Depth > 0
      OBVIOUS
    <2>3. KeyPending(d) = ~ctn[d].arr /\ ~NanPending(d)
      <3>1. pc # "nan_retry" /\ pc # "root"
        BY <2>2 DEF IInv, LabelFitsContainer
      <3>2. CASE d = Depth
        BY <2>2, <3>1, <3>2 DEF KeyPending, NanPending, IInv, LabelFitsContainer, Top
      <3>3. CASE d # Depth
        BY <3>1, <3>3 DEF KeyPending, NanPending
      <3>4. QED
        BY <3>2, <3>3
    <2>4. Held(d)' = Held(d)
      BY <1>3, <2>1, <2>3 DEF Held
    <2>5. Above(d)' = Above(d)
      BY <1>2, <1>3 DEF Above
    <2>6. QED
      BY <1>3, <1>4, <2>2, <2>4, <2>5
  <1>8. ASSUME NEW n \in Nat, n = Depth + 1
        PROVE  Above(n)' = base'[n] + Held(n)'
    <2>1. Depth' = n /\ ctn'[n] = new /\ base'[n] = Len(stack)
      BY <1>3, <1>8
    <2>2. Above(n)' = Len(stack)
      BY <1>2, <2>1 DEF Above
    <2>3. ~KeyPending(n)' /\ ~NanPending(n)'
      BY <1>2, <2>1 DEF KeyPending, NanPending
    <2>4. Held(n)' = Width(new.arr, new.len) + 0
      BY <2>1, <2>3 DEF Held
    <2>5. Width(new.arr, new.len) = 0
      BY DEF Width
    <2>6. QED
      BY <1>1, <2>1, <2>2, <2>4, <2>5
  <1>9. \A d \in 1 .. Depth' : Above(d)' = base'[d] + Held(d)'
    <2>1. SUFFICES ASSUME NEW d \in 1 .. Depth'
                   PROVE  Above(d)' = base'[d] + Held(d)'
      OBVIOUS
    <2>2. d \in 1 .. Depth \/ (d \in Nat /\ d = Depth + 1)
      BY <1>3
    <2>3. QED
      BY <1>7, <1>8, <2>2
  <1>10. StackAccounting'
    <2>1. Len(base') = Len(ctn') /\ Depth' > 0 /\ pc' # "success"
      BY <1>2, <1>3 DEF Depth
    <2>2. QED
      BY <1>6, <1>9, <2>1 DEF StackAccounting
  <1>11. LabelFitsContainer'
    <2>1. Top' = new /\ Depth' > 0
      BY <1>3 DEF Top
    <2>2. CASE t = "lbrack"
      BY <1>2, <2>1, <2>2 DEF LabelFitsContainer
    <2>3. CASE t = "lbrace"
      BY <1>2, <2>1, <2>3 DEF LabelFitsContainer
    <2>4. QED
      BY <2>2, <2>3
  <1>12. Len(ctn') <= MaxDepth
    BY <1>3, SizeAssumption DEF Depth
  <1>13. pc' \in Labels
    BY <1>2 DEF Labels
  <1>14. QED
    BY <1>3, <1>10, <1>11, <1>12, <1>13 DEF ContainersOK

\* One more value makes an array one entry wider, an object two.
LEMMA WidthGrows ==
  ASSUME NEW arr \in BOOLEAN, NEW len \in Nat
  PROVE  /\ Width(arr, len) \in Nat
         /\ Width(arr, len + 1) = Width(arr, len) + 1 + IF arr THEN 0 ELSE 1
  BY DEF Width

\* A container is closed and handed to its parent.
LEMMA PopContainerAccounts ==
  ASSUME IInv, PopContainer, Depth > 0, Parsing, ~Pending,
         Len(stack') = base[Depth] + 1
  PROVE  StackAccounting' /\ LabelFitsContainer' /\ ContainersOK' /\ pc' \in Labels
  <1> USE AccountsTypes
  <1>1. /\ ctn \in Seq(Ctn) /\ base \in Seq(Nat)
        /\ Len(ctn) = Depth /\ Len(base) = Depth /\ Depth \in Nat
        /\ Len(ctn) <= MaxDepth
    BY DEF IInv, TypeOK, Ctn, Depth
  <1>2. /\ base[1] = 0
        /\ \A d \in 1 .. Depth : Above(d) = base[d] + Held(d)
    BY DEF IInv, StackAccounting
  <1>3. /\ base' \in Seq(Nat) /\ Len(base') = Depth - 1
        /\ \A d \in 1 .. Depth - 1 : base'[d] = base[d]
    BY <1>1, OuterProperties DEF PopContainer
  <1>4. CASE Depth = 1
    <2>1. ctn' = <<>> /\ pc' = "doc_end"
      BY <1>4 DEF PopContainer
    <2>2. Depth' = 0 /\ Len(ctn') = 0 /\ ctn' \in Seq(Ctn)
      BY <2>1 DEF Depth
    <2>3. Len(stack') = 1
      BY <1>2, <1>4
    <2>4. StackAccounting'
      BY <1>3, <1>4, <2>1, <2>2, <2>3 DEF StackAccounting
    <2>5. LabelFitsContainer'
      BY <2>1, <2>2 DEF LabelFitsContainer
    <2>6. Len(ctn') <= MaxDepth
      BY <2>2, SizeAssumption
    <2>7. QED
      BY <1>3, <2>1, <2>2, <2>4, <2>5, <2>6 DEF ContainersOK, Labels
  <1>5. CASE Depth # 1
    <2>0. PICK p \in Nat : p = Depth - 1
      BY <1>1
    <2> DEFINE c == Outer(ctn)
    <2>1. /\ c \in Seq(Ctn) /\ Len(c) = p /\ p > 0
          /\ \A d \in 1 .. p : c[d] = ctn[d]
      <3>1. Len(ctn) > 0 /\ p > 0 /\ p = Len(ctn) - 1
        BY <1>1, <1>5, <2>0
      <3>2. QED
        BY <1>1, <3>1, OuterProperties
    <2>2. ctn' = Incremented(c) /\ pc' = ValueEnd(c)
      BY <1>5 DEF PopContainer
    <2> HIDE DEF c
    <2>3. /\ ctn' \in Seq(Ctn) /\ Len(ctn') = p
          /\ \A d \in 1 .. p :
               /\ ctn'[d].arr = c[d].arr
               /\ d # p => ctn'[d] = c[d]
               /\ d = p => ctn'[d].len = c[d].len + 1
      BY <2>1, <2>2, IncrementedProperties
    <2>4. /\ pc' \in {"arr_val_end", "obj_val_end"}
          /\ pc' = "arr_val_end" <=> c[p].arr
      BY <2>1, <2>2, ValueEndLabel
    <2>5. Depth' = p
      BY <2>3 DEF Depth
    <2>6. /\ p \in 1 .. Depth /\ p # Depth /\ p + 1 = Depth
          /\ ctn[p].arr \in BOOLEAN /\ ctn[p].len \in Nat
          /\ base[p] \in Nat /\ base[Depth] \in Nat
      BY <1>1, <1>5, <2>0
    <2>7. ASSUME NEW d \in 1 .. p, d # p
          PROVE  Above(d)' = base'[d] + Held(d)'
      <3>1. d \in 1 .. Depth /\ d # Depth /\ d + 1 \in 1 .. p
        BY <2>1, <2>6, <2>7
      <3>2. ctn'[d] = ctn[d]
        BY <2>1, <2>3, <2>7
      <3>3. Above(d)' = base'[d + 1] /\ Above(d) = base[d + 1]
        BY <2>5, <2>7, <3>1 DEF Above
      <3>4. base'[d + 1] = base[d + 1] /\ base'[d] = base[d]
        BY <1>3, <2>0, <3>1
      <3>5. /\ KeyPending(d)' = ~ctn[d].arr /\ ~NanPending(d)'
            /\ KeyPending(d) = ~ctn[d].arr /\ ~NanPending(d)
        BY <2>5, <2>7, <3>1, <3>2 DEF KeyPending, NanPending
      <3>6. Held(d)' = Held(d)
        BY <3>2, <3>5 DEF Held
      <3>7. QED
        BY <1>2, <3>1, <3>3, <3>4, <3>6
    <2>8. /\ Above(p)' = base[Depth] + 1
          /\ Above(p) = base[Depth]
      BY <2>5, <2>6 DEF Above
    <2>9. ctn'[p].arr = ctn[p].arr /\ ctn'[p].len = ctn[p].len + 1
      BY <2>1, <2>3
    <2>10. Held(p)' = Width(ctn[p].arr, ctn[p].len + 1)
      <3>1. ~KeyPending(p)' /\ ~NanPending(p)'
        BY <2>4, <2>5 DEF KeyPending, NanPending
      <3>2. Held(p)' = Width(ctn'[p].arr, ctn'[p].len) + 0
        BY <3>1 DEF Held
      <3>3. Width(ctn[p].arr, ctn[p].len + 1) \in Nat
        <4>1. ctn[p].arr \in BOOLEAN /\ ctn[p].len + 1 \in Nat
          BY <2>6
        <4>2. QED
          BY <4>1, WidthGrows
      <3>4. QED
        BY <2>9, <3>2, <3>3
    <2>11. Held(p) = Width(ctn[p].arr, ctn[p].len) + IF ctn[p].arr THEN 0 ELSE 1
      <3>1. KeyPending(p) = ~ctn[p].arr /\ ~NanPending(p)
        BY <2>6 DEF KeyPending, NanPending
      <3>2. QED
        BY <2>6, <3>1 DEF Held
    <2>12. Held(p)' = Held(p) + 1 /\ Held(p) \in Nat
      <3>1. ctn[p].arr \in BOOLEAN /\ ctn[p].len \in Nat
        BY <2>6
      <3>2. /\ Width(ctn[p].arr, ctn[p].len) \in Nat
            /\ Width(ctn[p].arr, ctn[p].len + 1)
                 = Width(ctn[p].arr, ctn[p].len) + 1 + IF ctn[p].arr THEN 0 ELSE 1
        BY <3>1, WidthGrows
      <3>3. QED
        BY <2>10, <2>11, <3>2
    <2>13. base'[p] = base[p]
      BY <1>3, <2>0, <2>1
    <2>14. Above(p)' = base'[p] + Held(p)'
      BY <1>2, <2>6, <2>8, <2>12, <2>13
    <2>15. \A d \in 1 .. Depth' : Above(d)' = base'[d] + Held(d)'
      <3>1. SUFFICES ASSUME NEW d \in 1 .. Depth'
                     PROVE  Above(d)' = base'[d] + Held(d)'
        OBVIOUS
      <3>2. CASE d = p
        BY <2>14, <3>2
      <3>3. CASE d # p
        BY <2>5, <2>7, <3>3
      <3>4. QED
        BY <3>2, <3>3
    <2>16. base'[1] = 0
      BY <1>2, <1>3, <2>0, <2>1
    <2>17. StackAccounting'
      <3>1. Len(base') = Len(ctn')
        BY <1>3, <2>0, <2>3
      <3>2. QED
        BY <2>1, <2>4, <2>5, <2>15, <2>16, <3>1 DEF StackAccounting
    <2>18. LabelFitsContainer'
      <3>1. Top'.arr = c[p].arr /\ Depth' > 0
        BY <2>1, <2>3, <2>5 DEF Top
      <3>2. QED
        BY <2>4, <3>1 DEF LabelFitsContainer
    <2>19. Len(ctn') <= MaxDepth
      BY <1>1, <2>0, <2>3, SizeAssumption
    <2>20. QED
      BY <1>3, <2>3, <2>4, <2>17, <2>18, <2>19 DEF ContainersOK, Labels
  <1>6. QED
    BY <1>4, <1>5
-----------------------------------------------------------------------------
(* One lemma per way a label ends.                                         *)

\* The call fails; what it keeps is still of the right type.
LEMMA StopKeeps ==
  ASSUME IInv, UNCHANGED containers, pc' \in {"failed_cleanup", "returned"},
         StoreOK', ObjectsOK', CallOK', ErrorOK', InputOK'
  PROVE  IInv'
  <1>1. ContainersOK'
    BY TypeParts DEF IInv, ContainersOK, containers
  <1>2. TypeOK'
    BY <1>1, TypeParts2 DEF Labels
  <1>3. QED
    BY <1>2, StoppedAccounts DEF IInv

LEMMA SyntaxErrorKeeps ==
  ASSUME IInv, SyntaxError, InputOK'
  PROVE  IInv'
  <1>1. StoreOK /\ ObjectsOK /\ CallOK /\ ErrorOK
    BY TypeParts DEF IInv
  <1>2. StoreOK' /\ ObjectsOK' /\ CallOK' /\ ErrorOK'
    BY <1>1 DEF SyntaxError, Raise, store, objects, call, StoreOK, ObjectsOK, CallOK, ErrorOK
  <1>3. UNCHANGED containers /\ pc' = "failed_cleanup"
    BY DEF SyntaxError, Raise
  <1>4. QED
    BY <1>2, <1>3, StopKeeps

\* An allocation failed and neither the stack nor a reference changed.
LEMMA OutOfMemoryKeeps ==
  ASSUME IInv, NEW e \in {"memory", "decode"}, OutOfMemory(e), InputOK',
         UNCHANGED <<containers, store, objects, call>>
  PROVE  IInv'
  <1>1. StoreOK /\ ObjectsOK /\ CallOK
    BY TypeParts DEF IInv
  <1>2. StoreOK' /\ ObjectsOK' /\ CallOK'
    BY <1>1 DEF store, objects, call, StoreOK, ObjectsOK, CallOK
  <1>3. ErrorOK'
    BY DEF OutOfMemory, Raise, ErrorOK
  <1>4. UNCHANGED containers /\ pc' = "failed_cleanup"
    BY DEF OutOfMemory, Raise
  <1>5. QED
    BY <1>2, <1>3, <1>4, StopKeeps

\* A new reference is lost because the stack s, cut from the object stack,
\* could not grow.
LEMMA LostKeeps ==
  ASSUME IInv, NEW e \in {"memory", "decode"}, OutOfMemory(e), InputOK',
         NEW s \in Seq(Nat), Len(s) <= Len(stack), PushFailed(s),
         NEW kind \in Kinds, NEW items \in Seq(Nat), NewRef(kind, items),
         lost' = lost \union {FreshRef}, UNCHANGED <<containers, released, call>>
  PROVE  IInv'
  <1>1. StoreOK /\ ObjectsOK /\ CallOK
    BY TypeParts DEF IInv
  <1>2. StoreOK'
    <2>1. Len(s) \in Nat /\ Len(stack) \in Nat
      BY <1>1, LenProperties DEF StoreOK
    <2>2. QED
      BY <1>1, <2>1, SizeAssumption DEF PushFailed, StoreOK
  <1>3. ObjectsOK'
    BY <1>1, NewRefKeeps DEF ObjectsOK
  <1>4. CallOK' /\ ErrorOK'
    BY <1>1 DEF OutOfMemory, Raise, call, CallOK, ErrorOK
  <1>5. UNCHANGED containers /\ pc' = "failed_cleanup"
    BY DEF OutOfMemory, Raise
  <1>6. QED
    BY <1>2, <1>3, <1>4, <1>5, StopKeeps

\* arr_begin and obj_begin.
LEMMA BeginContainerKeeps ==
  ASSUME IInv, NEW t, BeginContainer(t), InputOK',
         pc \in {"arr_val_begin", "obj_val_begin"}
  PROVE  IInv'
  <1>1. CASE Depth < MaxDepth /\ PushContainer(t)
    <2>1. t \in {"lbrack", "lbrace"}
      BY DEF BeginContainer
    <2>2. StackAccounting' /\ LabelFitsContainer' /\ ContainersOK' /\ pc' \in Labels
      BY <1>1, <2>1, PushContainerAccounts
    <2>3. StoreOK /\ ObjectsOK /\ CallOK /\ ErrorOK
      BY TypeParts DEF IInv
    <2>4. StoreOK' /\ ObjectsOK' /\ CallOK' /\ ErrorOK'
      BY <1>1, <2>3 DEF PushContainer, store, objects, call, StoreOK, ObjectsOK, CallOK, ErrorOK
    <2>5. QED
      BY <2>2, <2>4, TypeParts2 DEF IInv
  <1>2. CASE SyntaxError
    BY <1>2, SyntaxErrorKeeps
  <1>3. QED
    BY <1>1, <1>2 DEF BeginContainer

\* The empty tuple, and the place of the next reference.
LEMMA EmptySeqNat == <<>> \in Seq(Nat)
  OBVIOUS

\* A value, at a label that waits for one.
LEMMA ReadValueKeeps ==
  ASSUME IInv, NEW t, ReadValue(t), InputOK', Parsing, Depth > 0,
         Pending <=> ~Top.arr
  PROVE  IInv'
  <1>1. StoreOK /\ ObjectsOK /\ CallOK /\ ErrorOK
    BY TypeParts DEF IInv
  <1>2. t \in Kinds
    BY DEF ReadValue, Kinds
  <1>3. stack \in Seq(Nat) /\ Len(stack) <= cap /\ Len(stack) \in Nat
    BY <1>1, LenProperties DEF StoreOK
  <1>4. CASE /\ Pushed(stack, FreshRef)
             /\ NewRef(t, <<>>)
             /\ Counted
             /\ UNCHANGED <<released, lost, call, err, oom>>
    <2>1. heap' \in Seq(Ref) /\ FreshRef \in Nat
      BY <1>1, <1>2, <1>4, NewRefKeeps, EmptySeqNat
    <2>2. StoreOK' /\ Len(stack') = Len(stack) + 1
      BY <1>1, <1>3, <1>4, <2>1, PushedKeeps
    <2>3. /\ StackAccounting' /\ LabelFitsContainer'
          /\ ContainersOK' /\ pc' \in Labels
      BY <1>4, <2>2, CountedAccounts
    <2>4. ObjectsOK'
      BY <1>1, <1>4, <2>1 DEF ObjectsOK
    <2>5. CallOK' /\ ErrorOK'
      BY <1>1, <1>4 DEF call, CallOK, ErrorOK
    <2>6. QED
      BY <2>2, <2>3, <2>4, <2>5, TypeParts2 DEF IInv
  <1>5. CASE OutOfMemory("decode") /\ UNCHANGED <<containers, store, objects, call>>
    BY <1>5, OutOfMemoryKeeps
  <1>6. CASE /\ PushFailed(stack)
             /\ NewRef(t, <<>>)
             /\ lost' = lost \union {FreshRef}
             /\ OutOfMemory("decode")
             /\ UNCHANGED <<containers, released, call>>
    <2>1. Len(stack) <= Len(stack)
      BY <1>3
    <2>2. QED
      BY <1>2, <1>3, <1>6, <2>1, LostKeeps, EmptySeqNat
  <1>7. CASE /\ PushFailed(stack)
             /\ OutOfMemory("decode")
             /\ UNCHANGED <<containers, objects, call>>
    <2>1. UNCHANGED <<containers, store, objects, call>>
      BY <1>7 DEF PushFailed, store
    <2>2. QED
      BY <1>7, <2>1, OutOfMemoryKeeps
  <1>8. CASE /\ PushFailed(stack)
             /\ pc' = "nan_retry"
             /\ err' = "memory"
             /\ oom' = TRUE
             /\ UNCHANGED <<containers, objects, call>>
    <2>1. Depth' = Depth /\ ctn' = ctn /\ base' = base /\ stack' = stack
      BY <1>8 DEF containers, Depth, PushFailed
    <2>2. LabelFitsContainer'
      BY <1>8, <2>1 DEF LabelFitsContainer
    <2>3. Pending' <=> ~Top.arr
      BY <1>8, <2>1 DEF Pending, KeyPending, NanPending, Top
    <2>4. StackAccounting'
      BY <1>8, <2>1, <2>2, <2>3, SameAccounts DEF Parsing
    <2>5. ContainersOK' /\ StoreOK' /\ ObjectsOK' /\ CallOK' /\ ErrorOK'
      <3>1. ContainersOK
        BY TypeParts DEF IInv
      <3>2. QED
        BY <1>1, <1>8, <2>1, <3>1 DEF PushFailed, objects, call,
           ContainersOK, StoreOK, ObjectsOK, CallOK, ErrorOK
    <2>6. pc' \in Labels
      BY <1>8 DEF Labels
    <2>7. QED
      BY <2>2, <2>4, <2>5, <2>6, TypeParts2 DEF IInv
  <1>9. QED
    BY <1>4, <1>5, <1>6, <1>7, <1>8 DEF ReadValue
\* A key.
LEMMA ReadKeyKeeps ==
  ASSUME IInv, ReadKey, InputOK', pc = "obj_key_begin"
  PROVE  IInv'
  <1>1. StoreOK /\ ObjectsOK /\ CallOK /\ ErrorOK /\ ContainersOK
    BY TypeParts DEF IInv
  <1>2. stack \in Seq(Nat) /\ Len(stack) <= cap /\ Len(stack) \in Nat
    BY <1>1, LenProperties DEF StoreOK
  <1>3. "key" \in Kinds
    BY DEF Kinds
  <1>4. CASE /\ Pushed(stack, FreshRef)
             /\ NewRef("key", <<>>)
             /\ pc' = "obj_key_end"
             /\ UNCHANGED <<containers, released, lost, call, err, oom>>
    <2>1. heap' \in Seq(Ref) /\ FreshRef \in Nat
      BY <1>1, <1>3, <1>4, NewRefKeeps, EmptySeqNat
    <2>2. StoreOK' /\ Len(stack') = Len(stack) + 1
      BY <1>1, <1>2, <1>4, <2>1, PushedKeeps
    <2>3. StackAccounting' /\ LabelFitsContainer'
      BY <1>4, <2>2, KeyAccounts
    <2>4. ContainersOK' /\ ObjectsOK' /\ CallOK' /\ ErrorOK'
      BY <1>1, <1>4, <2>1 DEF containers, call, ContainersOK, ObjectsOK, CallOK, ErrorOK
    <2>5. pc' \in Labels
      BY <1>4 DEF Labels
    <2>6. QED
      BY <2>2, <2>3, <2>4, <2>5, TypeParts2 DEF IInv
  <1>5. CASE OutOfMemory("decode") /\ UNCHANGED <<containers, store, objects, call>>
    BY <1>5, OutOfMemoryKeeps
  <1>6. CASE /\ PushFailed(stack)
             /\ NewRef("key", <<>>)
             /\ lost' = lost \union {FreshRef}
             /\ OutOfMemory("decode")
             /\ UNCHANGED <<containers, released, call>>
    <2>1. Len(stack) <= Len(stack)
      BY <1>2
    <2>2. QED
      BY <1>2, <1>3, <1>6, <2>1, LostKeeps, EmptySeqNat
  <1>7. QED
    BY <1>4, <1>5, <1>6 DEF ReadKey

\* Where a container may be closed, its entries are on the stack.
LEMMA ClosingProperties ==
  ASSUME IInv, Depth > 0, Parsing, ~Pending
  PROVE  /\ StoreOK /\ base[Depth] \in Nat /\ base[Depth] <= Len(stack)
         /\ Kept \in Seq(Nat) /\ Len(Kept) = base[Depth]
         /\ Popped \in Seq(Nat) /\ Len(Popped) = CountedWidth
         /\ CountedWidth \in Nat
  <1>1. StoreOK /\ ContainersOK /\ TypeOK /\ StackAccounting
    BY TypeParts DEF IInv
  <1>2. base[Depth] \in Nat /\ Len(stack) = base[Depth] + CountedWidth
    BY <1>1, EntriesOnStack DEF Pending
  <1>3. CountedWidth \in Nat
    BY <1>1, TopType
  <1>4. QED
    BY <1>1, <1>2, <1>3, PoppedProperties

\* arr_end and obj_end, up to the insertion of the pairs.
LEMMA BuildContainerKeeps ==
  ASSUME IInv, NEW kind \in {"list", "dict"}, BuildContainer(kind), InputOK',
         Parsing, Depth > 0, ~Pending
  PROVE  IInv'
  <1>1. StoreOK /\ ObjectsOK /\ CallOK /\ ErrorOK
    BY TypeParts DEF IInv
  <1>2. /\ base[Depth] \in Nat /\ base[Depth] <= Len(stack)
        /\ Kept \in Seq(Nat) /\ Len(Kept) = base[Depth] /\ Popped \in Seq(Nat)
    BY ClosingProperties
  <1>3. kind \in Kinds
    BY DEF Kinds
  <1>4. Len(Kept) <= Len(stack) /\ Len(Kept) <= cap
    BY <1>1, <1>2, LenProperties DEF StoreOK
  <1>5. CASE /\ Pushed(Kept, FreshRef)
             /\ PopContainer
             /\ UNCHANGED <<released, lost, call, err, oom>>
    <2>1. heap' \in Seq(Ref) /\ FreshRef \in Nat
      BY <1>1, <1>2, <1>3, NewRefKeeps DEF BuildContainer
    <2>2. StoreOK' /\ Len(stack') = base[Depth] + 1
      BY <1>1, <1>2, <1>4, <1>5, <2>1, PushedKeeps
    <2>3. StackAccounting' /\ LabelFitsContainer' /\ ContainersOK' /\ pc' \in Labels
      BY <1>5, <2>2, PopContainerAccounts
    <2>4. ObjectsOK' /\ CallOK' /\ ErrorOK'
      BY <1>1, <1>5, <2>1 DEF call, ObjectsOK, CallOK, ErrorOK
    <2>5. QED
      BY <2>2, <2>3, <2>4, TypeParts2 DEF IInv
  <1>6. CASE /\ PushFailed(Kept)
             /\ lost' = lost \union {FreshRef}
             /\ OutOfMemory("memory")
             /\ UNCHANGED <<containers, released, call>>
    BY <1>2, <1>3, <1>4, <1>6, LostKeeps DEF BuildContainer
  <1>7. QED
    BY <1>5, <1>6 DEF BuildContainer

\* A set of entries of a sequence of numbers.
LEMMA EntriesType ==
  ASSUME NEW s \in Seq(Nat), NEW n \in Nat, n <= Len(s)
  PROVE  {s[i] : i \in 1 .. n} \subseteq Nat
  <1>1. \A i \in 1 .. n : i \in 1 .. Len(s)
    BY LenProperties
  <1>2. QED
    BY <1>1, ElementOfSeq

LEMMA EndArrayKeeps ==
  ASSUME IInv, EndArray, InputOK', Parsing, Depth > 0, ~Pending
  PROVE  IInv'
  <1>1. CASE BuildContainer("list")
    BY <1>1, BuildContainerKeeps
  <1>2. CASE NoContainer
    BY <1>2, OutOfMemoryKeeps DEF NoContainer
  <1>3. QED
    BY <1>1, <1>2 DEF EndArray

LEMMA EndObjectKeeps ==
  ASSUME IInv, EndObject, InputOK', Parsing, Depth > 0, ~Pending
  PROVE  IInv'
  <1>1. CASE BuildContainer("dict")
    BY <1>1, BuildContainerKeeps
  <1>2. CASE NoContainer
    BY <1>2, OutOfMemoryKeeps DEF NoContainer
  <1>3. CASE /\ NewRef("dict", <<>>)
             /\ released' = released \union {FreshRef}
                              \union {Popped[i] : i \in 1 .. CountedWidth}
             /\ stack' = Kept
             /\ OutOfMemory("memory")
             /\ UNCHANGED <<containers, cap, blocks, lost, call>>
    <2>1. /\ StoreOK /\ base[Depth] \in Nat /\ base[Depth] <= Len(stack)
          /\ Kept \in Seq(Nat) /\ Len(Kept) = base[Depth]
          /\ Popped \in Seq(Nat) /\ Len(Popped) = CountedWidth
          /\ CountedWidth \in Nat
      BY ClosingProperties
    <2>2. ObjectsOK /\ CallOK
      BY TypeParts DEF IInv
    <2>3. {Popped[i] : i \in 1 .. CountedWidth} \subseteq Nat
      BY <2>1, EntriesType
    <2>4. "dict" \in Kinds
      BY DEF Kinds
    <2>5. heap' \in Seq(Ref) /\ FreshRef \in Nat
      BY <1>3, <2>2, <2>4, NewRefKeeps, EmptySeqNat
    <2>6. ObjectsOK'
      BY <1>3, <2>2, <2>3, <2>5 DEF ObjectsOK
    <2>7. StoreOK'
      BY <1>3, <2>1, LenProperties DEF StoreOK
    <2>8. CallOK' /\ ErrorOK'
      BY <1>3, <2>2 DEF call, CallOK, ErrorOK, OutOfMemory, Raise
    <2>9. UNCHANGED containers /\ pc' = "failed_cleanup"
      BY <1>3 DEF OutOfMemory, Raise
    <2>10. QED
      BY <2>6, <2>7, <2>8, <2>9, StopKeeps
  <1>4. QED
    BY <1>1, <1>2, <1>3 DEF EndObject

\* A comma or a colon: control moves inside the same container.
LEMMA GotoKeeps ==
  ASSUME IInv, NEW label, Goto(label), InputOK', Depth > 0, Parsing,
         \/ pc = "arr_val_end" /\ label = "arr_val_begin"
         \/ pc = "obj_key_end" /\ label = "obj_val_begin"
         \/ pc = "obj_val_end" /\ label = "obj_key_begin"
  PROVE  IInv'
  <1>1. StoreOK /\ ObjectsOK /\ CallOK /\ ErrorOK /\ ContainersOK
    BY TypeParts DEF IInv
  <1>2. StoreOK' /\ ObjectsOK' /\ CallOK' /\ ErrorOK' /\ ContainersOK'
    BY <1>1 DEF Goto, containers, store, objects, call,
       StoreOK, ObjectsOK, CallOK, ErrorOK, ContainersOK
  <1>3. Depth' = Depth /\ ctn' = ctn /\ base' = base /\ stack' = stack /\ pc' = label
    BY DEF Goto, containers, store, Depth
  <1>4. LabelFitsContainer'
    BY <1>3 DEF IInv, LabelFitsContainer, Top
  <1>5. Pending' <=> Pending
    BY <1>3 DEF Pending, KeyPending, NanPending
  <1>6. StackAccounting'
    BY <1>3, <1>4, <1>5, SameAccounts DEF Parsing, containers
  <1>7. pc' \in Labels
    BY <1>3 DEF Labels
  <1>8. QED
    BY <1>2, <1>4, <1>6, <1>7, TypeParts2 DEF IInv
-----------------------------------------------------------------------------
(* The invariant.                                                          *)

LEMMA InitInvariant == Init => IInv
  <1> SUFFICES ASSUME Init PROVE IInv
    OBVIOUS
  <1>1. Depth = 0 /\ Len(base) = Len(ctn) /\ Len(stack) = 0
    BY DEF Init, Depth
  <1>2. TypeOK
    <2>1. ContainersOK
      <3>1. ctn = <<>> /\ base = <<>> /\ Len(ctn) = 0
        BY DEF Init
      <3>2. QED
        BY <3>1, SizeAssumption DEF ContainersOK
    <2>2. StoreOK
      <3>1. cap = InitCap /\ blocks = {} /\ stack = <<>>
        BY DEF Init
      <3>2. QED
        BY <1>1, <3>1, SizeAssumption DEF StoreOK
    <2>3. ObjectsOK
      BY DEF Init, ObjectsOK
    <2>4. CallOK /\ ErrorOK
      BY DEF Init, CallOK, ErrorOK
    <2>5. InputOK
      BY DEF Init, InputOK
    <2>6. pc \in Labels
      BY DEF Init, Labels
    <2>7. QED
      BY <2>1, <2>2, <2>3, <2>4, <2>5, <2>6, TypeParts
  <1>3. StackAccounting
    BY <1>1 DEF Init, StackAccounting
  <1>4. LabelFitsContainer
    BY <1>1 DEF Init, LabelFitsContainer
  <1>5. QED
    BY <1>2, <1>3, <1>4 DEF IInv

\* The steps that read a token keep it.
LEMMA StepInvariant ==
  ASSUME IInv, NEW t \in Tokens, Step(t)
  PROVE  IInv'
  <1> DEFINE At(label) == pc = label /\ Read(t)
  <1>1. ASSUME Read(t)
        PROVE  InputOK'
    BY <1>1, TypeParts, ReadKeeps DEF IInv
  <1>2. LabelFitsContainer
    BY DEF IInv
  <1>3. CASE ReadRoot(t)
    <2>1. /\ t \in {"lbrack", "lbrace"} /\ PushContainer(t) /\ pc = "root"
          /\ Depth < MaxDepth /\ InputOK'
      BY <1>1, <1>2, <1>3, SizeAssumption DEF ReadRoot, LabelFitsContainer
    <2>2. StackAccounting' /\ LabelFitsContainer' /\ ContainersOK' /\ pc' \in Labels
      BY <2>1, PushContainerAccounts
    <2>3. StoreOK /\ ObjectsOK /\ CallOK /\ ErrorOK
      BY TypeParts DEF IInv
    <2>4. StoreOK' /\ ObjectsOK' /\ CallOK' /\ ErrorOK'
      BY <2>1, <2>3 DEF PushContainer, store, objects, call,
         StoreOK, ObjectsOK, CallOK, ErrorOK
    <2>5. QED
      BY <2>1, <2>2, <2>4, TypeParts2 DEF IInv
  <1>4. CASE ArrValBegin(t)
    <2>1. pc = "arr_val_begin" /\ InputOK' /\ Depth > 0 /\ Top.arr
      BY <1>1, <1>2, <1>4 DEF ArrValBegin, LabelFitsContainer
    <2>2. Parsing /\ ~Pending
      BY <2>1 DEF Parsing, Pending, KeyPending, NanPending
    <2>3. CASE BeginContainer(t)
      BY <2>1, <2>3, BeginContainerKeeps
    <2>4. CASE ReadValue(t)
      BY <2>1, <2>2, <2>4, ReadValueKeeps
    <2>5. CASE EndArray
      BY <2>1, <2>2, <2>5, EndArrayKeeps
    <2>6. CASE SyntaxError
      BY <2>1, <2>6, SyntaxErrorKeeps
    <2>7. QED
      BY <1>4, <2>3, <2>4, <2>5, <2>6 DEF ArrValBegin
  <1>5. CASE ArrValEnd(t)
    <2>1. pc = "arr_val_end" /\ InputOK' /\ Depth > 0
      BY <1>1, <1>2, <1>5 DEF ArrValEnd, LabelFitsContainer
    <2>2. Parsing /\ ~Pending
      BY <2>1 DEF Parsing, Pending, KeyPending, NanPending
    <2>3. CASE Goto("arr_val_begin")
      BY <2>1, <2>2, <2>3, GotoKeeps
    <2>4. CASE EndArray
      BY <2>1, <2>2, <2>4, EndArrayKeeps
    <2>5. CASE SyntaxError
      BY <2>1, <2>5, SyntaxErrorKeeps
    <2>6. QED
      BY <1>5, <2>3, <2>4, <2>5 DEF ArrValEnd
  <1>6. CASE ObjKeyBegin(t)
    <2>1. pc = "obj_key_begin" /\ InputOK' /\ Depth > 0
      BY <1>1, <1>2, <1>6 DEF ObjKeyBegin, LabelFitsContainer
    <2>2. Parsing /\ ~Pending
      BY <2>1 DEF Parsing, Pending, KeyPending, NanPending
    <2>3. CASE ReadKey
      BY <2>1, <2>3, ReadKeyKeeps
    <2>4. CASE EndObject
      BY <2>1, <2>2, <2>4, EndObjectKeeps
    <2>5. CASE SyntaxError
      BY <2>1, <2>5, SyntaxErrorKeeps
    <2>6. QED
      BY <1>6, <2>3, <2>4, <2>5 DEF ObjKeyBegin
  <1>7. CASE ObjKeyEnd(t)
    <2>1. pc = "obj_key_end" /\ InputOK' /\ Depth > 0
      BY <1>1, <1>2, <1>7 DEF ObjKeyEnd, LabelFitsContainer
    <2>2. Parsing
      BY <2>1 DEF Parsing
    <2>3. CASE Goto("obj_val_begin")
      BY <2>1, <2>2, <2>3, GotoKeeps
    <2>4. CASE SyntaxError
      BY <2>1, <2>4, SyntaxErrorKeeps
    <2>5. QED
      BY <1>7, <2>3, <2>4 DEF ObjKeyEnd
  <1>8. CASE ObjValBegin(t)
    <2>1. pc = "obj_val_begin" /\ InputOK' /\ Depth > 0 /\ ~Top.arr
      BY <1>1, <1>2, <1>8 DEF ObjValBegin, LabelFitsContainer
    <2>2. Parsing /\ Pending
      BY <2>1 DEF Parsing, Pending, KeyPending
    <2>3. CASE BeginContainer(t)
      BY <2>1, <2>3, BeginContainerKeeps
    <2>4. CASE ReadValue(t)
      BY <2>1, <2>2, <2>4, ReadValueKeeps
    <2>5. CASE SyntaxError
      BY <2>1, <2>5, SyntaxErrorKeeps
    <2>6. QED
      BY <1>8, <2>3, <2>4, <2>5 DEF ObjValBegin
  <1>9. CASE ObjValEnd(t)
    <2>1. pc = "obj_val_end" /\ InputOK' /\ Depth > 0
      BY <1>1, <1>2, <1>9 DEF ObjValEnd, LabelFitsContainer
    <2>2. Parsing /\ ~Pending
      BY <2>1 DEF Parsing, Pending, KeyPending, NanPending
    <2>3. CASE Goto("obj_key_begin")
      BY <2>1, <2>2, <2>3, GotoKeeps
    <2>4. CASE EndObject
      BY <2>1, <2>2, <2>4, EndObjectKeeps
    <2>5. CASE SyntaxError
      BY <2>1, <2>5, SyntaxErrorKeeps
    <2>6. QED
      BY <1>9, <2>3, <2>4, <2>5 DEF ObjValEnd
  <1>10. CASE DocEnd(t)
    <2>1. pc = "doc_end" /\ InputOK' /\ Depth = 0
      BY <1>1, <1>2, <1>10 DEF DocEnd, LabelFitsContainer
    <2>2. CASE Goto("success")
      <3>1. /\ containers' = containers /\ store' = store /\ objects' = objects
            /\ call' = call /\ err' = err /\ oom' = oom /\ pc' = "success"
        BY <2>2 DEF Goto
      <3>2. Depth' = Depth /\ ctn' = ctn /\ base' = base /\ stack' = stack
        BY <3>1 DEF containers, store, Depth
      <3>3. TypeOK'
        <4>1. StoreOK /\ ObjectsOK /\ CallOK /\ ErrorOK /\ ContainersOK
          BY TypeParts DEF IInv
        <4>2. StoreOK' /\ ObjectsOK' /\ CallOK' /\ ErrorOK' /\ ContainersOK'
          BY <3>1, <4>1 DEF containers, store, objects, call,
             StoreOK, ObjectsOK, CallOK, ErrorOK, ContainersOK
        <4>3. QED
          BY <2>1, <3>1, <4>2, TypeParts2 DEF Labels
      <3>4. StackAccounting' /\ LabelFitsContainer'
        BY <2>1, <3>1, <3>2 DEF IInv, StackAccounting, LabelFitsContainer, Parsing
      <3>5. QED
        BY <3>3, <3>4 DEF IInv
    <2>3. CASE SyntaxError
      BY <2>1, <2>3, SyntaxErrorKeeps
    <2>4. QED
      BY <1>10, <2>2, <2>3 DEF DocEnd
  <1>11. QED
    BY <1>3, <1>4, <1>5, <1>6, <1>7, <1>8, <1>9, <1>10 DEF Step

\* None could not be pushed: the text is tried once more.
LEMMA RetryInvariant ==
  ASSUME IInv, RetryAsNan
  PROVE  IInv'
  <1>1. pc = "nan_retry" /\ Depth > 0
    BY DEF RetryAsNan, IInv, LabelFitsContainer
  <1>2. Parsing /\ (Pending <=> ~Top.arr)
    BY <1>1 DEF Parsing, Pending, KeyPending, NanPending, Top
  <1>3. InputOK
    BY TypeParts DEF IInv
  <1>4. CASE Read("nan") /\ ReadValue("nan")
    <2>1. InputOK'
      BY <1>3, <1>4, ReadKeeps
    <2>2. QED
      BY <1>1, <1>2, <1>4, <2>1, ReadValueKeeps
  <1>5. CASE SyntaxError /\ UNCHANGED input
    <2>1. InputOK'
      BY <1>3, <1>5 DEF InputOK
    <2>2. QED
      BY <1>5, <2>1, SyntaxErrorKeeps
  <1>6. QED
    BY <1>4, <1>5 DEF RetryAsNan

\* Entering and leaving the call.
LEMMA EnterInvariant ==
  ASSUME IInv, InitStacks \/ ReserveStringBuffer
  PROVE  IInv'
  <1>1. /\ ContainersOK /\ StoreOK /\ ObjectsOK /\ CallOK /\ ErrorOK /\ InputOK
        /\ Depth = 0
    BY TypeParts DEF IInv, LabelFitsContainer, InitStacks, ReserveStringBuffer
  <1>2. /\ ctn' = ctn /\ base' = base /\ stack' = stack /\ Depth' = Depth
        /\ pc' \in {"reserve", "root", "failed_cleanup"}
        /\ cap' = cap /\ objects' = objects /\ input' = input
        /\ result' = result /\ wildFree' = wildFree
    BY DEF InitStacks, ReserveStringBuffer, OutOfMemory, Raise, containers, store,
       call, Depth
  <1>3. /\ blocks' \in {blocks, blocks \union {"string"}}
        /\ strbuf' \in {strbuf, "tls", "heap", "null"}
    BY DEF InitStacks, ReserveStringBuffer, store, call
  <1>4. ErrorOK'
    BY <1>1 DEF InitStacks, ReserveStringBuffer, OutOfMemory, Raise, ErrorOK
  <1>5. ContainersOK' /\ StoreOK' /\ ObjectsOK' /\ CallOK' /\ InputOK'
    BY <1>1, <1>2, <1>3 DEF objects, ContainersOK, StoreOK, ObjectsOK, CallOK, InputOK
  <1>6. pc' \in Labels
    BY <1>2 DEF Labels
  <1>7. StackAccounting' /\ LabelFitsContainer'
    <2>1. pc \in {"init", "reserve"}
      BY DEF InitStacks, ReserveStringBuffer
    <2>2. QED
      BY <1>1, <1>2, <2>1 DEF IInv, StackAccounting, LabelFitsContainer, Parsing
  <1>8. QED
    BY <1>4, <1>5, <1>6, <1>7, TypeParts2 DEF IInv

LEMMA LeaveInvariant ==
  ASSUME IInv, Succeed \/ FailedCleanup
  PROVE  IInv'
  <1>1. ContainersOK /\ StoreOK /\ ObjectsOK /\ CallOK /\ ErrorOK /\ InputOK
    BY TypeParts DEF IInv
  <1>2. /\ UNCHANGED <<containers, cap, heap, lost, strbuf, err, oom, input>>
        /\ stack' = <<>> /\ pc' = "returned"
        /\ blocks' \subseteq blocks /\ wildFree' \in {wildFree, TRUE}
    BY DEF Succeed, FailedCleanup, FreeBuffers, objects
  <1>3. result' \in Nat
    <2>1. CASE Succeed
      <3>1. Len(stack) = 1
        BY <2>1 DEF Succeed, IInv, StackAccounting
      <3>2. stack[1] \in Nat
        <4>1. stack \in Seq(Nat) /\ 1 \in 1 .. Len(stack)
          BY <1>1, <3>1 DEF StoreOK
        <4>2. QED
          BY <4>1, ElementOfSeq
      <3>3. QED
        BY <2>1, <3>2 DEF Succeed
    <2>2. CASE FailedCleanup
      BY <2>2 DEF FailedCleanup
    <2>3. QED
      BY <2>1, <2>2
  <1>4. released' \subseteq Nat
    <2>1. {stack[i] : i \in 1 .. Len(stack)} \subseteq Nat
      BY <1>1, EntriesType, LenProperties DEF StoreOK
    <2>2. QED
      BY <1>1, <2>1 DEF Succeed, FailedCleanup, objects, ObjectsOK
  <1>5. StoreOK'
    <2>1. Len(stack') = 0 /\ stack' \in Seq(Nat)
      BY <1>2
    <2>2. QED
      BY <1>1, <1>2, <2>1 DEF StoreOK
  <1>6. ObjectsOK' /\ CallOK' /\ ErrorOK' /\ InputOK'
    BY <1>1, <1>2, <1>3, <1>4 DEF ObjectsOK, CallOK, ErrorOK, InputOK
  <1>7. QED
    BY <1>2, <1>5, <1>6, StopKeeps

LEMMA InvariantStep == IInv /\ [Next]_vars => IInv'
  <1> SUFFICES ASSUME IInv, [Next]_vars PROVE IInv'
    OBVIOUS
  <1>1. CASE InitStacks \/ ReserveStringBuffer
    BY <1>1, EnterInvariant
  <1>2. CASE \E t \in Tokens : Step(t)
    BY <1>2, StepInvariant
  <1>3. CASE RetryAsNan
    BY <1>3, RetryInvariant
  <1>4. CASE Succeed \/ FailedCleanup
    BY <1>4, LeaveInvariant
  <1>5. CASE UNCHANGED vars
    <2>1. /\ pc' = pc /\ ctn' = ctn /\ base' = base /\ stack' = stack /\ cap' = cap
          /\ blocks' = blocks /\ heap' = heap /\ released' = released /\ lost' = lost
          /\ strbuf' = strbuf /\ result' = result /\ wildFree' = wildFree
          /\ err' = err /\ oom' = oom /\ input' = input
      BY <1>5 DEF vars, containers, store, objects, call
    <2>2. TypeOK' /\ LabelFitsContainer'
      BY <2>1 DEF IInv, TypeOK, LabelFitsContainer, Top, Depth
    <2>3. StackAccounting'
      BY <2>1 DEF IInv, StackAccounting, Parsing, Above, Held, KeyPending, NanPending, Depth
    <2>4. QED
      BY <2>2, <2>3 DEF IInv
  <1>6. QED
    BY <1>1, <1>2, <1>3, <1>4, <1>5 DEF Next, Returned

LEMMA Invariant == Spec => []IInv
  BY InitInvariant, InvariantStep, PTL DEF Spec

\* The variables keep their kinds in every reachable state: in particular the
\* container stack stays within the MaxDepth entries that the thread's buffer
\* holds, and the object stack within its capacity.
THEOREM TypeCorrect == Spec => []TypeOK
  <1>1. IInv => TypeOK
    BY DEF IInv
  <1>2. QED
    BY <1>1, Invariant, PTL

\* The object stack is exactly the entries that the counts of the open
\* containers account for, so no closing bracket takes an entry of an outer
\* container (the assert on list_val_start) and a finished document leaves
\* one object (the assert at the label success).
THEOREM AccountsAddUp == Spec => []StackAccounting
  <1>1. IInv => StackAccounting
    BY DEF IInv
  <1>2. QED
    BY <1>1, Invariant, PTL

\* Control never reads an element of an object as one of an array, or the
\* other way round.
THEOREM LabelsFit == Spec => []LabelFitsContainer
  <1>1. IInv => LabelFitsContainer
    BY DEF IInv
  <1>2. QED
    BY <1>1, Invariant, PTL

-----------------------------------------------------------------------------
(* What the steps of the parser do to the objects.                         *)

Untouched == UNCHANGED <<heap, stack, released, lost, result>>

\* The new reference is on the stack s, or lost.
PushedOrLost(s) ==
  \/ stack' = Append(s, FreshRef) /\ lost' = lost
  \/ stack' = s /\ lost' = lost \union {FreshRef}

Taken ==
  /\ \E kind \in Kinds : NewRef(kind, <<>>)
  /\ PushedOrLost(stack)
  /\ UNCHANGED <<released, result>>

\* The entries of the innermost container are the top of the stack.
Closable ==
  /\ CountedWidth \in Nat
  /\ \E b \in Nat : Len(stack) = b + CountedWidth

Built ==
  /\ Closable
  /\ \E kind \in Kinds : NewRef(kind, Popped)
  /\ PushedOrLost(Kept)
  /\ UNCHANGED <<released, result>>

InsertionFailed ==
  /\ Closable
  /\ NewRef("dict", <<>>)
  /\ released' = released \union {FreshRef} \union {Popped[i] : i \in 1 .. CountedWidth}
  /\ stack' = Kept
  /\ UNCHANGED <<lost, result>>

\* What they do to the blocks of the call, and to the exception.
Grown ==
  /\ UNCHANGED strbuf
  /\ \/ UNCHANGED <<cap, blocks>>
     \/ cap' = 2 * cap /\ blocks' = blocks \union {"stack"}

Excepted ==
  \/ UNCHANGED <<err, oom, lost>> /\ pc' # "failed_cleanup"
  \/ oom' = TRUE /\ err' # "none"
  \/ pc' = "failed_cleanup" /\ err' # "none" /\ UNCHANGED <<oom, lost>>

Outside == {"init", "reserve", "returned"}

Move ==
  /\ pc \notin Outside \union {"success", "failed_cleanup"}
  /\ pc' \notin Outside
  /\ Untouched \/ Taken \/ Built \/ InsertionFailed
  /\ Grown
  /\ Excepted

AtLabel == pc \notin Outside \union {"success", "failed_cleanup"}

LEMMA SyntaxErrorMoves == ASSUME AtLabel, SyntaxError PROVE Move
  BY DEF AtLabel, SyntaxError, Raise, Move, Untouched, Grown, Excepted, Outside,
         containers, store, objects, call

LEMMA OutOfMemoryMoves ==
  ASSUME AtLabel, NEW e \in {"memory", "decode"}, OutOfMemory(e),
         UNCHANGED <<containers, store, objects, call>>
  PROVE  Move
  BY DEF AtLabel, OutOfMemory, Raise, Move, Untouched, Grown, Excepted, Outside,
         containers, store, objects, call

LEMMA GotoMoves ==
  ASSUME AtLabel, NEW l \in Labels, l \notin Outside \union {"failed_cleanup"}, Goto(l)
  PROVE  Move
  BY DEF AtLabel, Goto, Move, Untouched, Grown, Excepted, Outside,
         containers, store, objects, call

LEMMA PushContainerMoves ==
  ASSUME AtLabel, NEW t, PushContainer(t) PROVE Move
  BY DEF AtLabel, PushContainer, Move, Untouched, Grown, Excepted, Outside,
         store, objects, call

LEMMA BeginContainerMoves ==
  ASSUME AtLabel, NEW t, BeginContainer(t) PROVE Move
  BY SyntaxErrorMoves, PushContainerMoves DEF BeginContainer

LEMMA ReadValueMoves ==
  ASSUME AtLabel, NEW t, ReadValue(t) PROVE Move
<1>0. t \in Kinds  BY DEF ReadValue, Kinds
<1>1. CASE /\ Pushed(stack, FreshRef)
           /\ NewRef(t, <<>>)
           /\ Counted
           /\ UNCHANGED <<released, lost, call, err, oom>>
  <2>1. pc' \in {"arr_val_end", "obj_val_end"}  BY <1>1 DEF Counted, ValueEnd
  <2>2. Taken  BY <1>0, <1>1 DEF Taken, PushedOrLost, Pushed, call
  <2>3. Grown  BY <1>1 DEF Grown, Pushed, call
  <2>. QED  BY <1>1, <2>1, <2>2, <2>3 DEF AtLabel, Move, Excepted, Outside
<1>2. CASE OutOfMemory("decode") /\ UNCHANGED <<containers, store, objects, call>>
  BY <1>2, OutOfMemoryMoves
<1>3. CASE /\ PushFailed(stack)
           /\ NewRef(t, <<>>)
           /\ lost' = lost \union {FreshRef}
           /\ OutOfMemory("decode")
           /\ UNCHANGED <<containers, released, call>>
  <2>1. Taken  BY <1>0, <1>3 DEF Taken, PushedOrLost, PushFailed, call
  <2>. QED
    BY <1>3, <2>1 DEF AtLabel, Move, Grown, Excepted, Outside, PushFailed, OutOfMemory, Raise, call
<1>4. CASE /\ PushFailed(stack)
           /\ OutOfMemory("decode")
           /\ UNCHANGED <<containers, objects, call>>
  BY <1>4 DEF AtLabel, Move, Untouched, Grown, Excepted, Outside, PushFailed, OutOfMemory, Raise,
              objects, call
<1>5. CASE /\ PushFailed(stack)
           /\ pc' = "nan_retry"
           /\ err' = "memory"
           /\ oom' = TRUE
           /\ UNCHANGED <<containers, objects, call>>
  BY <1>5 DEF AtLabel, Move, Untouched, Grown, Excepted, Outside, PushFailed, objects, call
<1>. QED  BY <1>1, <1>2, <1>3, <1>4, <1>5 DEF ReadValue

LEMMA ReadKeyMoves ==
  ASSUME AtLabel, ReadKey PROVE Move
<1>0. "key" \in Kinds  BY DEF Kinds
<1>1. CASE /\ Pushed(stack, FreshRef)
           /\ NewRef("key", <<>>)
           /\ pc' = "obj_key_end"
           /\ UNCHANGED <<containers, released, lost, call, err, oom>>
  <2>1. Taken  BY <1>0, <1>1 DEF Taken, PushedOrLost, Pushed, call
  <2>2. Grown  BY <1>1 DEF Grown, Pushed, call
  <2>. QED  BY <1>1, <2>1, <2>2 DEF AtLabel, Move, Excepted, Outside
<1>2. CASE OutOfMemory("decode") /\ UNCHANGED <<containers, store, objects, call>>
  BY <1>2, OutOfMemoryMoves
<1>3. CASE /\ PushFailed(stack)
           /\ NewRef("key", <<>>)
           /\ lost' = lost \union {FreshRef}
           /\ OutOfMemory("decode")
           /\ UNCHANGED <<containers, released, call>>
  <2>1. Taken  BY <1>0, <1>3 DEF Taken, PushedOrLost, PushFailed, call
  <2>. QED
    BY <1>3, <2>1 DEF AtLabel, Move, Grown, Excepted, Outside, PushFailed, OutOfMemory, Raise, call
<1>. QED  BY <1>1, <1>2, <1>3 DEF ReadKey

LEMMA BuildContainerMoves ==
  ASSUME IInv, AtLabel, NEW kind \in {"list", "dict"}, BuildContainer(kind), Closable
  PROVE  Move
<1>0. kind \in Kinds  BY DEF Kinds
<1>1. CASE /\ Pushed(Kept, FreshRef)
           /\ PopContainer
           /\ UNCHANGED <<released, lost, call, err, oom>>
  <2>1. pc' \in {"doc_end", "arr_val_end", "obj_val_end"}  BY <1>1 DEF PopContainer, ValueEnd
  <2>2. Built  BY <1>0, <1>1 DEF Built, BuildContainer, PushedOrLost, Pushed, call
  <2>3. Grown  BY <1>1 DEF Grown, Pushed, call
  <2>. QED  BY <1>1, <2>1, <2>2, <2>3 DEF AtLabel, Move, Excepted, Outside
<1>2. CASE /\ PushFailed(Kept)
           /\ lost' = lost \union {FreshRef}
           /\ OutOfMemory("memory")
           /\ UNCHANGED <<containers, released, call>>
  <2>1. Built  BY <1>0, <1>2 DEF Built, BuildContainer, PushedOrLost, PushFailed, call
  <2>. QED
    BY <1>2, <2>1 DEF AtLabel, Move, Grown, Excepted, Outside, PushFailed, OutOfMemory, Raise, call
<1>. QED  BY <1>1, <1>2 DEF BuildContainer

LEMMA IsClosable ==
  ASSUME IInv, Depth > 0, Parsing, ~Pending PROVE Closable
<1>1. StoreOK /\ ContainersOK /\ TypeOK /\ StackAccounting  BY TypeParts DEF IInv
<1>2. base[Depth] \in Nat /\ Len(stack) = base[Depth] + CountedWidth
  BY <1>1, EntriesOnStack DEF Pending
<1>3. CountedWidth \in Nat  BY <1>1, TopType
<1>. QED  BY <1>2, <1>3 DEF Closable

LEMMA EndArrayMoves ==
  ASSUME IInv, AtLabel, EndArray, Closable PROVE Move
  BY BuildContainerMoves, OutOfMemoryMoves DEF EndArray, NoContainer

LEMMA EndObjectMoves ==
  ASSUME IInv, AtLabel, EndObject, Closable PROVE Move
<1>1. CASE BuildContainer("dict")  BY <1>1, BuildContainerMoves
<1>2. CASE NoContainer  BY <1>2, OutOfMemoryMoves DEF NoContainer
<1>3. CASE /\ NewRef("dict", <<>>)
           /\ released' = released \union {FreshRef} \union {Popped[i] : i \in 1 .. CountedWidth}
           /\ stack' = Kept
           /\ OutOfMemory("memory")
           /\ UNCHANGED <<containers, cap, blocks, lost, call>>
  <2>1. InsertionFailed  BY <1>3 DEF InsertionFailed, call
  <2>. QED
    BY <1>3, <2>1 DEF AtLabel, Move, Grown, Excepted, Outside, OutOfMemory, Raise, call
<1>. QED  BY <1>1, <1>2, <1>3 DEF EndObject

LEMMA StepMoves ==
  ASSUME IInv, NEW t \in Tokens, Step(t) PROVE Move
<1>. DEFINE looking == {"arr_val_begin", "arr_val_end", "obj_key_begin", "obj_val_end"}
<1>1. AtLabel
  BY DEF Step, ReadRoot, ArrValBegin, ArrValEnd, ObjKeyBegin, ObjKeyEnd, ObjValBegin, ObjValEnd,
         DocEnd, AtLabel, Outside
<1>2. pc \in looking => Closable
  <2>. SUFFICES ASSUME pc \in looking PROVE Closable
    OBVIOUS
  <2>1. Parsing /\ ~Pending  BY DEF Parsing, Pending, KeyPending, NanPending
  <2>2. Depth > 0  BY DEF IInv, LabelFitsContainer
  <2>. QED  BY <2>1, <2>2, IsClosable
<1>3. CASE ReadRoot(t)  BY <1>1, <1>3, PushContainerMoves DEF ReadRoot
<1>4. CASE ArrValBegin(t)
  BY <1>1, <1>2, <1>4, BeginContainerMoves, ReadValueMoves, EndArrayMoves, SyntaxErrorMoves
     DEF ArrValBegin
<1>5. CASE ArrValEnd(t)
  BY <1>1, <1>2, <1>5, GotoMoves, EndArrayMoves, SyntaxErrorMoves DEF ArrValEnd, Labels, Outside
<1>6. CASE ObjKeyBegin(t)
  BY <1>1, <1>2, <1>6, ReadKeyMoves, EndObjectMoves, SyntaxErrorMoves DEF ObjKeyBegin
<1>7. CASE ObjKeyEnd(t)
  BY <1>1, <1>7, GotoMoves, SyntaxErrorMoves DEF ObjKeyEnd, Labels, Outside
<1>8. CASE ObjValBegin(t)
  BY <1>1, <1>8, BeginContainerMoves, ReadValueMoves, SyntaxErrorMoves DEF ObjValBegin
<1>9. CASE ObjValEnd(t)
  BY <1>1, <1>2, <1>9, GotoMoves, EndObjectMoves, SyntaxErrorMoves DEF ObjValEnd, Labels, Outside
<1>10. CASE DocEnd(t)
  BY <1>1, <1>10, GotoMoves, SyntaxErrorMoves DEF DocEnd, Labels, Outside
<1>. QED  BY <1>3, <1>4, <1>5, <1>6, <1>7, <1>8, <1>9, <1>10 DEF Step

LEMMA RetryMoves == ASSUME RetryAsNan PROVE Move
<1>1. AtLabel  BY DEF RetryAsNan, AtLabel, Outside
<1>. QED  BY <1>1, ReadValueMoves, SyntaxErrorMoves DEF RetryAsNan

-----------------------------------------------------------------------------
(* Who owns the references.                                                *)

Entries(s) == {s[i] : i \in 1 .. Len(s)}
Distinct(s) == \A i, j \in 1 .. Len(s) : s[i] = s[j] => i = j

\* The references that containers hold.
Inner == UNION {ItemsOf(c) : c \in References}

ItemsOnce ==
  \A c, d \in References :
    \A i \in 1 .. Len(heap[c].items), j \in 1 .. Len(heap[d].items) :
      heap[c].items[i] = heap[d].items[j] => c = d /\ i = j

\* Every reference has exactly one place.
Shared(all, inner, onStack, back, gone, res) ==
  /\ inner \cap (onStack \union back \union gone) = {}
  /\ onStack \cap (back \union gone) = {}
  /\ back \cap gone = {}
  /\ res \notin inner \union onStack \union back \union gone
  /\ all = inner \union onStack \union back \union gone \union ({res} \ {0})

\* Inductive: that no slot repeats a reference needs that nothing is
\* forgotten, for the next reference is new to the history only.
OwnInv ==
  /\ Distinct(stack)
  /\ ItemsOnce
  /\ Shared(References, Inner, OnStack, released, lost, result)
  /\ pc # "returned" => result = 0

LEMMA InnerMembers ==
  \A x : x \in Inner <=> \E c \in References : \E i \in 1 .. Len(heap[c].items) : heap[c].items[i] = x
  BY DEF Inner, ItemsOf

LEMMA InnerMembers2 ==
  \A x : x \in Inner' <=>
          \E c \in References' : \E i \in 1 .. Len(heap'[c].items) : heap'[c].items[i] = x
  BY DEF Inner, ItemsOf

\* The references of the history are below the next one.
LEMMA FreshIsNew ==
  ASSUME ObjectsOK
  PROVE  FreshRef \in Nat \ {0} /\ FreshRef \notin References /\ 0 \notin References
  BY LenProperties DEF ObjectsOK, FreshRef, References

\* A new reference to an object that holds items.
LEMMA HeapGrows ==
  ASSUME ObjectsOK, NEW kind \in Kinds, NEW items \in Seq(Nat), NewRef(kind, items)
  PROVE  /\ References' = References \union {FreshRef}
         /\ \A c \in References : heap'[c] = heap[c]
         /\ heap'[FreshRef].items = items
<1>. DEFINE new == [kind |-> kind, items |-> items]
<1>1. new \in Ref /\ new.items = items  BY DEF Ref
<1>2. heap' = Append(heap, new)  BY DEF NewRef
<1>. HIDE DEF new
<1>3. /\ Len(heap') = Len(heap) + 1 /\ Len(heap) \in Nat
      /\ \A c \in 1 .. Len(heap) : heap'[c] = heap[c]
      /\ heap'[Len(heap) + 1] = new
  BY <1>1, <1>2, AppendProperties, LenProperties DEF ObjectsOK
<1>4. 1 .. Len(heap) + 1 = (1 .. Len(heap)) \union {Len(heap) + 1}  BY <1>3
<1>. QED  BY <1>1, <1>3, <1>4 DEF References, FreshRef

\* Its items, all owned by nobody else, are the new inner references.
LEMMA ItemsGrow ==
  ASSUME ObjectsOK, NEW kind \in Kinds, NEW items \in Seq(Nat), NewRef(kind, items),
         ItemsOnce, Distinct(items), Entries(items) \cap Inner = {}
  PROVE  ItemsOnce' /\ Inner' = Inner \union Entries(items)
<1>1. /\ References' = References \union {FreshRef}
      /\ \A c \in References : heap'[c] = heap[c]
      /\ heap'[FreshRef].items = items
  BY HeapGrows
<1>2. Inner' = Inner \union Entries(items)
  <2>1. ASSUME NEW x PROVE x \in Inner' <=> x \in Inner \union Entries(items)
    <3>1. x \in Inner' <=>
            \/ \E c \in References : \E i \in 1 .. Len(heap'[c].items) : heap'[c].items[i] = x
            \/ \E i \in 1 .. Len(items) : items[i] = x
      BY <1>1, InnerMembers2
    <3>2. (\E c \in References : \E i \in 1 .. Len(heap'[c].items) : heap'[c].items[i] = x)
            <=> x \in Inner
      BY <1>1, InnerMembers
    <3>. QED  BY <3>1, <3>2 DEF Entries
  <2>. QED  BY <2>1
<1>3. ASSUME NEW c \in References', NEW d \in References',
             NEW i \in 1 .. Len(heap'[c].items), NEW j \in 1 .. Len(heap'[d].items),
             heap'[c].items[i] = heap'[d].items[j]
      PROVE  c = d /\ i = j
  <2>1. CASE c \in References /\ d \in References
    <3>1. heap'[c] = heap[c] /\ heap'[d] = heap[d]  BY <1>1, <2>1
    <3>2. /\ i \in 1 .. Len(heap[c].items) /\ j \in 1 .. Len(heap[d].items)
          /\ heap[c].items[i] = heap[d].items[j]
      BY <1>3, <3>1
    <3>. QED  BY <2>1, <3>2 DEF ItemsOnce
  <2>2. CASE c = FreshRef /\ d = FreshRef
    BY <1>1, <1>3, <2>2 DEF Distinct
  <2>3. CASE c \in References /\ d = FreshRef
    <3>1. heap[c].items[i] \in Inner  BY <1>1, <2>3, InnerMembers
    <3>2. items[j] \in Entries(items)  BY <1>1, <2>3 DEF Entries
    <3>. QED  BY <1>1, <1>3, <2>3, <3>1, <3>2
  <2>4. CASE c = FreshRef /\ d \in References
    <3>1. heap[d].items[j] \in Inner  BY <1>1, <2>4, InnerMembers
    <3>2. items[i] \in Entries(items)  BY <1>1, <2>4 DEF Entries
    <3>. QED  BY <1>1, <1>3, <2>4, <3>1, <3>2
  <2>. QED  BY <1>1, <2>1, <2>2, <2>3, <2>4
<1>4. ItemsOnce'  BY <1>3 DEF ItemsOnce
<1>. QED  BY <1>2, <1>4

LEMMA EmptyItems ==
  <<>> \in Seq(Nat) /\ Entries(<<>>) = {} /\ Distinct(<<>>)
<1>1. <<>> \in Seq(Nat) /\ Len(<<>>) = 0  BY EmptySeq
<1>2. 1 .. 0 = {}  OBVIOUS
<1>. QED  BY <1>1, <1>2 DEF Entries, Distinct

\* Pushing a reference that is not among the entries.
LEMMA AppendEntries ==
  ASSUME NEW s \in Seq(Nat), NEW ref \in Nat
  PROVE  /\ Entries(Append(s, ref)) = Entries(s) \union {ref}
         /\ Distinct(s) /\ ref \notin Entries(s) => Distinct(Append(s, ref))
<1>. DEFINE w == Append(s, ref)
<1>1. /\ Len(w) = Len(s) + 1 /\ Len(s) \in Nat
      /\ \A i \in 1 .. Len(s) : w[i] = s[i]
      /\ w[Len(s) + 1] = ref
  BY AppendProperties, LenProperties
<1>. HIDE DEF w
<1>2. 1 .. Len(w) = (1 .. Len(s)) \union {Len(s) + 1}  BY <1>1
<1>3. Entries(w) = Entries(s) \union {ref}  BY <1>1, <1>2 DEF Entries
<1>4. ASSUME Distinct(s), ref \notin Entries(s) PROVE Distinct(w)
  BY <1>1, <1>2, <1>4 DEF Entries, Distinct
<1>. QED  BY <1>3, <1>4 DEF w

\* Popping a container splits the entries of the stack.
LEMMA PopEntries ==
  ASSUME StoreOK, Closable, Distinct(stack)
  PROVE  /\ Kept \in Seq(Nat) /\ Popped \in Seq(Nat)
         /\ Distinct(Kept) /\ Distinct(Popped)
         /\ Entries(Kept) \cap Entries(Popped) = {}
         /\ OnStack = Entries(Kept) \union Entries(Popped)
         /\ Entries(Popped) = {Popped[i] : i \in 1 .. CountedWidth}
<1>. DEFINE n == CountedWidth
<1>1. PICK b \in Nat : n \in Nat /\ Len(stack) = b + n  BY DEF Closable
<1>2. /\ Kept \in Seq(Nat) /\ Len(Kept) = b
      /\ \A i \in 1 .. b : Kept[i] = stack[i]
      /\ Popped \in Seq(Nat) /\ Len(Popped) = n
      /\ \A i \in 1 .. n : Popped[i] = stack[b + i]
  BY <1>1, PoppedProperties
<1>. HIDE DEF n
<1>3. /\ \A i \in 1 .. b : i \in 1 .. Len(stack)
      /\ \A i \in 1 .. n : b + i \in 1 .. Len(stack)
      /\ \A i \in 1 .. b, j \in 1 .. n : i # b + j
      /\ \A i, j \in 1 .. n : b + i = b + j => i = j
      /\ \A k \in 1 .. Len(stack) : k \in 1 .. b \/ \E i \in 1 .. n : k = b + i
  <2>1. \A k \in 1 .. Len(stack) : k \in 1 .. b \/ (k - b \in 1 .. n /\ k = b + (k - b))
    BY <1>1
  <2>. QED  BY <1>1, <2>1
<1>4. Distinct(Kept)
  <2>1. ASSUME NEW i \in 1 .. b, NEW j \in 1 .. b, Kept[i] = Kept[j] PROVE i = j
    <3>1. stack[i] = stack[j]  BY <1>2, <2>1
    <3>. QED  BY <1>3, <3>1 DEF Distinct
  <2>. QED  BY <1>2, <2>1 DEF Distinct
<1>5. Distinct(Popped)
  <2>1. ASSUME NEW i \in 1 .. n, NEW j \in 1 .. n, Popped[i] = Popped[j] PROVE i = j
    <3>1. stack[b + i] = stack[b + j]  BY <1>2, <2>1
    <3>2. b + i = b + j  BY <1>3, <3>1 DEF Distinct
    <3>. QED  BY <1>3, <3>2
  <2>. QED  BY <1>2, <2>1 DEF Distinct
<1>6. Entries(Kept) \cap Entries(Popped) = {}
  <2>1. ASSUME NEW i \in 1 .. b, NEW j \in 1 .. n PROVE Kept[i] # Popped[j]
    <3>1. stack[i] # stack[b + j]  BY <1>3 DEF Distinct
    <3>. QED  BY <1>2, <3>1
  <2>. QED  BY <1>2, <2>1 DEF Entries
<1>7. OnStack = Entries(Kept) \union Entries(Popped)
  <2>1. ASSUME NEW k \in 1 .. Len(stack) PROVE stack[k] \in Entries(Kept) \union Entries(Popped)
    BY <1>2, <1>3 DEF Entries
  <2>2. ASSUME NEW i \in 1 .. b PROVE Kept[i] \in OnStack
    BY <1>2, <1>3 DEF OnStack
  <2>3. ASSUME NEW i \in 1 .. n PROVE Popped[i] \in OnStack
    BY <1>2, <1>3 DEF OnStack
  <2>. QED  BY <1>2, <2>1, <2>2, <2>3 DEF Entries, OnStack
<1>8. Entries(Popped) = {Popped[i] : i \in 1 .. n}  BY <1>2 DEF Entries
<1>. QED  BY <1>2, <1>4, <1>5, <1>6, <1>7, <1>8 DEF n

\* Where a new reference goes.
LEMMA PlacedFresh ==
  ASSUME ObjectsOK, NEW s \in Seq(Nat), Distinct(s), Entries(s) \subseteq References,
         PushedOrLost(s)
  PROVE  /\ Distinct(stack')
         /\ \/ OnStack' = Entries(s) \union {FreshRef} /\ lost' = lost
            \/ OnStack' = Entries(s) /\ lost' = lost \union {FreshRef}
<1>1. FreshRef \in Nat /\ FreshRef \notin Entries(s)  BY FreshIsNew
<1>2. OnStack' = Entries(stack')  BY DEF OnStack, Entries
<1>3. CASE stack' = Append(s, FreshRef) /\ lost' = lost
  BY <1>1, <1>2, <1>3, AppendEntries, Zenon
<1>4. CASE stack' = s /\ lost' = lost \union {FreshRef}
  BY <1>2, <1>4, Zenon
<1>. QED  BY <1>3, <1>4 DEF PushedOrLost

LEMMA TakenKeeps ==
  ASSUME ObjectsOK, StoreOK, OwnInv, pc # "returned", Taken PROVE OwnInv'
<1>0. stack \in Seq(Nat) /\ Distinct(stack)  BY DEF StoreOK, OwnInv
<1>1. PICK kind \in Kinds : NewRef(kind, <<>>)  BY DEF Taken
<1>2. OnStack = Entries(stack)  BY DEF OnStack, Entries
<1>3. Shared(References, Inner, OnStack, released, lost, result)  BY DEF OwnInv
<1>4. FreshRef \in Nat \ {0} /\ FreshRef \notin References  BY FreshIsNew
<1>5. References' = References \union {FreshRef}  BY <1>1, EmptyItems, HeapGrows
<1>6. ItemsOnce' /\ Inner' = Inner
  BY <1>1, EmptyItems, ItemsGrow DEF OwnInv
<1>7. /\ Distinct(stack')
      /\ \/ OnStack' = OnStack \union {FreshRef} /\ lost' = lost
         \/ OnStack' = OnStack /\ lost' = lost \union {FreshRef}
  BY <1>0, <1>2, <1>3, PlacedFresh DEF Shared, Taken
<1>8. released' = released /\ result' = result  BY DEF Taken
<1>9. Shared(References', Inner', OnStack', released', lost', result')
  BY <1>3, <1>4, <1>5, <1>6, <1>7, <1>8 DEF Shared
<1>. QED  BY <1>6, <1>7, <1>8, <1>9 DEF OwnInv

LEMMA BuiltKeeps ==
  ASSUME ObjectsOK, StoreOK, OwnInv, pc # "returned", Built PROVE OwnInv'
<1>0. Distinct(stack) /\ Closable  BY DEF OwnInv, Built
<1>1. PICK kind \in Kinds : NewRef(kind, Popped)  BY DEF Built
<1>2. /\ Kept \in Seq(Nat) /\ Popped \in Seq(Nat)
      /\ Distinct(Kept) /\ Distinct(Popped)
      /\ Entries(Kept) \cap Entries(Popped) = {}
      /\ OnStack = Entries(Kept) \union Entries(Popped)
  BY <1>0, PopEntries
<1>3. Shared(References, Inner, OnStack, released, lost, result)  BY DEF OwnInv
<1>4. FreshRef \in Nat \ {0} /\ FreshRef \notin References  BY FreshIsNew
<1>5. References' = References \union {FreshRef}  BY <1>1, <1>2, HeapGrows
<1>6. Entries(Popped) \cap Inner = {}  BY <1>2, <1>3 DEF Shared
<1>7. ItemsOnce' /\ Inner' = Inner \union Entries(Popped)
  BY <1>1, <1>2, <1>6, ItemsGrow DEF OwnInv
<1>8. Entries(Kept) \subseteq References  BY <1>2, <1>3 DEF Shared
<1>9. /\ Distinct(stack')
      /\ \/ OnStack' = Entries(Kept) \union {FreshRef} /\ lost' = lost
         \/ OnStack' = Entries(Kept) /\ lost' = lost \union {FreshRef}
  <2>1. PushedOrLost(Kept)  BY DEF Built
  <2>. QED  BY <1>2, <1>8, <2>1, PlacedFresh
<1>10. released' = released /\ result' = result  BY DEF Built
<1>11. Shared(References', Inner', OnStack', released', lost', result')
  <2>. DEFINE kept == Entries(Kept)
              popped == Entries(Popped)
  <2>. HIDE DEF kept, popped
  <2>. QED
    BY <1>2, <1>3, <1>4, <1>5, <1>7, <1>9, <1>10 DEF Shared, kept, popped
<1>. QED  BY <1>7, <1>9, <1>10, <1>11 DEF OwnInv

LEMMA InsertionFailedKeeps ==
  ASSUME ObjectsOK, StoreOK, OwnInv, pc # "returned", InsertionFailed PROVE OwnInv'
<1>0. Distinct(stack) /\ Closable  BY DEF OwnInv, InsertionFailed
<1>1. NewRef("dict", <<>>) /\ "dict" \in Kinds  BY DEF InsertionFailed, Kinds
<1>2. /\ Distinct(Kept)
      /\ Entries(Kept) \cap Entries(Popped) = {}
      /\ OnStack = Entries(Kept) \union Entries(Popped)
      /\ Entries(Popped) = {Popped[i] : i \in 1 .. CountedWidth}
  BY <1>0, PopEntries
<1>3. Shared(References, Inner, OnStack, released, lost, result)  BY DEF OwnInv
<1>4. FreshRef \in Nat \ {0} /\ FreshRef \notin References  BY FreshIsNew
<1>5. References' = References \union {FreshRef}  BY <1>1, EmptyItems, HeapGrows
<1>6. ItemsOnce' /\ Inner' = Inner  BY <1>1, EmptyItems, ItemsGrow DEF OwnInv
<1>7. stack' = Kept  BY DEF InsertionFailed
<1>8. OnStack' = Entries(stack')  BY DEF OnStack, Entries
<1>9. OnStack' = Entries(Kept) /\ Distinct(stack')  BY <1>2, <1>7, <1>8, Zenon
<1>10. released' = released \union {FreshRef} \union Entries(Popped)
  BY <1>2, Zenon DEF InsertionFailed
<1>11. lost' = lost /\ result' = result  BY DEF InsertionFailed
<1>12. Shared(References', Inner', OnStack', released', lost', result')
  BY <1>2, <1>3, <1>4, <1>5, <1>6, <1>9, <1>10, <1>11 DEF Shared
<1>. QED  BY <1>6, <1>9, <1>11, <1>12 DEF OwnInv

\* The heap is left alone.
LEMMA SameHeap ==
  ASSUME heap' = heap
  PROVE  References' = References /\ Inner' = Inner /\ (ItemsOnce => ItemsOnce')
  BY DEF References, Inner, ItemsOf, ItemsOnce

LEMMA UntouchedKeeps ==
  ASSUME OwnInv, pc # "returned" \/ pc' = "returned", Untouched PROVE OwnInv'
<1>1. OnStack' = OnStack /\ Distinct(stack')  BY DEF Untouched, OnStack, OwnInv
<1>2. References' = References /\ Inner' = Inner /\ ItemsOnce'
  BY SameHeap DEF Untouched, OwnInv
<1>. QED  BY <1>1, <1>2 DEF Untouched, OwnInv, Shared

\* The cleanup gives back whatever is on the stack.
LEMMA CleanupKeeps ==
  ASSUME OwnInv, FailedCleanup PROVE OwnInv'
<1>1. References' = References /\ Inner' = Inner /\ ItemsOnce'
  BY SameHeap DEF FailedCleanup, OwnInv
<1>2. OnStack' = {} /\ Distinct(stack')
  <2>1. stack' = <<>> /\ OnStack' = Entries(stack')  BY DEF FailedCleanup, OnStack, Entries
  <2>. QED  BY <2>1, EmptyItems
<1>3. /\ released' = released \union OnStack
      /\ lost' = lost /\ result = 0 /\ result' = 0 /\ pc' = "returned"
  BY DEF FailedCleanup, OnStack, OwnInv
<1>4. Shared(References, Inner, OnStack, released, lost, result)  BY DEF OwnInv
<1>5. Shared(References', Inner', OnStack', released', lost', result')
  BY <1>1, <1>2, <1>3, <1>4 DEF Shared
<1>. QED  BY <1>1, <1>2, <1>3, <1>5 DEF OwnInv

\* One object is left when the text has ended, and it is the result.
LEMMA OneIsLeft ==
  ASSUME IInv, OwnInv, pc = "success"
  PROVE  OnStack = {stack[1]} /\ stack[1] \in References
<1>1. Len(stack) = 1  BY DEF IInv, StackAccounting
<1>2. 1 .. 1 = {1}  OBVIOUS
<1>3. OnStack = {stack[1]}  BY <1>1, <1>2 DEF OnStack
<1>. QED  BY <1>3 DEF OwnInv, Shared

LEMMA SucceedKeeps ==
  ASSUME IInv, OwnInv, Succeed PROVE OwnInv'
<1>1. References' = References /\ Inner' = Inner /\ ItemsOnce'
  BY SameHeap DEF Succeed, objects, OwnInv
<1>2. OnStack' = {} /\ Distinct(stack')
  <2>1. stack' = <<>> /\ OnStack' = Entries(stack')  BY DEF Succeed, OnStack, Entries
  <2>. QED  BY <2>1, EmptyItems
<1>3. OnStack = {stack[1]} /\ stack[1] \in References  BY OneIsLeft DEF Succeed
<1>4. 0 \notin References  BY FreshIsNew, TypeParts DEF IInv
<1>5. /\ result = 0 /\ result' = stack[1] /\ pc' = "returned"
      /\ released' = released /\ lost' = lost
  BY DEF Succeed, OwnInv, objects
<1>6. Shared(References, Inner, OnStack, released, lost, result)  BY DEF OwnInv
<1>7. Shared(References', Inner', OnStack', released', lost', result')
  BY <1>1, <1>2, <1>3, <1>4, <1>5, <1>6 DEF Shared
<1>. QED  BY <1>1, <1>2, <1>5, <1>7 DEF OwnInv

LEMMA MoveKeeps ==
  ASSUME IInv, OwnInv, Move PROVE OwnInv'
<1>1. ObjectsOK /\ StoreOK  BY TypeParts DEF IInv
<1>2. pc # "returned"  BY DEF Move, Outside
<1>. QED
  BY <1>1, <1>2, UntouchedKeeps, TakenKeeps, BuiltKeeps, InsertionFailedKeeps DEF Move

LEMMA InitOwns == ASSUME Init PROVE OwnInv
<1>1. References = {} /\ Inner = {}
  <2>1. heap = <<>> /\ Len(<<>>) = 0  BY EmptySeq DEF Init
  <2>. QED  BY <2>1 DEF References, Inner
<1>2. OnStack = {} /\ Distinct(stack)
  <2>1. stack = <<>> /\ OnStack = Entries(stack)  BY DEF Init, OnStack, Entries
  <2>. QED  BY <2>1, EmptyItems
<1>. QED  BY <1>1, <1>2 DEF Init, OwnInv, ItemsOnce, Shared

LEMMA NextOwns == ASSUME IInv, OwnInv, [Next]_vars PROVE OwnInv'
<1>1. CASE InitStacks
  BY <1>1, UntouchedKeeps DEF InitStacks, Untouched, store, objects, call
<1>2. CASE ReserveStringBuffer
  BY <1>2, UntouchedKeeps DEF ReserveStringBuffer, Untouched, objects
<1>3. CASE \E t \in Tokens : Step(t)  BY <1>3, StepMoves, MoveKeeps
<1>4. CASE RetryAsNan  BY <1>4, RetryMoves, MoveKeeps
<1>5. CASE Succeed  BY <1>5, SucceedKeeps
<1>6. CASE FailedCleanup  BY <1>6, CleanupKeeps
<1>7. CASE UNCHANGED vars
  BY <1>7, UntouchedKeeps DEF vars, Untouched, store, objects, call
<1>. QED  BY <1>1, <1>2, <1>3, <1>4, <1>5, <1>6, <1>7 DEF Next, Returned

LEMMA OwnersDiffer == ASSUME OwnInv PROVE NoDoubleOwner
<1>1. Shared(References, Inner, OnStack, released, lost, result)  BY DEF OwnInv
<1>2. \A c \in References : ItemsOf(c) \subseteq Inner  BY DEF Inner
<1>. QED  BY <1>1, <1>2 DEF OwnInv, NoDoubleOwner, Shared, Distinct, ItemsOnce

LEMMA AllArePlaced == ASSUME OwnInv PROVE NothingForgotten
  BY DEF OwnInv, NothingForgotten, Shared, Inner

-----------------------------------------------------------------------------
(* How the call ends.                                                      *)

\* The buffers of the call that are not the thread's own.
OwnBlocks == (IF strbuf = "heap" THEN {"string"} ELSE {})
               \union (IF cap > InitCap THEN {"stack"} ELSE {})

\* Inductive: what FreeBuffers tests tells the blocks there are, and an
\* exception that no failed allocation set is on its way out.
ExitInv ==
  /\ pc \in {"init", "reserve"} => strbuf = "uninit"
  /\ blocks = IF pc = "returned" THEN {} ELSE OwnBlocks
  /\ pc = "failed_cleanup" \/ (pc = "returned" /\ result = 0) => err # "none"
  /\ ~oom => /\ lost = {}
             /\ err # "none" => pc = "failed_cleanup" \/ (pc = "returned" /\ result = 0)

LEMMA InitExits == ASSUME Init PROVE ExitInv
  BY SizeAssumption DEF Init, ExitInv, OwnBlocks

LEMMA GrownBlocks ==
  ASSUME StoreOK, Grown, blocks = OwnBlocks PROVE blocks' = OwnBlocks'
<1>1. cap \in Nat /\ InitCap \in Nat \ {0} /\ InitCap <= cap  BY SizeAssumption DEF StoreOK
<1>2. CASE UNCHANGED <<cap, blocks>>  BY <1>2 DEF Grown, OwnBlocks
<1>3. CASE cap' = 2 * cap /\ blocks' = blocks \union {"stack"}
  <2>1. cap' > InitCap  BY <1>1, <1>3
  <2>2. strbuf' = strbuf  BY DEF Grown
  <2>. QED  BY <1>3, <2>1, <2>2 DEF OwnBlocks
<1>. QED  BY <1>2, <1>3 DEF Grown

LEMMA MoveExits ==
  ASSUME IInv, ExitInv, Move PROVE ExitInv'
<1>1. StoreOK  BY TypeParts DEF IInv
<1>2. blocks = OwnBlocks  BY DEF ExitInv, Move, Outside
<1>3. blocks' = OwnBlocks'  BY <1>1, <1>2, GrownBlocks DEF Move
<1>4. /\ pc \notin {"failed_cleanup", "returned"}
      /\ pc' \notin {"init", "reserve", "returned"}
  BY DEF Move, Outside
<1>. QED  BY <1>3, <1>4 DEF ExitInv, Move, Excepted

LEMMA InitStacksExits ==
  ASSUME ExitInv, InitStacks PROVE ExitInv'
  BY DEF ExitInv, InitStacks, OutOfMemory, Raise, OwnBlocks, store, objects, call

LEMMA ReserveExits ==
  ASSUME ExitInv, ReserveStringBuffer PROVE ExitInv'
<1>1. /\ strbuf = "uninit" /\ cap' = cap /\ lost' = lost
      /\ blocks = IF cap > InitCap THEN {"stack"} ELSE {}
  BY DEF ExitInv, ReserveStringBuffer, OwnBlocks, objects
<1>2. blocks' = OwnBlocks'
  BY <1>1 DEF ReserveStringBuffer, OwnBlocks
<1>3. \/ pc' = "root" /\ UNCHANGED <<err, oom>>
      \/ pc' = "failed_cleanup" /\ err' = "memory" /\ oom' = TRUE
  BY DEF ReserveStringBuffer, OutOfMemory, Raise
<1>4. pc = "reserve"  BY DEF ReserveStringBuffer
<1>. QED  BY <1>1, <1>2, <1>3, <1>4 DEF ExitInv

LEMMA FreeBuffersFrees ==
  ASSUME ExitInv, pc # "returned", FreeBuffers PROVE blocks' = {}
  BY DEF ExitInv, OwnBlocks, FreeBuffers

LEMMA SucceedExits ==
  ASSUME IInv, OwnInv, ExitInv, Succeed PROVE ExitInv'
<1>1. stack[1] # 0
  <2>1. ObjectsOK  BY TypeParts DEF IInv
  <2>. QED  BY <2>1, OneIsLeft, FreshIsNew DEF Succeed
<1>2. blocks' = {}  BY FreeBuffersFrees DEF Succeed
<1>3. /\ pc = "success" /\ pc' = "returned" /\ result' # 0
      /\ lost' = lost /\ err' = err /\ oom' = oom
  BY <1>1 DEF Succeed, objects
<1>. QED  BY <1>2, <1>3 DEF ExitInv

LEMMA CleanupExits ==
  ASSUME ExitInv, FailedCleanup PROVE ExitInv'
<1>1. blocks' = {}  BY FreeBuffersFrees DEF FailedCleanup
<1>2. /\ pc = "failed_cleanup" /\ pc' = "returned" /\ result' = 0
      /\ lost' = lost /\ err' = err /\ oom' = oom
  BY DEF FailedCleanup
<1>. QED  BY <1>1, <1>2 DEF ExitInv

LEMMA NextExits == ASSUME IInv, OwnInv, ExitInv, [Next]_vars PROVE ExitInv'
<1>1. CASE InitStacks  BY <1>1, InitStacksExits
<1>2. CASE ReserveStringBuffer  BY <1>2, ReserveExits
<1>3. CASE \E t \in Tokens : Step(t)  BY <1>3, StepMoves, MoveExits
<1>4. CASE RetryAsNan  BY <1>4, RetryMoves, MoveExits
<1>5. CASE Succeed  BY <1>5, SucceedExits
<1>6. CASE FailedCleanup  BY <1>6, CleanupExits
<1>7. CASE UNCHANGED vars
  BY <1>7 DEF vars, store, objects, call, ExitInv, OwnBlocks
<1>. QED  BY <1>1, <1>2, <1>3, <1>4, <1>5, <1>6, <1>7 DEF Next, Returned

-----------------------------------------------------------------------------

LEMMA Ownership == Spec => [](IInv /\ OwnInv /\ ExitInv)
<1>1. Init => IInv /\ OwnInv /\ ExitInv  BY InitInvariant, InitOwns, InitExits
<1>2. IInv /\ OwnInv /\ ExitInv /\ [Next]_vars => (IInv /\ OwnInv /\ ExitInv)'
  BY InvariantStep, NextOwns, NextExits
<1>. QED  BY <1>1, <1>2, PTL DEF Spec

\* No reference is in two slots of the object stack or of the containers, and
\* none that was given back, lost or returned is still in one: whatever
\* failed before, failed_cleanup decrefs each object once, for texts of every
\* length and depth.
THEOREM OneOwner == Spec => []NoDoubleOwner
<1>1. OwnInv => NoDoubleOwner  BY OwnersDiffer
<1>. QED  BY <1>1, Ownership, PTL

\* Every reference the call was given is on the stack, in a container, given
\* back or returned, or was lost by a push that failed: no goto to
\* failed_cleanup leaves one behind.
THEOREM NothingIsForgotten == Spec => []NothingForgotten
<1>1. OwnInv => NothingForgotten  BY AllArePlaced
<1>. QED  BY <1>1, Ownership, PTL

\* A call that returns has freed the blocks it allocated, says NULL only with
\* an exception, and unless memory ran out has lost nothing and returns NULL
\* with every exception.
THEOREM ExitIsClean == Spec => []CleanExit
<1>1. ExitInv => CleanExit  BY DEF ExitInv, CleanExit
<1>. QED  BY <1>1, Ownership, PTL

-----------------------------------------------------------------------------
(* Sequences that functions spell.                                         *)

\* A set of numbers has a least one.
LEMMA Least == ASSUME NEW S \in SUBSET Nat, S # {} PROVE \E n \in S : \A m \in S : n <= m
<1>1. IsWellFoundedOn(OpToRel(<, Nat), Nat)  BY NatLessThanWellFounded
<1>2. PICK x \in S : \A y \in S : ~ (<<y, x>> \in OpToRel(<, Nat))  BY <1>1, WFMin
<1>3. \A y \in S : ~ (y < x)  BY <1>2 DEF OpToRel
<1> QED BY <1>3

\* A function on 1 .. n is a sequence, whatever its values.
LEMMA FunctionIsSeq ==
  ASSUME NEW n \in Nat, NEW f, f = [i \in 1 .. n |-> f[i]], NEW S, \A i \in 1 .. n : f[i] \in S
  PROVE  f \in Seq(S) /\ Len(f) = n
<1>1. f \in [1 .. n -> S]  OBVIOUS
<1>2. f \in Seq(S)  BY <1>1, SeqDef
<1>3. Len(f) \in Nat /\ DOMAIN f = 1 .. Len(f)  BY <1>2, LenProperties
<1>4. DOMAIN f = 1 .. n  BY <1>1
<1>5. 1 .. Len(f) = 1 .. n  BY <1>3, <1>4
<1>6. Len(f) = n
  <2>1. CASE Len(f) < n
    <3>1. n \in 1 .. n /\ n \notin 1 .. Len(f)  BY <1>3, <2>1
    <3>. QED  BY <1>5, <3>1
  <2>2. CASE n < Len(f)
    <3>1. Len(f) \in 1 .. Len(f) /\ Len(f) \notin 1 .. n  BY <1>3, <2>2
    <3>. QED  BY <1>5, <3>1
  <2>. QED  BY <1>3, <2>1, <2>2
<1>. QED  BY <1>2, <1>6

LEMMA FunctionLen ==
  ASSUME NEW n \in Nat, NEW f, f = [i \in 1 .. n |-> f[i]] PROVE Len(f) = n
<1>1. \A i \in 1 .. n : f[i] \in {f[j] : j \in 1 .. n}  OBVIOUS
<1>. QED  BY <1>1, FunctionIsSeq

LEMMA FunctionAppend ==
  ASSUME NEW n \in Nat, NEW f, f = [i \in 1 .. n |-> f[i]], NEW e
  PROVE  Append(f, e) = [i \in 1 .. n + 1 |-> IF i = n + 1 THEN e ELSE f[i]]
<1>. DEFINE S == {f[j] : j \in 1 .. n} \union {e}
            g == Append(f, e)
<1>1. (\A i \in 1 .. n : f[i] \in S) /\ e \in S  OBVIOUS
<1>. HIDE DEF S
<1>2. f \in Seq(S) /\ Len(f) = n  BY <1>1, FunctionIsSeq
<1>3. /\ g \in Seq(S) /\ Len(g) = n + 1
      /\ \A i \in 1 .. n : g[i] = f[i]
      /\ g[n + 1] = e
  BY <1>1, <1>2, AppendProperties
<1>. HIDE DEF g
<1>4. DOMAIN g = 1 .. n + 1 /\ g = [i \in 1 .. n + 1 |-> g[i]]
  BY <1>3, LenProperties
<1>5. \A i \in 1 .. n + 1 : g[i] = IF i = n + 1 THEN e ELSE f[i]  BY <1>3
<1>6. g = [i \in 1 .. n + 1 |-> IF i = n + 1 THEN e ELSE f[i]]  BY <1>4, <1>5
<1>. QED  BY <1>6 DEF g

\* The first entries of a sequence.
FrontIs(n, f) == SubSeq(f, 1, (n + 1) - 1) = [i \in 1 .. n |-> f[i]]

LEMMA FunctionFront ==
  ASSUME NEW n \in Nat, NEW f, f = [i \in 1 .. n + 1 |-> f[i]] PROVE FrontIs(n, f)
<1>. DEFINE S == {f[j] : j \in 1 .. n + 1}
            g == SubSeq(f, 1, (n + 1) - 1)
<1>1. \A i \in 1 .. n + 1 : f[i] \in S  OBVIOUS
<1>. HIDE DEF S
<1>2. f \in Seq(S) /\ Len(f) = n + 1  BY <1>1, FunctionIsSeq
<1>3. g = Outer(f)  BY <1>2 DEF Outer
<1>. HIDE DEF g
<1>4. Len(f) > 0 /\ Len(f) - 1 = n  BY <1>2
<1>5. /\ g \in Seq(S) /\ Len(g) = n
      /\ \A i \in 1 .. n : g[i] = f[i]
  BY <1>2, <1>3, <1>4, OuterProperties
<1>6. DOMAIN g = 1 .. n /\ g = [i \in 1 .. n |-> g[i]]  BY <1>5, LenProperties
<1>7. g = [i \in 1 .. n |-> f[i]]  BY <1>5, <1>6
<1>. QED  BY <1>7 DEF g, FrontIs

-----------------------------------------------------------------------------
(* The trees and the texts: what holds of both is said of Meaning(w), which *)
(* is the one or the other.                                                *)

Meaning(w) == IF w = "tree" THEN Tree ELSE Text

\* What a container of these items means, and what a scalar means.
Whole(w, kind, items) ==
  IF w = "tree" THEN <<IF kind = "list" THEN "array" ELSE "object", items>>
  ELSE Append(Unclosed(kind, items), IF kind = "list" THEN "rbrack" ELSE "rbrace")
Leaf(w, kind) ==
  IF w = "tree" THEN <<"scalar", kind>> ELSE <<IF kind = "key" THEN "str" ELSE kind>>

Node(w, h, f, ref) ==
  IF h[ref].kind \in {"list", "dict"}
    THEN Whole(w, h[ref].kind, [i \in 1 .. Len(h[ref].items) |-> f[h[ref].items[i]]])
    ELSE Leaf(w, h[ref].kind)

\* Items are older than their container.
Older(h) ==
  \A r \in 1 .. Len(h) : \A i \in 1 .. Len(h[r].items) : h[r].items[i] \in 1 .. r - 1

\* A node depends on the references before it only.
LEMMA NodeDepends ==
  ASSUME NEW w, NEW h, NEW k, NEW f, NEW g, NEW r \in 1 .. Len(h), Older(h), h[r] = k[r],
         \A i \in 1 .. r - 1 : f[i] = g[i]
  PROVE  Node(w, h, f, r) = Node(w, k, g, r)
<1>1. \A i \in 1 .. Len(h[r].items) : f[h[r].items[i]] = g[h[r].items[i]]  BY DEF Older
<1>2. [i \in 1 .. Len(h[r].items) |-> f[h[r].items[i]]]
        = [i \in 1 .. Len(k[r].items) |-> g[k[r].items[i]]]
  BY <1>1
<1>. QED  BY <1>2, Zenon DEF Node

TreeTo(w, h, f, n) == f = [r \in 1 .. n |-> Node(w, h, f, r)]

LEMMA TreeGrows ==
  ASSUME NEW w, NEW h, Len(h) \in Nat, Older(h), NEW n \in Nat, n + 1 <= Len(h),
         NEW f, TreeTo(w, h, f, n)
  PROVE  \E g : TreeTo(w, h, g, n + 1)
<1>. DEFINE g == [r \in 1 .. n + 1 |-> IF r = n + 1 THEN Node(w, h, f, n + 1) ELSE f[r]]
<1>1. \A r \in 1 .. n : g[r] = f[r]  OBVIOUS
<1>2. g[n + 1] = Node(w, h, f, n + 1)  OBVIOUS
<1>2a. g = [r \in 1 .. n + 1 |-> g[r]]  OBVIOUS
<1>. HIDE DEF g
<1>3. \A r \in 1 .. n : f[r] = Node(w, h, f, r)  BY DEF TreeTo
<1>4. ASSUME NEW r \in 1 .. n + 1 PROVE Node(w, h, f, r) = Node(w, h, g, r)
  <2>1. r \in 1 .. Len(h) /\ \A i \in 1 .. r - 1 : f[i] = g[i]  BY <1>1
  <2>. QED  BY <2>1, NodeDepends
<1>5. \A r \in 1 .. n + 1 : g[r] = Node(w, h, g, r)
  <2>1. TAKE r \in 1 .. n + 1
  <2>2. CASE r = n + 1  BY <1>2, <1>4, <2>2
  <2>3. CASE r # n + 1
    <3>1. r \in 1 .. n  BY <2>3
    <3>. QED  BY <1>1, <1>3, <1>4, <3>1
  <2>. QED  BY <2>2, <2>3
<1>6. g = [r \in 1 .. n + 1 |-> Node(w, h, g, r)]  BY <1>2a, <1>5
<1>. QED  BY <1>6 DEF TreeTo

LEMMA TreesExist ==
  ASSUME NEW w, NEW h, Len(h) \in Nat, Older(h) PROVE \E f : TreeTo(w, h, f, Len(h))
<1>. DEFINE Bad == {n \in 0 .. Len(h) : ~ \E f : TreeTo(w, h, f, n)}
<1>1. Bad \in SUBSET Nat  OBVIOUS
<1>2. 0 \notin Bad
  <2>. DEFINE f == [r \in 1 .. 0 |-> r]
  <2>1. f = [r \in 1 .. 0 |-> Node(w, h, f, r)]  OBVIOUS
  <2>2. TreeTo(w, h, f, 0)  BY <2>1, Zenon DEF TreeTo
  <2>. QED  BY <2>2
<1>3. Bad = {}
  <2>1. SUFFICES ASSUME Bad # {} PROVE FALSE  OBVIOUS
  <2>2. PICK n \in Bad : \A m \in Bad : n <= m  BY <1>1, <2>1, Least
  <2>3. n \in Nat /\ n # 0 /\ n - 1 \in 0 .. Len(h) /\ n - 1 \notin Bad /\ n <= Len(h)
    BY <1>2, <2>2
  <2>4. PICK f : TreeTo(w, h, f, n - 1)  BY <2>3
  <2>5. n - 1 \in Nat /\ (n - 1) + 1 = n  BY <2>3
  <2>6. \E g : TreeTo(w, h, g, n)  BY <2>3, <2>4, <2>5, TreeGrows
  <2>. QED  BY <2>2, <2>6
<1>. QED  BY <1>3

Means(w, h, f, n) == \A r \in 1 .. n : f[r] = Node(w, h, f, r)

\* Two histories that agree up to n mean the same up to n.
LEMMA TreesAgree ==
  ASSUME NEW w, NEW h, NEW k, NEW f, NEW g, NEW n \in Nat, Len(h) \in Nat, n <= Len(h), Older(h),
         \A r \in 1 .. n : h[r] = k[r],
         Means(w, h, f, n), Means(w, k, g, n)
  PROVE  \A r \in 1 .. n : f[r] = g[r]
<1>. DEFINE Bad == {r \in 1 .. n : f[r] # g[r]}
<1>1. SUFFICES ASSUME Bad # {} PROVE FALSE  OBVIOUS
<1>2. Bad \in SUBSET Nat  OBVIOUS
<1>3. PICK r \in Bad : \A m \in Bad : r <= m  BY <1>1, <1>2, Least
<1>4. \A i \in 1 .. r - 1 : f[i] = g[i]
  <2>1. TAKE i \in 1 .. r - 1
  <2>2. i \in 1 .. n /\ ~ (r <= i)  OBVIOUS
  <2>. QED  BY <1>3, <2>2
<1>5. r \in 1 .. n /\ r \in 1 .. Len(h)  OBVIOUS
<1>6. Node(w, h, f, r) = Node(w, k, g, r)  BY <1>4, <1>5, NodeDepends
<1>. QED  BY <1>5, <1>6 DEF Means

\* The bodies of the two functions.
TreeNode(h, f, ref) ==
  IF h[ref].kind \in {"list", "dict"}
    THEN <<IF h[ref].kind = "list" THEN "array" ELSE "object",
           [i \in 1 .. Len(h[ref].items) |-> f[h[ref].items[i]]]>>
    ELSE <<"scalar", h[ref].kind>>
TextNode(h, f, ref) ==
  LET kind == h[ref].kind
  IN IF kind \in {"list", "dict"}
       THEN Append(Unclosed(kind, [i \in 1 .. Len(h[ref].items) |-> f[h[ref].items[i]]]),
                   IF kind = "list" THEN "rbrack" ELSE "rbrace")
       ELSE <<IF kind = "key" THEN "str" ELSE kind>>

LEMMA MeaningIs ==
  ASSUME NEW w \in {"tree", "text"}, Len(heap) \in Nat, Older(heap)
  PROVE  \A ref \in References : Meaning(w)[ref] = Node(w, heap, Meaning(w), ref)
<1>1. PICK f : f = [ref \in References |-> Node(w, heap, f, ref)]
  BY TreesExist DEF TreeTo, References
<1>2. CASE w = "tree"
  <2>1. \A g : [ref \in References |-> Node(w, heap, g, ref)]
                = [ref \in References |-> TreeNode(heap, g, ref)]
    BY <1>2 DEF Node, Whole, Leaf, TreeNode
  <2>2. f = [ref \in References |-> TreeNode(heap, f, ref)]  BY <1>1, <2>1
  <2>3. Tree = [ref \in References |-> TreeNode(heap, Tree, ref)]
    BY <2>2 DEF Tree, TreeNode
  <2>4. Tree = [ref \in References |-> Node(w, heap, Tree, ref)]  BY <2>1, <2>3
  <2>. QED  BY <1>2, <2>4 DEF Meaning
<1>3. CASE w = "text"
  <2>1. \A g : [ref \in References |-> Node(w, heap, g, ref)]
                = [ref \in References |-> TextNode(heap, g, ref)]
    BY <1>3 DEF Node, Whole, Leaf, TextNode
  <2>2. f = [ref \in References |-> TextNode(heap, f, ref)]  BY <1>1, <2>1
  <2>3. Text = [ref \in References |-> TextNode(heap, Text, ref)]
    BY <2>2 DEF Text, TextNode
  <2>4. Text = [ref \in References |-> Node(w, heap, Text, ref)]  BY <2>1, <2>3
  <2>. QED  BY <1>3, <2>4 DEF Meaning
<1>. QED  BY <1>2, <1>3

LEMMA MeaningIs2 ==
  ASSUME NEW w \in {"tree", "text"}, Len(heap') \in Nat, Older(heap')
  PROVE  \A ref \in References' : Meaning(w)'[ref] = Node(w, heap', Meaning(w)', ref)
<1>1. PICK f : f = [ref \in References' |-> Node(w, heap', f, ref)]
  BY TreesExist DEF TreeTo, References
<1>2. CASE w = "tree"
  <2>1. \A g : [ref \in References' |-> Node(w, heap', g, ref)]
                = [ref \in References' |-> TreeNode(heap', g, ref)]
    BY <1>2 DEF Node, Whole, Leaf, TreeNode
  <2>2. f = [ref \in References' |-> TreeNode(heap', f, ref)]  BY <1>1, <2>1
  <2>3. Tree' = [ref \in References' |-> TreeNode(heap', Tree', ref)]
    BY <2>2 DEF Tree, TreeNode
  <2>4. Tree' = [ref \in References' |-> Node(w, heap', Tree', ref)]  BY <2>1, <2>3
  <2>. QED  BY <1>2, <2>4 DEF Meaning
<1>3. CASE w = "text"
  <2>1. \A g : [ref \in References' |-> Node(w, heap', g, ref)]
                = [ref \in References' |-> TextNode(heap', g, ref)]
    BY <1>3 DEF Node, Whole, Leaf, TextNode
  <2>2. f = [ref \in References' |-> TextNode(heap', f, ref)]  BY <1>1, <2>1
  <2>3. Text' = [ref \in References' |-> TextNode(heap', Text', ref)]
    BY <2>2 DEF Text, TextNode
  <2>4. Text' = [ref \in References' |-> Node(w, heap', Text', ref)]  BY <2>1, <2>3
  <2>. QED  BY <1>3, <2>4 DEF Meaning
<1>. QED  BY <1>2, <1>3

\* A new reference leaves what the older ones mean alone.
LEMMA MeaningsKept ==
  ASSUME NEW w \in {"tree", "text"}, ObjectsOK, Older(heap),
         NEW kind \in Kinds, NEW items \in Seq(Nat), NewRef(kind, items),
         Entries(items) \subseteq References
  PROVE  /\ Older(heap')
         /\ \A ref \in References : Meaning(w)'[ref] = Meaning(w)[ref] /\ heap'[ref] = heap[ref]
         /\ Meaning(w)'[FreshRef] = Node(w, heap', Meaning(w)', FreshRef)
         /\ heap'[FreshRef].kind = kind
         /\ heap'[FreshRef].items = items
<1>. DEFINE new == [kind |-> kind, items |-> items]
<1>1. new \in Ref /\ new.items = items /\ new.kind = kind  BY DEF Ref
<1>2. heap' = Append(heap, new)  BY DEF NewRef
<1>. HIDE DEF new
<1>3. /\ Len(heap') = Len(heap) + 1 /\ Len(heap) \in Nat
      /\ \A c \in 1 .. Len(heap) : heap'[c] = heap[c]
      /\ heap'[Len(heap) + 1] = new
  BY <1>1, <1>2, AppendProperties, LenProperties DEF ObjectsOK
<1>4. FreshRef = Len(heap) + 1 /\ References = 1 .. Len(heap) /\ References' = 1 .. Len(heap) + 1
  BY <1>3 DEF FreshRef, References
<1>5. Older(heap')
  <2>1. ASSUME NEW r \in 1 .. Len(heap'), NEW i \in 1 .. Len(heap'[r].items)
        PROVE  heap'[r].items[i] \in 1 .. r - 1
    <3>1. CASE r \in 1 .. Len(heap)
      <4>1. heap'[r] = heap[r]  BY <1>3, <3>1
      <4>. QED  BY <3>1, <4>1 DEF Older
    <3>2. CASE r = Len(heap) + 1
      <4>1. heap'[r].items = items  BY <1>1, <1>3, <3>2
      <4>2. items[i] \in 1 .. Len(heap)  BY <1>4, <4>1 DEF Entries
      <4>. QED  BY <1>3, <3>2, <4>1, <4>2
    <3>. QED  BY <1>3, <3>1, <3>2
  <2>. QED  BY <2>1 DEF Older
<1>6. \A ref \in References : Meaning(w)[ref] = Node(w, heap, Meaning(w), ref)  BY <1>3, MeaningIs
<1>7. \A ref \in References' : Meaning(w)'[ref] = Node(w, heap', Meaning(w)', ref)
  BY <1>3, <1>5, MeaningIs2
<1>8. \A ref \in 1 .. Len(heap) : Meaning(w)[ref] = Meaning(w)'[ref]
  <2>. DEFINE n == Len(heap)
              h == heap
              k == heap'
              f == Meaning(w)
              g == Meaning(w)'
  <2>1. /\ n \in Nat /\ Len(h) \in Nat /\ n <= Len(h) /\ Older(h)
        /\ \A r \in 1 .. n : h[r] = k[r]
        /\ Means(w, h, f, n) /\ Means(w, k, g, n)
    BY <1>3, <1>4, <1>6, <1>7 DEF Means
  <2>. HIDE DEF n, h, k, f, g
  <2>2. \A r \in 1 .. n : f[r] = g[r]  BY <2>1, TreesAgree
  <2>. QED  BY <2>2 DEF n, f, g
<1>9. FreshRef \in References'  BY <1>3, <1>4
<1>. QED  BY <1>1, <1>3, <1>4, <1>5, <1>7, <1>8, <1>9

-----------------------------------------------------------------------------
(* The frames.                                                             *)

Slots(f, s, lo, hi) == [i \in 1 .. hi - lo |-> f[s[lo + i]]]

\* Container d with what its entries mean.
FrameOf(w, d) == [arr |-> ctn[d].arr, items |-> Slots(Meaning(w), stack, base[d], Above(d))]
FramesOf(w) == [d \in 1 .. Depth |-> FrameOf(w, d)]

\* The containers of the accounts lie one above the other on the stack.
LEMMA BasesFit ==
  ASSUME IInv, Parsing, Depth > 0
  PROVE  \A d \in 1 .. Depth : /\ base[d] \in Nat /\ Above(d) \in Nat
                               /\ base[d] <= Above(d) /\ Above(d) <= Len(stack)
<1>1. /\ Depth \in Nat /\ Len(stack) \in Nat
      /\ \A d \in 1 .. Depth : base[d] \in Nat /\ ctn[d].arr \in BOOLEAN /\ ctn[d].len \in Nat
  BY AccountsTypes
<1>2. \A d \in 1 .. Depth : Above(d) = base[d] + Held(d)  BY DEF IInv, StackAccounting
<1>3. \A d \in 1 .. Depth : Held(d) \in Nat
  <2>1. TAKE d \in 1 .. Depth
  <2>2. Width(ctn[d].arr, ctn[d].len) \in Nat  BY <1>1 DEF Width
  <2>. QED  BY <2>2 DEF Held
<1>4. \A d \in 1 .. Depth : Above(d) \in Nat /\ base[d] <= Above(d)  BY <1>1, <1>2, <1>3
<1>5. \A d \in 1 .. Depth : Above(d) <= Len(stack)
  <2>. DEFINE Bad == {n \in Nat : \E d \in 1 .. Depth : n = Depth - d /\ ~ (Above(d) <= Len(stack))}
  <2>1. SUFFICES Bad = {}
    <3>1. \A d \in 1 .. Depth : Depth - d \in Nat  BY <1>1
    <3>. QED  BY <3>1
  <2>2. SUFFICES ASSUME Bad # {} PROVE FALSE  OBVIOUS
  <2>3. PICK n \in Bad : \A m \in Bad : n <= m
    <3>1. Bad \in SUBSET Nat  OBVIOUS
    <3>. QED  BY <2>2, <3>1, Least
  <2>4. PICK d \in 1 .. Depth : n = Depth - d /\ ~ (Above(d) <= Len(stack))  OBVIOUS
  <2>5. d # Depth
    <3>1. Above(Depth) = Len(stack)  BY DEF Above
    <3>. QED  BY <1>1, <2>4, <3>1
  <2>6. d + 1 \in 1 .. Depth /\ Above(d) = base[d + 1]  BY <1>1, <2>5 DEF Above
  <2>7. base[d + 1] <= Above(d + 1) /\ base[d + 1] \in Nat /\ Above(d + 1) \in Nat
    BY <1>1, <1>4, <2>6
  <2>8. ~ (Above(d + 1) <= Len(stack))  BY <1>1, <2>4, <2>6, <2>7
  <2>9. Depth - (d + 1) \in Bad
    <3>1. Depth - (d + 1) \in Nat  BY <1>1, <2>6
    <3>. QED  BY <2>6, <2>8, <3>1
  <2>10. n <= Depth - (d + 1)  BY <2>3, <2>9
  <2>. QED  BY <1>1, <2>4, <2>10
<1>. QED  BY <1>1, <1>4, <1>5

\* Up to here the stack and what its entries mean have not changed.
Same(f, g, s, r, hi) == \A k \in 1 .. hi : r[k] = s[k] /\ g[s[k]] = f[s[k]]

\* The entries of a container are the same when the stack is the same
\* up to where they end.
LEMMA SlotsKept ==
  ASSUME NEW f, NEW g, NEW s, NEW r, NEW lo \in Nat, NEW hi \in Nat, Same(f, g, s, r, hi)
  PROVE  Slots(g, r, lo, hi) = Slots(f, s, lo, hi)
<1>1. \A i \in 1 .. hi - lo : lo + i \in 1 .. hi  OBVIOUS
<1>2. \A i \in 1 .. hi - lo : g[r[lo + i]] = f[s[lo + i]]  BY <1>1 DEF Same
<1>. QED  BY <1>2 DEF Slots

\* One entry more.
OneMore(f, g, s, r, lo, hi) ==
  Slots(g, r, lo, hi + 1) = Append(Slots(f, s, lo, hi), g[r[hi + 1]])

LEMMA SlotsGrow ==
  ASSUME NEW f, NEW g, NEW s, NEW r, NEW lo \in Nat, NEW hi \in Nat, lo <= hi,
         Same(f, g, s, r, hi)
  PROVE  OneMore(f, g, s, r, lo, hi)
<1>. DEFINE n == hi - lo
            a == Slots(f, s, lo, hi)
            e == g[r[hi + 1]]
<1>1. n \in Nat /\ (hi + 1) - lo = n + 1 /\ lo + (n + 1) = hi + 1  OBVIOUS
<1>2. a = [i \in 1 .. n |-> a[i]] /\ \A i \in 1 .. n : a[i] = f[s[lo + i]]  BY DEF Slots
<1>. HIDE DEF a, e
<1>3. Append(a, e) = [i \in 1 .. n + 1 |-> IF i = n + 1 THEN e ELSE a[i]]
  BY <1>1, <1>2, FunctionAppend
<1>4. \A i \in 1 .. n + 1 : g[r[lo + i]] = IF i = n + 1 THEN e ELSE a[i]
  <2>1. TAKE i \in 1 .. n + 1
  <2>2. CASE i = n + 1  BY <1>1, <2>2 DEF e
  <2>3. CASE i # n + 1
    <3>1. i \in 1 .. n /\ lo + i \in 1 .. hi  BY <2>3
    <3>. QED  BY <1>2, <2>3, <3>1 DEF Same
  <2>. QED  BY <2>2, <2>3
<1>5. Slots(g, r, lo, hi + 1) = [i \in 1 .. n + 1 |-> g[r[lo + i]]]  BY <1>1 DEF Slots
<1>6. Slots(g, r, lo, hi + 1) = [i \in 1 .. n + 1 |-> IF i = n + 1 THEN e ELSE a[i]]
  BY <1>4, <1>5
<1>. QED  BY <1>3, <1>6 DEF a, e, OneMore

\* A container that a step leaves alone.
LEMMA FrameKept ==
  ASSUME NEW w, NEW d, base[d] \in Nat, Above(d) \in Nat,
         Same(Meaning(w), Meaning(w)', stack, stack', Above(d)),
         base'[d] = base[d], Above(d)' = Above(d), ctn'[d].arr = ctn[d].arr
  PROVE  FrameOf(w, d)' = FrameOf(w, d)
<1>1. Slots(Meaning(w)', stack', base[d], Above(d)) = Slots(Meaning(w), stack, base[d], Above(d))
  BY SlotsKept
<1>. QED  BY <1>1 DEF FrameOf

\* A container that gets one more item.
LEMMA FrameGrows ==
  ASSUME NEW w, NEW d, NEW b \in Nat, base[d] \in Nat, base[d] <= b, Above(d) = b,
         Same(Meaning(w), Meaning(w)', stack, stack', b),
         base'[d] = base[d], Above(d)' = b + 1, ctn'[d].arr = ctn[d].arr
  PROVE  FrameOf(w, d)' = [arr |-> ctn[d].arr,
                           items |-> Append(FrameOf(w, d).items, Meaning(w)'[stack'[b + 1]])]
<1>1. Slots(Meaning(w)', stack', base[d], b + 1)
        = Append(Slots(Meaning(w), stack, base[d], b), Meaning(w)'[stack'[b + 1]])
  <2>1. OneMore(Meaning(w), Meaning(w)', stack, stack', base[d], b)  BY SlotsGrow, Zenon
  <2>. QED  BY <2>1 DEF OneMore
<1>2. FrameOf(w, d).items = Slots(Meaning(w), stack, base[d], b)  BY DEF FrameOf
<1>3. FrameOf(w, d)' = [arr |-> ctn'[d].arr,
                        items |-> Slots(Meaning(w)', stack', base'[d], Above(d)')]
  BY DEF FrameOf
<1>. QED  BY <1>1, <1>2, <1>3

\* The first q frames fs, with one item more in the last of them.
ItemAdded(fs, q, v) ==
  [d \in 1 .. q |-> IF d = q THEN [arr |-> fs[q].arr, items |-> Append(fs[q].items, v)]
                             ELSE fs[d]]

\* The frames, when a reference is pushed above container q: what was above it
\* is gone, and what the reference means is its last item.
LEMMA FramesPushed ==
  ASSUME NEW w, IInv, Parsing, NEW q \in 1 .. Depth, NEW b \in Nat, b = Above(q), Depth' = q,
         \A d \in 1 .. q : base'[d] = base[d] /\ ctn'[d].arr = ctn[d].arr,
         Len(stack') = b + 1, \A k \in 1 .. b : stack'[k] = stack[k],
         OnStack \subseteq References, \A ref \in References : Meaning(w)'[ref] = Meaning(w)[ref]
  PROVE  FramesOf(w)' = ItemAdded(FramesOf(w), q, Meaning(w)'[stack'[b + 1]])
<1>0. Depth \in Nat /\ Len(stack) \in Nat  BY AccountsTypes
<1>1. \A d \in 1 .. Depth : /\ base[d] \in Nat /\ Above(d) \in Nat
                            /\ base[d] <= Above(d) /\ Above(d) <= Len(stack)
  BY <1>0, BasesFit
<1>2. \A k \in 1 .. Len(stack) : Meaning(w)'[stack[k]] = Meaning(w)[stack[k]]  BY DEF OnStack
<1>3. \A d \in 1 .. q : d < q => Above(d)' = Above(d) /\ Above(d) <= b
  <2>1. TAKE d \in 1 .. q
  <2>2. SUFFICES ASSUME d < q PROVE Above(d)' = Above(d) /\ Above(d) <= b  OBVIOUS
  <2>3. d # Depth /\ d # Depth' /\ d + 1 \in 1 .. q  BY <1>0, <2>2
  <2>4. Above(d)' = base'[d + 1] /\ Above(d) = base[d + 1]  BY <2>3 DEF Above
  <2>5. base'[d + 1] = base[d + 1]  BY <2>3
  <2>. QED
    <3>. DEFINE above == Above(d)
    <3>1. \A e \in 1 .. q : e < q => base[e + 1] <= b
      <4>. DEFINE Bad == {n \in Nat : \E e \in 1 .. q : e < q /\ n = q - e /\ ~ (base[e + 1] <= b)}
      <4>1. SUFFICES Bad = {}
        <5>1. \A e \in 1 .. q : q - e \in Nat  OBVIOUS
        <5>. QED  BY <5>1
      <4>2. SUFFICES ASSUME Bad # {} PROVE FALSE  OBVIOUS
      <4>3. PICK n \in Bad : \A m \in Bad : n <= m
        <5>1. Bad \in SUBSET Nat  OBVIOUS
        <5>. QED  BY <4>2, <5>1, Least
      <4>4. PICK e \in 1 .. q : e < q /\ n = q - e /\ ~ (base[e + 1] <= b)  OBVIOUS
      <4>5. e + 1 \in 1 .. q /\ e + 1 \in 1 .. Depth  BY <1>0, <4>4
      <4>6. base[e + 1] \in Nat /\ base[e + 1] <= Above(e + 1) /\ Above(e + 1) \in Nat
        BY <1>1, <4>5
      <4>7. e + 1 # q  BY <4>4, <4>6
      <4>8. Above(e + 1) = base[(e + 1) + 1]  BY <1>0, <4>5, <4>7 DEF Above
      <4>9. e + 1 < q /\ ~ (base[(e + 1) + 1] <= b)  BY <4>4, <4>5, <4>6, <4>7, <4>8
      <4>10. q - (e + 1) \in Bad
        <5>1. q - (e + 1) \in Nat  BY <4>5
        <5>. QED  BY <4>5, <4>9, <5>1
      <4>11. n <= q - (e + 1)  BY <4>3, <4>10
      <4>. QED  BY <4>4, <4>11
    <3>. QED  BY <2>2, <2>4, <2>5, <3>1
<1>4. \A d \in 1 .. q : d \in 1 .. Depth  BY <1>0
<1>5. FramesOf(w)' = [d \in 1 .. q |-> FrameOf(w, d)']  BY DEF FramesOf
<1>6. \A d \in 1 .. q : FramesOf(w)[d] = FrameOf(w, d)  BY <1>4 DEF FramesOf
<1>7. ASSUME NEW d \in 1 .. q, d < q PROVE FrameOf(w, d)' = FrameOf(w, d)
  <2>1. Same(Meaning(w), Meaning(w)', stack, stack', Above(d))
    <3>1. \A k \in 1 .. Above(d) : k \in 1 .. b /\ k \in 1 .. Len(stack)
      BY <1>0, <1>1, <1>3, <1>4, <1>7
    <3>. QED  BY <1>2, <3>1 DEF Same
  <2>2. base[d] \in Nat /\ Above(d) \in Nat  BY <1>1, <1>4
  <2>3. Above(d)' = Above(d)  BY <1>3, <1>7
  <2>4. base'[d] = base[d] /\ ctn'[d].arr = ctn[d].arr  OBVIOUS
  <2>. QED  BY <2>1, <2>2, <2>3, <2>4, FrameKept
<1>8. FrameOf(w, q)' = [arr |-> ctn[q].arr,
                        items |-> Append(FrameOf(w, q).items, Meaning(w)'[stack'[b + 1]])]
  <2>1. Above(q)' = b + 1  BY DEF Above
  <2>2. base[q] \in Nat /\ base[q] <= b /\ b <= Len(stack)  BY <1>1
  <2>3. Same(Meaning(w), Meaning(w)', stack, stack', b)
    <3>1. \A k \in 1 .. b : k \in 1 .. Len(stack)  BY <1>0, <2>2
    <3>. QED  BY <1>2, <3>1 DEF Same
  <2>4. base'[q] = base[q] /\ ctn'[q].arr = ctn[q].arr  OBVIOUS
  <2>. QED  BY <2>1, <2>2, <2>3, <2>4, FrameGrows
<1>9. FramesOf(w)[q].arr = ctn[q].arr
  <2>1. \A d : FrameOf(w, d).arr = ctn[d].arr  BY DEF FrameOf
  <2>. QED  BY <1>6, <2>1
<1>10. \A d \in 1 .. q : FrameOf(w, d)' =
        IF d = q THEN [arr |-> FramesOf(w)[q].arr,
                       items |-> Append(FramesOf(w)[q].items, Meaning(w)'[stack'[b + 1]])]
                 ELSE FramesOf(w)[d]
  <2>1. TAKE d \in 1 .. q
  <2>2. CASE d = q  BY <1>6, <1>8, <1>9, <2>2
  <2>3. CASE d # q
    <3>1. d < q  BY <2>3
    <3>. QED  BY <1>6, <1>7, <2>3, <3>1
  <2>. QED  BY <2>2, <2>3
<1>. QED  BY <1>5, <1>10 DEF ItemAdded

-----------------------------------------------------------------------------
(* The steps of the parser are those of JsonDoc.                           *)

\* Inductive with IInv and OwnInv: items are older than their container, nan
\* is tried for a null only after memory ran out, and a value has been counted
\* where the text goes on after it.
TreeInv ==
  /\ Older(heap)
  /\ pc = "nan_retry" => oom
  /\ pc \in {"arr_val_end", "obj_val_end"} => Top.len > 0

AtToken == {"root", "arr_val_begin", "arr_val_end", "obj_key_begin", "obj_key_end",
            "obj_val_begin", "obj_val_end"}

LEMMA FramesLen ==
  ASSUME NEW w, Depth \in Nat
  PROVE  /\ Len(FramesOf(w)) = Depth /\ FramesOf(w) = [d \in 1 .. Depth |-> FramesOf(w)[d]]
         /\ \A d \in 1 .. Depth :
              /\ FramesOf(w)[d] = FrameOf(w, d)
              /\ FramesOf(w)[d] = [arr |-> FramesOf(w)[d].arr, items |-> FramesOf(w)[d].items]
              /\ FramesOf(w)[d].arr = ctn[d].arr
<1>1. /\ FramesOf(w) = [d \in 1 .. Depth |-> FramesOf(w)[d]]
      /\ \A d \in 1 .. Depth : FramesOf(w)[d] = FrameOf(w, d)
  BY DEF FramesOf
<1>2. Len(FramesOf(w)) = Depth  BY <1>1, FunctionLen
<1>3. \A d : /\ FrameOf(w, d) = [arr |-> FrameOf(w, d).arr, items |-> FrameOf(w, d).items]
              /\ FrameOf(w, d).arr = ctn[d].arr
  BY DEF FrameOf
<1>. QED  BY <1>1, <1>2, <1>3

LEMMA ExtendedIs ==
  ASSUME NEW n \in Nat \ {0}, NEW fs, fs = [d \in 1 .. n |-> fs[d]],
         fs[n] = [arr |-> fs[n].arr, items |-> fs[n].items], NEW v
  PROVE  Doc!Extended(fs, v) = ItemAdded(fs, n, v)
<1>1. Len(fs) = n  BY FunctionLen
<1>. DEFINE w == Append(fs[n].items, v)
            e == [arr |-> fs[n].arr, items |-> w]
<1>2. Doc!Extended(fs, v) = [fs EXCEPT ![n] = [fs[n] EXCEPT !.items = w]]
  BY <1>1 DEF Doc!Extended
<1>. HIDE DEF w
<1>3. [fs[n] EXCEPT !.items = w] = e
  <2>1. PICK c, arr, items : c = fs[n] /\ arr = fs[n].arr /\ items = fs[n].items  OBVIOUS
  <2>2. c = [arr |-> arr, items |-> items]  BY <2>1, Zenon
  <2>3. [c EXCEPT !.items = w] = [arr |-> arr, items |-> w]  BY <2>2
  <2>. QED  BY <2>1, <2>3, Zenon
<1>4. Doc!Extended(fs, v) = [fs EXCEPT ![n] = e]  BY <1>2, <1>3
<1>. HIDE DEF e
<1>5. Doc!Extended(fs, v) = [d \in 1 .. n |-> IF d = n THEN e ELSE fs[d]]  BY <1>4
<1>. QED  BY <1>5, Zenon DEF ItemAdded, e, w

\* The frames that JsonDoc sees have trees as items.
Frames == FramesOf("tree")

LEMMA FramesAre ==
  /\ Frames = [d \in 1 .. Depth |-> Frame(d)]
  /\ Frames' = [d \in 1 .. Depth' |-> Frame(d)']
<1>1. \A d : Frame(d) = FrameOf("tree", d) /\ Frame(d)' = FrameOf("tree", d)'
  BY DEF Frame, FrameOf, Slots, Meaning
<1>. QED  BY <1>1 DEF Frames, FramesOf

\* What JsonDoc sees while the text is read.
LEMMA Opened ==
  ASSUME ~oom, pc \in AtToken \union {"doc_end", "init", "reserve"}
  PROVE  /\ AbstractOutcome = "open" /\ AbstractInput = input
         /\ pc # "doc_end" => AbstractFrames = Frames
         /\ AbstractExpect = IF pc = "arr_val_begin" /\ Top.len = 0 THEN "value_or_close"
                             ELSE IF pc = "obj_key_begin" /\ Top.len = 0 THEN "key_or_close"
                             ELSE Expected[pc]
<1>1. ~Failed /\ ~Accepted  BY DEF Failed, Accepted, AtToken
<1>. QED
  BY <1>1, FramesAre, Zenon DEF AbstractOutcome, AbstractInput, AbstractFrames, AbstractExpect

LEMMA Opened2 ==
  ASSUME ~oom', pc' \in AtToken \union {"doc_end", "init", "reserve"}
  PROVE  /\ AbstractOutcome' = "open" /\ AbstractInput' = input'
         /\ pc' # "doc_end" => AbstractFrames' = Frames'
         /\ AbstractExpect' = IF pc' = "arr_val_begin" /\ Top'.len = 0 THEN "value_or_close"
                              ELSE IF pc' = "obj_key_begin" /\ Top'.len = 0 THEN "key_or_close"
                              ELSE Expected[pc']
<1>1. ~Failed' /\ ~Accepted'  BY DEF Failed, Accepted, AtToken
<1>. QED
  BY <1>1, FramesAre, Zenon
     DEF AbstractOutcome, AbstractInput, AbstractFrames, AbstractExpect, Expected

\* References pushed on the stack are in the history.
LEMMA StackRefs == ASSUME OwnInv PROVE OnStack \subseteq References
  BY DEF OwnInv, Shared

\* A scalar or a key is one more item of the innermost container.
LEMMA LeafFrames ==
  ASSUME NEW w \in {"tree", "text"}, IInv, OwnInv, TreeInv, Parsing, Depth > 0,
         NEW kind \in ValueTokens \union {"key"}, NewRef(kind, <<>>),
         stack' = Append(stack, FreshRef), base' = base, Len(ctn') = Len(ctn),
         \A d \in 1 .. Depth : ctn'[d].arr = ctn[d].arr
  PROVE  FramesOf(w)' = Doc!Extended(FramesOf(w), Leaf(w, kind))
<1>1. ObjectsOK /\ stack \in Seq(Nat)  BY TypeParts DEF IInv, StoreOK
<1>2. kind \in Kinds /\ kind \notin {"list", "dict"}  BY DEF Kinds, ValueTokens
<1>3. FreshRef \in Nat  BY <1>1, FreshIsNew
<1>4. /\ \A ref \in References : Meaning(w)'[ref] = Meaning(w)[ref]
      /\ Meaning(w)'[FreshRef] = Node(w, heap', Meaning(w)', FreshRef)
      /\ heap'[FreshRef].kind = kind
  BY <1>1, <1>2, EmptyItems, MeaningsKept DEF TreeInv
<1>5. Meaning(w)'[FreshRef] = Leaf(w, kind)  BY <1>2, <1>4 DEF Node
<1>6. Depth \in Nat /\ Len(stack) \in Nat  BY AccountsTypes
<1>7. /\ Len(stack') = Len(stack) + 1
      /\ \A k \in 1 .. Len(stack) : stack'[k] = stack[k]
      /\ stack'[Len(stack) + 1] = FreshRef
  BY <1>1, <1>3, AppendProperties
<1>8. Depth' = Depth /\ Depth \in 1 .. Depth /\ Above(Depth) = Len(stack)
  BY <1>6 DEF Depth, Above
<1>9. PICK q, b : q = Depth /\ b = Len(stack)  OBVIOUS
<1>10. FramesOf(w)' = ItemAdded(FramesOf(w), q, Meaning(w)'[stack'[b + 1]])
  <2>1. /\ q \in 1 .. Depth /\ b \in Nat /\ b = Above(q) /\ Depth' = q
        /\ \A d \in 1 .. q : base'[d] = base[d] /\ ctn'[d].arr = ctn[d].arr
        /\ Len(stack') = b + 1 /\ \A k \in 1 .. b : stack'[k] = stack[k]
        /\ OnStack \subseteq References
        /\ \A ref \in References : Meaning(w)'[ref] = Meaning(w)[ref]
    BY <1>4, <1>6, <1>7, <1>8, <1>9, StackRefs
  <2>. QED  BY <2>1, FramesPushed
<1>11. Doc!Extended(FramesOf(w), Leaf(w, kind)) = ItemAdded(FramesOf(w), q, Leaf(w, kind))
  <2>1. /\ q \in Nat \ {0} /\ FramesOf(w) = [d \in 1 .. q |-> FramesOf(w)[d]]
        /\ FramesOf(w)[q] = [arr |-> FramesOf(w)[q].arr, items |-> FramesOf(w)[q].items]
    BY <1>6, <1>8, <1>9, FramesLen
  <2>. QED  BY <2>1, ExtendedIs, Zenon
<1>. QED  BY <1>5, <1>7, <1>9, <1>10, <1>11

\* A new container is an empty frame more.
LEMMA OpenedFrames ==
  ASSUME NEW w, IInv, Parsing, pc # "doc_end", NEW t, PushContainer(t)
  PROVE  FramesOf(w)' = Append(FramesOf(w), [arr |-> t = "lbrack", items |-> <<>>])
<1>1. PICK n \in Nat : n = Depth  BY AccountsTypes
<1>2. /\ ctn \in Seq(Ctn) /\ base \in Seq(Nat) /\ Len(ctn) = n /\ Len(base) = n
      /\ Len(stack) \in Nat
  BY <1>1, AccountsTypes DEF IInv, TypeOK, Ctn, Depth
<1>. DEFINE c == [arr |-> t = "lbrack", len |-> 0]
            e == [arr |-> t = "lbrack", items |-> <<>>]
<1>3. c \in Ctn /\ c.arr = (t = "lbrack")  BY DEF Ctn
<1>4. /\ ctn' = Append(ctn, c) /\ base' = Append(base, Len(stack))
      /\ stack' = stack /\ heap' = heap
  BY DEF PushContainer, store, objects
<1>. HIDE DEF c
<1>5. /\ Depth' = n + 1
      /\ \A d \in 1 .. n : ctn'[d] = ctn[d] /\ base'[d] = base[d]
      /\ ctn'[n + 1] = c /\ base'[n + 1] = Len(stack)
  BY <1>1, <1>2, <1>3, <1>4, AppendProperties DEF Depth
<1>6. Meaning(w)' = Meaning(w)  BY <1>4 DEF Meaning, Tree, Text, References
<1>7. ASSUME NEW d \in 1 .. n PROVE FrameOf(w, d)' = FrameOf(w, d)
  <2>1. Above(d)' = Above(d)
    <3>1. d # Depth' /\ d + 1 \in 1 .. n + 1  BY <1>5
    <3>2. Above(d)' = base'[d + 1]  BY <3>1 DEF Above
    <3>3. CASE d = n  BY <1>1, <1>5, <3>2, <3>3 DEF Above
    <3>4. CASE d # n
      <4>1. d + 1 \in 1 .. n  BY <3>4
      <4>. QED  BY <1>1, <1>5, <3>2, <3>4, <4>1 DEF Above
    <3>. QED  BY <3>3, <3>4
  <2>2. ctn'[d].arr = ctn[d].arr /\ base'[d] = base[d]  BY <1>5
  <2>. QED  BY <1>4, <1>6, <2>1, <2>2, Zenon DEF FrameOf
<1>8. FrameOf(w, n + 1)' = e
  <2>1. Above(n + 1)' = Len(stack)  BY <1>4, <1>5 DEF Above
  <2>2. PICK d, f, s, lo : d = n + 1 /\ f = Meaning(w)' /\ s = stack' /\ lo = Len(stack)
    OBVIOUS
  <2>3. Slots(f, s, lo, lo) = <<>>
    <3>1. 1 .. lo - lo = {}  BY <1>2, <2>2
    <3>. QED  BY <3>1 DEF Slots
  <2>4. FrameOf(w, d)'
          = [arr |-> ctn'[d].arr, items |-> Slots(Meaning(w)', stack', base'[d], Above(d)')]
    BY DEF FrameOf
  <2>. QED  BY <1>3, <1>5, <2>1, <2>2, <2>3, <2>4, Zenon
<1>9. FramesOf(w)' = [d \in 1 .. n + 1 |-> FrameOf(w, d)']  BY <1>5 DEF FramesOf
<1>. HIDE DEF e
<1>10. PICK fs : fs = FramesOf(w)  OBVIOUS
<1>11. fs = [d \in 1 .. n |-> fs[d]] /\ \A d \in 1 .. n : fs[d] = FrameOf(w, d)
  BY <1>1, <1>10, FramesLen
<1>12. Append(fs, e) = [d \in 1 .. n + 1 |-> IF d = n + 1 THEN e ELSE fs[d]]
  BY <1>11, FunctionAppend
<1>13. \A d \in 1 .. n + 1 : FrameOf(w, d)' = IF d = n + 1 THEN e ELSE fs[d]
  <2>1. TAKE d \in 1 .. n + 1
  <2>2. CASE d = n + 1
    <3>1. \A m : m = n + 1 => FrameOf(w, m)' = e  BY <1>8
    <3>. QED  BY <2>2, <3>1
  <2>3. CASE d # n + 1
    <3>1. d \in 1 .. n  BY <2>3
    <3>. QED  BY <1>7, <1>11, <2>3, <3>1
  <2>. QED  BY <2>2, <2>3
<1>. QED  BY <1>9, <1>10, <1>12, <1>13 DEF e

LEMMA ContainerOpens ==
  ASSUME IInv, ~oom, pc \in {"root", "arr_val_begin", "obj_val_begin"}, NEW t,
         t \in {"lbrack", "lbrace"}, Read(t), Depth < MaxDepth, PushContainer(t)
  PROVE  Doc!Open(t)
<1>1. Frames' = Append(Frames, [arr |-> t = "lbrack", items |-> <<>>])
  BY OpenedFrames DEF Parsing, Frames
<1>2. /\ pc' = IF t = "lbrack" THEN "arr_val_begin" ELSE "obj_key_begin"
      /\ ~oom' /\ input' = Append(input, t)
  BY DEF PushContainer, Read
<1>3. Top'.len = 0
  <2>1. ctn \in Seq(Ctn)  BY DEF IInv, TypeOK, Ctn
  <2>. DEFINE c == [arr |-> t = "lbrack", len |-> 0]
  <2>2. c \in Ctn /\ c.len = 0  BY DEF Ctn
  <2>3. ctn' = Append(ctn, c)  BY DEF PushContainer
  <2>. HIDE DEF c
  <2>4. Len(ctn') = Len(ctn) + 1 /\ ctn'[Len(ctn) + 1] = c
    BY <2>1, <2>2, <2>3, AppendProperties
  <2>5. Top' = c  BY <2>4 DEF Top, Depth
  <2>. QED  BY <2>2, <2>5
<1>4. /\ AbstractOutcome = "open" /\ AbstractInput = input /\ AbstractFrames = Frames
      /\ AbstractExpect \in {"root", "value", "value_or_close"}
  BY Opened DEF AtToken, Expected
<1>5. /\ AbstractOutcome' = "open" /\ AbstractInput' = input' /\ AbstractFrames' = Frames'
      /\ AbstractExpect' = IF t = "lbrack" THEN "value_or_close" ELSE "key_or_close"
  BY <1>2, <1>3, Opened2 DEF AtToken
<1>6. Len(Frames) = Depth  BY AccountsTypes, FramesLen DEF Frames
<1>7. Doc!Take(t)
  BY <1>2, <1>4, <1>5 DEF Doc!Take, Doc!Allows, Doc!Brackets, Doc!ValueStates
<1>. QED  BY <1>1, <1>4, <1>5, <1>6, <1>7 DEF Doc!Open, Doc!Brackets

\* The frames after the innermost container was left for what comes next.
LEMMA AfterValueIs ==
  ASSUME Depth \in Nat \ {0}
  PROVE  Doc!AfterValue(Frames) = IF Top.arr THEN "array_next" ELSE "object_next"
<1>1. Len(Frames) = Depth /\ Frames[Depth].arr = ctn[Depth].arr
  <2>1. Depth \in Nat /\ Depth \in 1 .. Depth  OBVIOUS
  <2>. QED  BY <2>1, FramesLen DEF Frames
<1>. QED  BY <1>1 DEF Doc!AfterValue, Top

LEMMA ScalarReads ==
  ASSUME IInv, OwnInv, TreeInv, ~oom, ~oom', pc \in {"arr_val_begin", "obj_val_begin"}, NEW t,
         Read(t), ReadValue(t)
  PROVE  Doc!ReadScalar(t)
<1>1. /\ Pushed(stack, FreshRef) /\ NewRef(t, <<>>) /\ Counted /\ t \in ValueTokens
  BY DEF ReadValue, OutOfMemory
<1>2. Depth > 0 /\ Depth \in Nat /\ ctn \in Seq(Ctn) /\ Depth = Len(ctn)
  BY AccountsTypes DEF IInv, LabelFitsContainer, TypeOK, Ctn, Depth
<1>3. /\ ctn' = Incremented(ctn) /\ pc' = ValueEnd(ctn) /\ base' = base
      /\ stack' = Append(stack, FreshRef) /\ input' = Append(input, t)
  BY <1>1 DEF Counted, Pushed, Read
<1>4. Len(ctn') = Len(ctn) /\ \A d \in 1 .. Depth : ctn'[d].arr = ctn[d].arr
  BY <1>2, <1>3, IncrementedProperties
<1>5. Frames' = Doc!Extended(Frames, Doc!Scalar(t))
  <2>1. Parsing  BY DEF Parsing
  <2>2. FramesOf("tree")' = Doc!Extended(FramesOf("tree"), Leaf("tree", t))
    BY <1>1, <1>2, <1>3, <1>4, <2>1, LeafFrames
  <2>. QED  BY <2>2 DEF Frames, Leaf, Doc!Scalar
<1>6. /\ AbstractOutcome = "open" /\ AbstractInput = input /\ AbstractFrames = Frames
      /\ AbstractExpect \in {"value", "value_or_close"}
  BY Opened DEF AtToken, Expected
<1>7. /\ pc' \in {"arr_val_end", "obj_val_end"}
      /\ pc' = "arr_val_end" <=> Top.arr
  BY <1>2, <1>3, ValueEndLabel DEF Top, Depth
<1>8. /\ AbstractOutcome' = "open" /\ AbstractInput' = input' /\ AbstractFrames' = Frames'
      /\ AbstractExpect' = IF Top.arr THEN "array_next" ELSE "object_next"
  BY <1>7, Opened2 DEF AtToken, Expected
<1>9. AbstractExpect' = Doc!AfterValue(AbstractFrames)  BY <1>2, <1>6, <1>8, AfterValueIs
<1>10. t \in Doc!ScalarTokens  BY <1>1 DEF Doc!ScalarTokens, ValueTokens
<1>11. AbstractExpect \in Doc!ValueStates  BY <1>6 DEF Doc!ValueStates
<1>12. Doc!Take(t)  BY <1>3, <1>6, <1>8, <1>10, <1>11 DEF Doc!Take, Doc!Allows
<1>. QED  BY <1>5, <1>6, <1>8, <1>9, <1>10, <1>11, <1>12 DEF Doc!ReadScalar

LEMMA KeyReads ==
  ASSUME IInv, OwnInv, TreeInv, ~oom, ~oom', pc = "obj_key_begin", Read("str"), ReadKey
  PROVE  Doc!ReadKey
<1>1. /\ Pushed(stack, FreshRef) /\ NewRef("key", <<>>) /\ pc' = "obj_key_end"
      /\ ctn' = ctn /\ base' = base
  BY DEF ReadKey, OutOfMemory, containers
<1>2. Depth > 0 /\ Parsing  BY DEF IInv, LabelFitsContainer, Parsing
<1>3. Frames' = Doc!Extended(Frames, Doc!Scalar("key"))
  <2>1. stack' = Append(stack, FreshRef)  BY <1>1 DEF Pushed
  <2>2. FramesOf("tree")' = Doc!Extended(FramesOf("tree"), Leaf("tree", "key"))
    BY <1>1, <1>2, <2>1, LeafFrames
  <2>. QED  BY <2>2 DEF Frames, Leaf, Doc!Scalar
<1>4. /\ AbstractOutcome = "open" /\ AbstractInput = input /\ AbstractFrames = Frames
      /\ AbstractExpect \in {"key", "key_or_close"}
  BY Opened DEF AtToken, Expected
<1>5. /\ AbstractOutcome' = "open" /\ AbstractInput' = input' /\ AbstractFrames' = Frames'
      /\ AbstractExpect' = "colon"
  BY <1>1, Opened2 DEF AtToken, Expected
<1>6. AbstractExpect \in Doc!KeyStates  BY <1>4 DEF Doc!KeyStates
<1>7. Doc!Take("str")  BY <1>4, <1>5, <1>6 DEF Doc!Take, Doc!Allows, Read
<1>. QED  BY <1>3, <1>4, <1>5, <1>6, <1>7 DEF Doc!ReadKey

\* No container changes.
LEMMA SameFrames ==
  ASSUME UNCHANGED <<containers, stack, heap>>
  PROVE  Top' = Top /\ \A w : FramesOf(w)' = FramesOf(w) /\ Meaning(w)' = Meaning(w)
<1>1. ctn' = ctn /\ base' = base /\ Depth' = Depth  BY DEF containers, Depth
<1>2. \A w : Meaning(w)' = Meaning(w)  BY DEF Meaning, Tree, Text, References
<1>3. \A d : Above(d)' = Above(d)  BY <1>1 DEF Above
<1>4. \A w, d : FrameOf(w, d)' = FrameOf(w, d)  BY <1>1, <1>2, <1>3, Zenon DEF FrameOf
<1>. QED  BY <1>1, <1>2, <1>4 DEF FramesOf, Top

LEMMA SeparatorReads ==
  ASSUME TreeInv, ~oom, NEW t, NEW label, Read(t), Goto(label),
         \/ pc = "arr_val_end" /\ t = "comma" /\ label = "arr_val_begin"
         \/ pc = "obj_val_end" /\ t = "comma" /\ label = "obj_key_begin"
         \/ pc = "obj_key_end" /\ t = "colon" /\ label = "obj_val_begin",
         Top.len \in Nat
  PROVE  Doc!Separator(t)
<1>1. Frames' = Frames /\ Top' = Top  BY SameFrames DEF Goto, store, objects, Frames
<1>2. pc' = label /\ ~oom' /\ input' = Append(input, t)  BY DEF Goto, Read
<1>3. /\ AbstractOutcome = "open" /\ AbstractInput = input /\ AbstractFrames = Frames
      /\ AbstractExpect = Expected[pc]
  BY Opened DEF AtToken
<1>4. pc \in {"arr_val_end", "obj_val_end"} => Top'.len # 0  BY <1>1 DEF TreeInv
<1>5. /\ AbstractOutcome' = "open" /\ AbstractInput' = input' /\ AbstractFrames' = Frames'
      /\ AbstractExpect' = Expected[label]
  BY <1>2, <1>4, Opened2 DEF AtToken
<1>6. \/ t = "comma" /\ AbstractExpect = "array_next" /\ AbstractExpect' = "value"
      \/ t = "comma" /\ AbstractExpect = "object_next" /\ AbstractExpect' = "key"
      \/ t = "colon" /\ AbstractExpect = "colon" /\ AbstractExpect' = "value"
  BY <1>3, <1>5 DEF Expected
<1>7. Doc!Take(t)  BY <1>2, <1>3, <1>5, <1>6 DEF Doc!Take, Doc!Allows
<1>. QED  BY <1>1, <1>3, <1>5, <1>6, <1>7 DEF Doc!Separator

Looking == {"arr_val_begin", "arr_val_end", "obj_key_begin", "obj_val_end"}

\* A container that is closed means what the frame it was built in held.
LEMMA BuiltMeans ==
  ASSUME NEW w \in {"tree", "text"}, IInv, OwnInv, TreeInv, pc \in Looking, Depth > 0,
         NEW kind \in {"list", "dict"},
         Top.arr = (kind = "list"), NewRef(kind, Popped)
  PROVE  /\ base[Depth] \in Nat /\ Kept \in Seq(Nat) /\ Len(Kept) = base[Depth]
         /\ \A i \in 1 .. base[Depth] : Kept[i] = stack[i]
         /\ FreshRef \in Nat /\ heap'[FreshRef].kind = kind
         /\ \A ref \in References : Meaning(w)'[ref] = Meaning(w)[ref]
         /\ Meaning(w)'[FreshRef] = Whole(w, kind, FramesOf(w)[Depth].items)
<1>1. TypeOK /\ StackAccounting /\ ObjectsOK /\ StoreOK /\ ContainersOK
  BY TypeParts DEF IInv
<1>2. Parsing /\ ~KeyPending(Depth) /\ ~NanPending(Depth)
  BY DEF Looking, Parsing, KeyPending, NanPending
<1>3. PICK n \in Nat, b \in Nat, k \in Nat :
        n = Depth /\ b = base[Depth] /\ k = CountedWidth /\ Len(stack) = b + k
  BY <1>1, <1>2, EntriesOnStack, TopType
<1>4. /\ Kept \in Seq(Nat) /\ Len(Kept) = b
      /\ \A i \in 1 .. b : Kept[i] = stack[i]
      /\ Popped \in Seq(Nat) /\ Len(Popped) = k
      /\ \A i \in 1 .. k : Popped[i] = stack[b + i]
  BY <1>1, <1>3, PoppedProperties
<1>5. \A i \in 1 .. k : stack[b + i] \in References
  <2>1. \A i \in 1 .. k : b + i \in 1 .. Len(stack)  BY <1>3
  <2>. QED  BY <2>1, StackRefs DEF OnStack
<1>6. Entries(Popped) \subseteq References  BY <1>4, <1>5 DEF Entries
<1>7. kind \in Kinds  BY DEF Kinds
<1>8. /\ \A ref \in References : Meaning(w)'[ref] = Meaning(w)[ref]
      /\ Meaning(w)'[FreshRef] = Node(w, heap', Meaning(w)', FreshRef)
      /\ heap'[FreshRef].kind = kind /\ heap'[FreshRef].items = Popped
  BY <1>1, <1>4, <1>6, <1>7, MeaningsKept DEF TreeInv
<1>9. FramesOf(w)[Depth] = [arr |-> Top.arr, items |-> [i \in 1 .. k |-> Meaning(w)[stack[b + i]]]]
  <2>1. n \in 1 .. Depth /\ Above(n) = b + k /\ (b + k) - b = k  BY <1>3 DEF Above
  <2>2. FramesOf(w)[n] = FrameOf(w, n)  BY <2>1 DEF FramesOf
  <2>. QED  BY <1>3, <2>1, <2>2 DEF FrameOf, Slots, Top
<1>10. \A i \in 1 .. k : Meaning(w)'[Popped[i]] = Meaning(w)[stack[b + i]]  BY <1>4, <1>5, <1>8
<1>11. [i \in 1 .. k |-> Meaning(w)'[Popped[i]]] = [i \in 1 .. k |-> Meaning(w)[stack[b + i]]]
  BY <1>10
<1>12. Meaning(w)'[FreshRef] = Whole(w, kind, [i \in 1 .. k |-> Meaning(w)'[Popped[i]]])
  BY <1>4, <1>8, Zenon DEF Node
<1>13. FreshRef \in Nat  BY <1>1, FreshIsNew
<1>14. FramesOf(w)[Depth].items = [i \in 1 .. k |-> Meaning(w)[stack[b + i]]]  BY <1>9
<1>15. Meaning(w)'[FreshRef] = Whole(w, kind, FramesOf(w)[Depth].items)
  BY <1>11, <1>12, <1>14, Zenon
<1>. QED  BY <1>3, <1>4, <1>8, <1>13, <1>15

\* The frames but the last, with one item more.
LEMMA FrontExtended ==
  ASSUME NEW n \in Nat, n > 1, NEW fs, fs = [d \in 1 .. n |-> fs[d]],
         fs[n - 1] = [arr |-> fs[n - 1].arr, items |-> fs[n - 1].items], NEW v
  PROVE  /\ Doc!Extended(SubSeq(fs, 1, n - 1), v) = ItemAdded(fs, n - 1, v)
         /\ Doc!AfterValue(SubSeq(fs, 1, n - 1))
              = IF fs[n - 1].arr THEN "array_next" ELSE "object_next"
<1>1. PICK m \in Nat : m = n - 1 /\ m # 0 /\ n = m + 1  OBVIOUS
<1>2. PICK g : g = SubSeq(fs, 1, (m + 1) - 1)  OBVIOUS
<1>3. g = [d \in 1 .. m |-> fs[d]]
  <2>1. fs = [d \in 1 .. m + 1 |-> fs[d]]  BY <1>1
  <2>2. FrontIs(m, fs)  BY <2>1, FunctionFront
  <2>. QED  BY <1>2, <2>2 DEF FrontIs
<1>4. m \in 1 .. m /\ g[m] = fs[m] /\ g = [d \in 1 .. m |-> g[d]]
  <2>1. m \in 1 .. m  BY <1>1
  <2>2. g = [d \in 1 .. m |-> g[d]]  BY <1>3
  <2>. QED  BY <1>3, <2>1, <2>2
<1>5. Len(g) = m  BY <1>4, FunctionLen
<1>6. Doc!Extended(g, v) = ItemAdded(g, m, v)
  <2>1. m \in Nat \ {0} /\ g[m] = [arr |-> g[m].arr, items |-> g[m].items]  BY <1>1, <1>4
  <2>. QED  BY <1>4, <2>1, ExtendedIs
<1>7. ItemAdded(g, m, v) = ItemAdded(fs, m, v)
  <2>1. \A d \in 1 .. m : g[d] = fs[d]  BY <1>3
  <2>. QED  BY <1>4, <2>1 DEF ItemAdded
<1>8. (m + 1) - 1 = n - 1  BY <1>1
<1>9. Doc!AfterValue(g) = IF fs[m].arr THEN "array_next" ELSE "object_next"
  BY <1>4, <1>5 DEF Doc!AfterValue
<1>10. g = SubSeq(fs, 1, n - 1)  BY <1>2, <1>8
<1>. QED  BY <1>1, <1>6, <1>7, <1>9, <1>10, Zenon

\* It leaves the stacks to the container around it, and is its last item.
LEMMA FramesClosed ==
  ASSUME NEW w \in {"tree", "text"}, IInv, OwnInv, TreeInv, pc \in Looking, Depth > 0,
         NEW kind \in {"list", "dict"}, Top.arr = (kind = "list"),
         NewRef(kind, Popped), Pushed(Kept, FreshRef), PopContainer
  PROVE  /\ Depth = 1 => stack'[1] = FreshRef
         /\ Depth > 1 =>
              /\ FramesOf(w)' = Doc!Extended(SubSeq(FramesOf(w), 1, Depth - 1),
                                             Whole(w, kind, FramesOf(w)[Depth].items))
              /\ Doc!AfterValue(SubSeq(FramesOf(w), 1, Depth - 1))
                   = IF ctn[Depth - 1].arr THEN "array_next" ELSE "object_next"
              /\ pc' \in {"arr_val_end", "obj_val_end"}
              /\ pc' = "arr_val_end" <=> ctn[Depth - 1].arr
<1>1. /\ base[Depth] \in Nat /\ Kept \in Seq(Nat) /\ Len(Kept) = base[Depth]
      /\ \A i \in 1 .. base[Depth] : Kept[i] = stack[i]
      /\ FreshRef \in Nat
      /\ \A ref \in References : Meaning(w)'[ref] = Meaning(w)[ref]
      /\ Meaning(w)'[FreshRef] = Whole(w, kind, FramesOf(w)[Depth].items)
  BY BuiltMeans
<1>2. PICK n \in Nat, b \in Nat : n = Depth /\ b = base[Depth] /\ n > 0
  BY <1>1, AccountsTypes
<1>3. /\ Len(stack') = b + 1
      /\ \A k \in 1 .. b : stack'[k] = stack[k]
      /\ stack'[b + 1] = FreshRef
  <2>1. stack' = Append(Kept, FreshRef)  BY DEF Pushed
  <2>. QED  BY <1>1, <1>2, <2>1, AppendProperties
<1>4. CASE n = 1
  <2>1. b = 0  BY <1>2, <1>4 DEF IInv, StackAccounting, Looking, Parsing
  <2>. QED  BY <1>2, <1>3, <1>4, <2>1
<1>5. CASE n > 1
  <2>1. /\ ctn' = Incremented(Outer(ctn)) /\ pc' = ValueEnd(Outer(ctn)) /\ base' = Outer(base)
    BY <1>2, <1>5 DEF PopContainer
  <2>2. ctn \in Seq(Ctn) /\ base \in Seq(Nat) /\ Len(ctn) = n /\ Len(base) = n
    BY <1>2, AccountsTypes DEF IInv, TypeOK, Ctn, Depth
  <2>3. PICK q \in 1 .. n : q = n - 1 /\ q # 0 /\ q + 1 = n  BY <1>5
  <2>4. /\ Outer(ctn) \in Seq(Ctn) /\ Len(Outer(ctn)) = q
        /\ \A d \in 1 .. q : Outer(ctn)[d] = ctn[d]
        /\ Len(Outer(base)) = q
        /\ \A d \in 1 .. q : Outer(base)[d] = base[d]
    <3>1. \A S, s : s \in Seq(S) /\ Len(s) = n =>
                      /\ Outer(s) \in Seq(S) /\ Len(Outer(s)) = q
                      /\ \A d \in 1 .. q : Outer(s)[d] = s[d]
      BY <1>5, <2>3, OuterProperties
    <3>. QED  BY <2>2, <3>1, Zenon
  <2>5. /\ Depth' = q /\ \A d \in 1 .. q : base'[d] = base[d] /\ ctn'[d].arr = ctn[d].arr
    <3>1. Len(Outer(ctn)) > 0  BY <2>3, <2>4
    <3>2. /\ Len(Incremented(Outer(ctn))) = q
          /\ \A d \in 1 .. q : Incremented(Outer(ctn))[d].arr = Outer(ctn)[d].arr
      BY <2>4, <3>1, IncrementedProperties
    <3>. QED  BY <2>1, <2>4, <3>2 DEF Depth
  <2>6. b = Above(q)  BY <1>2, <2>3 DEF Above
  <2>7. FramesOf(w)' = ItemAdded(FramesOf(w), q, Meaning(w)'[stack'[b + 1]])
    <3>1. q \in 1 .. Depth /\ OnStack \subseteq References /\ Parsing
      BY <1>2, StackRefs DEF Parsing, Looking
    <3>. QED  BY <1>1, <1>3, <2>5, <2>6, <3>1, FramesPushed
  <2>8. PICK fs, v : fs = FramesOf(w) /\ v = Whole(w, kind, FramesOf(w)[Depth].items)  OBVIOUS
  <2>9. /\ fs = [d \in 1 .. n |-> fs[d]] /\ fs[q] = [arr |-> fs[q].arr, items |-> fs[q].items]
        /\ fs[q].arr = ctn[q].arr
    BY <1>2, <2>8, FramesLen
  <2>10. /\ Doc!Extended(SubSeq(fs, 1, n - 1), v) = ItemAdded(fs, q, v)
         /\ Doc!AfterValue(SubSeq(fs, 1, n - 1)) = IF ctn[q].arr THEN "array_next" ELSE "object_next"
    <3>1. fs[n - 1] = [arr |-> fs[n - 1].arr, items |-> fs[n - 1].items]  BY <2>3, <2>9
    <3>2. /\ Doc!Extended(SubSeq(fs, 1, n - 1), v) = ItemAdded(fs, n - 1, v)
          /\ Doc!AfterValue(SubSeq(fs, 1, n - 1))
               = IF fs[n - 1].arr THEN "array_next" ELSE "object_next"
      BY <1>5, <2>9, <3>1, FrontExtended
    <3>. QED  BY <2>3, <2>9, <3>2
  <2>11. FramesOf(w)' = ItemAdded(fs, q, v)  BY <1>1, <1>3, <2>7, <2>8, Zenon
  <2>12. /\ pc' \in {"arr_val_end", "obj_val_end"}
         /\ pc' = "arr_val_end" <=> ctn[q].arr
    <3>1. Len(Outer(ctn)) > 0 /\ Outer(ctn)[Len(Outer(ctn))] = ctn[q]  BY <2>3, <2>4
    <3>. QED  BY <2>1, <2>4, <3>1, ValueEndLabel
  <2>13. q = Depth - 1 /\ n = Depth  BY <1>2, <2>3
  <2>14. ~ (Depth = 1)  BY <1>5, <2>13
  <2>. QED  BY <2>8, <2>10, <2>11, <2>12, <2>13, <2>14, Zenon
<1>. QED  BY <1>2, <1>4, <1>5

LEMMA ContainerCloses ==
  ASSUME IInv, OwnInv, TreeInv, ~oom, ~oom', NEW t, Read(t), NEW kind \in {"list", "dict"},
         BuildContainer(kind),
         \/ pc = "arr_val_begin" /\ Top.len = 0 /\ t = "rbrack" /\ kind = "list"
         \/ pc = "arr_val_end" /\ t = "rbrack" /\ kind = "list"
         \/ pc = "obj_key_begin" /\ Top.len = 0 /\ t = "rbrace" /\ kind = "dict"
         \/ pc = "obj_val_end" /\ t = "rbrace" /\ kind = "dict"
  PROVE  Doc!Close(t)
<1>1. /\ NewRef(kind, Popped) /\ Pushed(Kept, FreshRef) /\ PopContainer
      /\ input' = Append(input, t)
  BY DEF BuildContainer, OutOfMemory, Read
<1>2. pc \in Looking /\ Depth > 0 /\ Top.arr = (kind = "list")
  BY AccountsTypes DEF IInv, LabelFitsContainer, Looking, Top
<1>3. PICK w : w = "tree" /\ w \in {"tree", "text"}  OBVIOUS
<1>4. Meaning(w)' = Tree' /\ FramesOf(w) = Frames /\ FramesOf(w)' = Frames'
  BY <1>3 DEF Meaning, Frames
<1>5. Whole(w, kind, Frames[Depth].items) = Doc!Built(Frames[Depth])
  <2>1. Frames[Depth].arr = Top.arr
    <3>1. Depth \in Nat /\ Depth \in 1 .. Depth  BY <1>2, AccountsTypes
    <3>. QED  BY <3>1, FramesLen DEF Frames, Top
  <2>2. CASE kind = "list"  BY <1>2, <1>3, <2>1, <2>2, Zenon DEF Doc!Built, Whole
  <2>3. CASE kind # "list"  BY <1>2, <1>3, <2>1, <2>3, Zenon DEF Doc!Built, Whole
  <2>. QED  BY <2>2, <2>3
<1>6. /\ heap'[FreshRef].kind = kind
      /\ Tree'[FreshRef] = Doc!Built(Frames[Depth])
      /\ Tree'[FreshRef][2] = Frames[Depth].items
  <2>1. heap'[FreshRef].kind = kind /\ Tree'[FreshRef] = Whole(w, kind, Frames[Depth].items)
    <3>1. /\ heap'[FreshRef].kind = kind
          /\ Meaning(w)'[FreshRef] = Whole(w, kind, FramesOf(w)[Depth].items)
      BY <1>1, <1>2, <1>3, BuiltMeans
    <3>. QED  BY <1>4, <3>1, Zenon
  <2>2. Tree'[FreshRef] = Doc!Built(Frames[Depth])  BY <1>5, <2>1, Zenon
  <2>3. PICK x, y : Tree'[FreshRef] = <<x, y>> /\ y = Frames[Depth].items
    BY <2>2, Zenon DEF Doc!Built
  <2>. QED  BY <2>1, <2>2, <2>3
<1>7. /\ Depth = 1 => stack'[1] = FreshRef
      /\ Depth > 1 =>
           /\ Frames' = Doc!Extended(SubSeq(Frames, 1, Depth - 1), Doc!Built(Frames[Depth]))
           /\ Doc!AfterValue(SubSeq(Frames, 1, Depth - 1))
                = IF ctn[Depth - 1].arr THEN "array_next" ELSE "object_next"
           /\ pc' \in {"arr_val_end", "obj_val_end"}
           /\ pc' = "arr_val_end" <=> ctn[Depth - 1].arr
  <2>1. /\ Depth = 1 => stack'[1] = FreshRef
        /\ Depth > 1 =>
              /\ FramesOf(w)' = Doc!Extended(SubSeq(FramesOf(w), 1, Depth - 1),
                                             Whole(w, kind, FramesOf(w)[Depth].items))
              /\ Doc!AfterValue(SubSeq(FramesOf(w), 1, Depth - 1))
                   = IF ctn[Depth - 1].arr THEN "array_next" ELSE "object_next"
              /\ pc' \in {"arr_val_end", "obj_val_end"}
              /\ pc' = "arr_val_end" <=> ctn[Depth - 1].arr
    BY <1>1, <1>2, <1>3, FramesClosed
  <2>. QED  BY <1>4, <1>5, <2>1, Zenon
<1>8. /\ AbstractOutcome = "open" /\ AbstractInput = input /\ AbstractFrames = Frames
      /\ \/ AbstractExpect \in {"array_next", "value_or_close"} /\ t = "rbrack"
         \/ AbstractExpect \in {"object_next", "key_or_close"} /\ t = "rbrace"
  BY Opened DEF AtToken, Expected
<1>9. PICK n \in Nat : n = Depth /\ n > 0  BY <1>2, AccountsTypes
<1>10. /\ Len(Frames) = n /\ Frames = [d \in 1 .. n |-> Frames[d]]
       /\ \A d \in 1 .. n : /\ Frames[d] = [arr |-> Frames[d].arr, items |-> Frames[d].items]
                            /\ Frames[d].arr = ctn[d].arr
  BY <1>9, FramesLen DEF Frames
<1>11. CASE n = 1
  <2>1. pc' = "doc_end"  BY <1>1, <1>9, <1>11 DEF PopContainer
  <2>2. Root' = FreshRef  BY <1>7, <1>9, <1>11, <2>1 DEF Root
  <2>3. ~Failed'  BY <2>1 DEF Failed
  <2>4. AbstractFrames' = <<[arr |-> heap'[FreshRef].kind = "list", items |-> Tree'[FreshRef][2]]>>
    BY <2>1, <2>2, <2>3, Zenon DEF AbstractFrames
  <2>5. Frames[1] = [arr |-> kind = "list", items |-> Frames[1].items]
    <3>1. Frames[1].arr = (kind = "list")  BY <1>2, <1>9, <1>10, <1>11 DEF Top
    <3>. QED  BY <1>10, <1>11, <3>1
  <2>6. AbstractFrames' = <<Frames[1]>>  BY <1>6, <1>9, <1>11, <2>4, <2>5, Zenon
  <2>7. <<Frames[1]>> = Frames
    <3>1. PICK fs : fs = Frames  OBVIOUS
    <3>2. fs = [d \in 1 .. 1 |-> fs[d]]  BY <1>10, <1>11, <3>1
    <3>3. <<fs[1]>> = fs  BY <3>2
    <3>. QED  BY <3>1, <3>3
  <2>8. /\ AbstractOutcome' = "open" /\ AbstractInput' = input' /\ AbstractExpect' = "end"
    BY <2>1, Opened2 DEF Expected
  <2>9. Doc!Take(t)  BY <1>1, <1>8, <2>8 DEF Doc!Take, Doc!Allows
  <2>. QED  BY <1>8, <1>10, <1>11, <2>6, <2>7, <2>8, <2>9 DEF Doc!Close
<1>12. CASE n > 1
  <2>1. Depth > 1  BY <1>9, <1>12
  <2>2. /\ AbstractOutcome' = "open" /\ AbstractInput' = input' /\ AbstractFrames' = Frames'
        /\ AbstractExpect' = IF ctn[Depth - 1].arr THEN "array_next" ELSE "object_next"
    BY <1>7, <2>1, Opened2 DEF AtToken, Expected
  <2>3. Doc!Take(t)  BY <1>1, <1>8, <2>2 DEF Doc!Take, Doc!Allows
  <2>4. Doc!Outer = SubSeq(Frames, 1, Depth - 1) /\ Doc!Last = Frames[Depth]
    BY <1>8, <1>9, <1>10 DEF Doc!Outer, Doc!Last
  <2>5. /\ AbstractFrames' = Doc!Extended(Doc!Outer, Doc!Built(Doc!Last))
        /\ AbstractExpect' = Doc!AfterValue(Doc!Outer)
    BY <1>7, <2>1, <2>2, <2>4, Zenon
  <2>6. Len(AbstractFrames) # 1 /\ AbstractOutcome' = AbstractOutcome
    BY <1>8, <1>10, <1>12, <2>2
  <2>7. t \in {"rbrack", "rbrace"}  BY <1>8
  <2>. QED  BY <2>3, <2>5, <2>6, <2>7, Zenon DEF Doc!Close
<1>. QED  BY <1>9, <1>11, <1>12

LEMMA DocumentAccepted ==
  ASSUME ~oom, pc = "doc_end", Read("eof"), Goto("success")
  PROVE  Doc!Accept
<1>1. /\ pc' = "success" /\ input' = Append(input, "eof") /\ oom' = oom
      /\ stack' = stack /\ heap' = heap
  BY DEF Goto, Read, store, objects
<1>2. Tree' = Tree  BY <1>1 DEF Tree, References
<1>3. /\ AbstractOutcome = "open" /\ AbstractInput = input /\ AbstractExpect = "end"
  BY Opened DEF Expected
<1>4. ~Failed /\ ~Failed' /\ Accepted'  BY <1>1 DEF Failed, Accepted
<1>5. AbstractOutcome' = "accept" /\ AbstractInput' = input' /\ AbstractExpect' = "done"
  BY <1>1, <1>4, Zenon DEF AbstractOutcome, AbstractInput, AbstractExpect
<1>6. AbstractFrames' = AbstractFrames
  <2>1. Root = stack[1] /\ Root' = stack[1]  BY <1>1 DEF Root
  <2>. QED  BY <1>1, <1>2, <1>4, <2>1, Zenon DEF AbstractFrames
<1>7. Doc!Take("eof")  BY <1>1, <1>3, <1>5 DEF Doc!Take, Doc!Allows
<1>. QED  BY <1>3, <1>5, <1>6, <1>7 DEF Doc!Accept

\* What JsonDoc says of the tokens a label turns down.
Refused(t) ==
  \/ ~Doc!Allows(AbstractExpect, t)
  \/ t \in {"lbrack", "lbrace"} /\ Len(AbstractFrames) = MaxDepth

LEMMA TokenRejected ==
  ASSUME ~oom, pc \in AtToken \union {"doc_end"}, NEW t, Read(t), SyntaxError, Refused(t)
  PROVE  Doc!Reject(t)
<1>1. pc' = "failed_cleanup" /\ oom' = oom /\ input' = Append(input, t)
  BY DEF SyntaxError, Raise, Read
<1>2. AbstractOutcome = "open" /\ AbstractInput = input  BY Opened
<1>3. Failed'  BY <1>1 DEF Failed
<1>4. /\ AbstractOutcome' = "reject" /\ AbstractInput' = input' /\ AbstractExpect' = "done"
      /\ AbstractFrames' = <<>>
  BY <1>1, <1>3, Zenon DEF AbstractOutcome, AbstractInput, AbstractExpect, AbstractFrames
<1>. QED  BY <1>1, <1>2, <1>4 DEF Refused, Doc!Reject, Doc!Brackets

LEMMA GivesUp == ASSUME ~oom, oom', Parsing PROVE Doc!GiveUp
<1>1. ~Failed /\ ~Accepted /\ Failed'  BY DEF Failed, Accepted, Parsing
<1>2. AbstractOutcome = "open"  BY <1>1, Zenon DEF AbstractOutcome
<1>3. /\ AbstractOutcome' = "nomem" /\ AbstractInput' = <<>> /\ AbstractExpect' = "done"
      /\ AbstractFrames' = <<>>
  BY <1>1, Zenon DEF AbstractOutcome, AbstractInput, AbstractExpect, AbstractFrames
<1>. QED  BY <1>2, <1>3 DEF Doc!GiveUp

\* What JsonDoc sees does not change.
Unseen == UNCHANGED <<AbstractInput, AbstractFrames, AbstractExpect, AbstractOutcome>>

LEMMA UnseenOom == ASSUME oom, oom' PROVE Unseen
<1>1. Failed /\ Failed'  BY DEF Failed
<1>2. /\ AbstractOutcome = "nomem" /\ AbstractInput = <<>> /\ AbstractExpect = "done"
      /\ AbstractFrames = <<>>
  BY <1>1, Zenon DEF AbstractOutcome, AbstractInput, AbstractExpect, AbstractFrames
<1>3. /\ AbstractOutcome' = "nomem" /\ AbstractInput' = <<>> /\ AbstractExpect' = "done"
      /\ AbstractFrames' = <<>>
  BY <1>1, Zenon DEF AbstractOutcome, AbstractInput, AbstractExpect, AbstractFrames
<1>. QED  BY <1>2, <1>3 DEF Unseen

LEMMA UnseenEnter ==
  ASSUME ~oom, ~oom', InitStacks \/ ReserveStringBuffer PROVE Unseen
<1>1. /\ pc \in {"init", "reserve"} /\ pc' \in {"reserve", "root"} /\ input' = input
      /\ UNCHANGED <<containers, stack, heap>>
  BY DEF InitStacks, ReserveStringBuffer, OutOfMemory, store, objects
<1>2. Frames' = Frames  BY <1>1, SameFrames DEF Frames
<1>3. /\ AbstractOutcome = "open" /\ AbstractInput = input /\ AbstractFrames = Frames
      /\ AbstractExpect = "root"
  BY <1>1, Opened DEF AtToken, Expected
<1>4. /\ AbstractOutcome' = "open" /\ AbstractInput' = input' /\ AbstractFrames' = Frames'
      /\ AbstractExpect' = "root"
  BY <1>1, Opened2 DEF AtToken, Expected
<1>. QED  BY <1>1, <1>2, <1>3, <1>4 DEF Unseen

LEMMA UnseenSucceed ==
  ASSUME IInv, OwnInv, ~oom, Succeed PROVE Unseen
<1>1. /\ pc = "success" /\ pc' = "returned" /\ result' = stack[1] /\ heap' = heap
      /\ oom' = oom /\ input' = input
  BY DEF Succeed, objects
<1>2. stack[1] # 0
  <2>1. ObjectsOK  BY TypeParts DEF IInv
  <2>. QED  BY <1>1, <2>1, OneIsLeft, FreshIsNew
<1>3. Tree' = Tree /\ Root' = Root  BY <1>1 DEF Tree, References, Root
<1>4. ~Failed /\ ~Failed' /\ Accepted /\ Accepted'  BY <1>1, <1>2 DEF Failed, Accepted
<1>5. AbstractFrames' = AbstractFrames  BY <1>1, <1>3, <1>4, Zenon DEF AbstractFrames
<1>6. /\ AbstractOutcome' = AbstractOutcome /\ AbstractInput' = AbstractInput
      /\ AbstractExpect' = AbstractExpect
  BY <1>1, <1>4, Zenon DEF AbstractOutcome, AbstractInput, AbstractExpect
<1>. QED  BY <1>5, <1>6 DEF Unseen

LEMMA UnseenCleanup ==
  ASSUME ~oom, FailedCleanup PROVE Unseen
<1>1. /\ pc = "failed_cleanup" /\ pc' = "returned" /\ result' = 0
      /\ oom' = oom /\ input' = input
  BY DEF FailedCleanup
<1>2. Failed /\ Failed'  BY <1>1 DEF Failed
<1>. QED
  BY <1>1, <1>2, Zenon
     DEF Unseen, AbstractFrames, AbstractOutcome, AbstractInput, AbstractExpect

LEMMA UnseenSame ==
  ASSUME UNCHANGED vars PROVE Unseen
<1>1. /\ pc' = pc /\ result' = result /\ oom' = oom /\ input' = input /\ stack' = stack
      /\ heap' = heap /\ UNCHANGED containers
  BY DEF vars, store, objects, call
<1>2. Frames' = Frames /\ Top' = Top  BY <1>1, SameFrames DEF Frames
<1>3. Tree' = Tree /\ Root' = Root  BY <1>1 DEF Tree, References, Root
<1>4. (Failed' <=> Failed) /\ (Accepted' <=> Accepted)  BY <1>1 DEF Failed, Accepted
<1>5. AbstractFrames' = AbstractFrames
  <2>1. AbstractFrames = IF Failed THEN <<>>
                         ELSE IF pc = "doc_end" \/ Accepted
                         THEN <<[arr |-> heap[Root].kind = "list", items |-> Tree[Root][2]]>>
                         ELSE Frames
    BY FramesAre, Zenon DEF AbstractFrames
  <2>2. AbstractFrames' = IF Failed' THEN <<>>
                          ELSE IF pc' = "doc_end" \/ Accepted'
                          THEN <<[arr |-> heap'[Root'].kind = "list", items |-> Tree'[Root'][2]]>>
                          ELSE Frames'
    BY FramesAre, Zenon DEF AbstractFrames
  <2>3. CASE Failed  BY <1>4, <2>1, <2>2, <2>3, Zenon
  <2>4. CASE ~Failed /\ (pc = "doc_end" \/ Accepted)
    BY <1>1, <1>3, <1>4, <2>1, <2>2, <2>4, Zenon
  <2>5. CASE ~Failed /\ ~ (pc = "doc_end" \/ Accepted)
    BY <1>1, <1>2, <1>4, <2>1, <2>2, <2>5, Zenon
  <2>. QED  BY <2>3, <2>4, <2>5
<1>6. /\ AbstractOutcome' = AbstractOutcome /\ AbstractInput' = AbstractInput
  BY <1>1, <1>4 DEF AbstractOutcome, AbstractInput
<1>7. AbstractExpect' = AbstractExpect
  BY <1>1, <1>2, <1>4 DEF AbstractExpect, Expected
<1>. QED  BY <1>5, <1>6, <1>7 DEF Unseen

LEMMA NextOlder ==
  ASSUME IInv, OwnInv, Older(heap), [Next]_vars PROVE Older(heap')
<1>1. ObjectsOK /\ StoreOK  BY TypeParts DEF IInv
<1>2. CASE heap' = heap  BY <1>2
<1>3. CASE Move
  <2>1. CASE Untouched  BY <1>2, <2>1 DEF Untouched
  <2>2. CASE Taken
    <3>1. PICK kind \in Kinds : NewRef(kind, <<>>)  BY <2>2 DEF Taken
    <3>. QED  BY <1>1, <3>1, EmptyItems, MeaningsKept
  <2>3. CASE Built
    <3>1. PICK kind \in Kinds : NewRef(kind, Popped)  BY <2>3 DEF Built
    <3>2. Popped \in Seq(Nat) /\ Entries(Popped) \subseteq OnStack
      <4>1. Closable /\ Distinct(stack)  BY <2>3 DEF Built, OwnInv
      <4>. QED  BY <1>1, <4>1, PopEntries
    <3>3. Entries(Popped) \subseteq References  BY <3>2, StackRefs
    <3>. QED  BY <1>1, <3>1, <3>2, <3>3, MeaningsKept
  <2>4. CASE InsertionFailed
    <3>1. NewRef("dict", <<>>) /\ "dict" \in Kinds  BY <2>4 DEF InsertionFailed, Kinds
    <3>. QED  BY <1>1, <3>1, EmptyItems, MeaningsKept
  <2>. QED  BY <1>3, <2>1, <2>2, <2>3, <2>4 DEF Move
<1>4. CASE InitStacks \/ ReserveStringBuffer \/ Succeed \/ FailedCleanup \/ UNCHANGED vars
  BY <1>2, <1>4 DEF InitStacks, ReserveStringBuffer, Succeed, FailedCleanup, vars, objects
<1>5. CASE \E t \in Tokens : Step(t)  BY <1>3, <1>5, StepMoves
<1>6. CASE RetryAsNan  BY <1>3, <1>6, RetryMoves
<1>. QED  BY <1>4, <1>5, <1>6 DEF Next, Returned

\* The parts of TreeInv that labels carry.
Labelled ==
  /\ pc = "nan_retry" => oom
  /\ pc \in {"arr_val_end", "obj_val_end"} => Top.len > 0

LEMMA LeftAlone ==
  ASSUME pc' \notin {"nan_retry", "arr_val_end", "obj_val_end"} PROVE Labelled'
  BY DEF Labelled

LEMMA CountedLabelled ==
  ASSUME NEW c \in Seq(Ctn), Len(c) > 0, ctn' = Incremented(c), pc' = ValueEnd(c) PROVE Labelled'
<1>1. pc' # "nan_retry"  BY DEF ValueEnd
<1>2. Len(c) \in 1 .. Len(c) /\ c[Len(c)].len \in Nat
  <2>1. Len(c) \in 1 .. Len(c)  BY LenProperties
  <2>2. c[Len(c)] \in Ctn  BY <2>1, ElementOfSeq
  <2>. QED  BY <2>1, <2>2 DEF Ctn
<1>3. Len(ctn') = Len(c) /\ ctn'[Len(c)].len = c[Len(c)].len + 1
  BY <1>2, IncrementedProperties
<1>4. Top'.len > 0  BY <1>2, <1>3 DEF Top, Depth
<1>. QED  BY <1>1, <1>4 DEF Labelled

LEMMA ValueLabelled ==
  ASSUME IInv, Depth > 0, NEW t, ReadValue(t) PROVE Labelled'
<1>1. CASE Counted
  <2>1. ctn \in Seq(Ctn) /\ Len(ctn) > 0  BY DEF IInv, TypeOK, Ctn, Depth
  <2>. QED  BY <1>1, <2>1, CountedLabelled DEF Counted
<1>2. CASE pc' = "failed_cleanup"  BY <1>2, LeftAlone
<1>3. CASE pc' = "nan_retry" /\ oom' = TRUE  BY <1>3 DEF Labelled
<1>. QED  BY <1>1, <1>2, <1>3 DEF ReadValue, OutOfMemory, Raise

LEMMA BuildLabelled ==
  ASSUME IInv, Depth > 0, NEW kind, BuildContainer(kind) PROVE Labelled'
<1>1. CASE PopContainer
  <2>1. CASE Depth = 1  BY <1>1, <2>1, LeftAlone DEF PopContainer
  <2>2. CASE Depth # 1
    <3>1. ctn \in Seq(Ctn) /\ Len(ctn) = Depth /\ Depth \in Nat
      BY AccountsTypes DEF IInv, TypeOK, Ctn, Depth
    <3>2. Outer(ctn) \in Seq(Ctn) /\ Len(Outer(ctn)) > 0  BY <2>2, <3>1, OuterProperties
    <3>3. ctn' = Incremented(Outer(ctn)) /\ pc' = ValueEnd(Outer(ctn))
      BY <1>1, <2>2 DEF PopContainer
    <3>. QED  BY <3>2, <3>3, CountedLabelled
  <2>. QED  BY <2>1, <2>2
<1>2. CASE pc' = "failed_cleanup"  BY <1>2, LeftAlone
<1>. QED  BY <1>1, <1>2 DEF BuildContainer, OutOfMemory, Raise

LEMMA StepLabelled ==
  ASSUME IInv, NEW t \in Tokens, Step(t) PROVE Labelled'
<1>1. pc \notin {"root", "doc_end"} => Depth > 0
  BY DEF Step, ReadRoot, ArrValBegin, ArrValEnd, ObjKeyBegin, ObjKeyEnd, ObjValBegin, ObjValEnd,
         DocEnd, IInv, LabelFitsContainer
<1>2. CASE SyntaxError  BY <1>2, LeftAlone DEF SyntaxError, Raise
<1>3. CASE PushContainer(t)  BY <1>3, LeftAlone DEF PushContainer
<1>4. CASE EndArray /\ Depth > 0
  BY <1>4, BuildLabelled, LeftAlone DEF EndArray, NoContainer, OutOfMemory, Raise
<1>5. CASE EndObject /\ Depth > 0
  BY <1>5, BuildLabelled, LeftAlone DEF EndObject, NoContainer, OutOfMemory, Raise
<1>6. CASE ReadValue(t) /\ Depth > 0  BY <1>6, ValueLabelled
<1>7. CASE ReadKey  BY <1>7, LeftAlone DEF ReadKey, OutOfMemory, Raise
<1>8. CASE \E l \in {"arr_val_begin", "obj_key_begin", "obj_val_begin", "success"} : Goto(l)
  BY <1>8, LeftAlone DEF Goto
<1>9. CASE ReadRoot(t)  BY <1>3, <1>9 DEF ReadRoot
<1>10. CASE ArrValBegin(t)
  BY <1>1, <1>2, <1>3, <1>4, <1>6, <1>10 DEF ArrValBegin, BeginContainer
<1>11. CASE ArrValEnd(t)  BY <1>1, <1>2, <1>4, <1>8, <1>11 DEF ArrValEnd
<1>12. CASE ObjKeyBegin(t)  BY <1>1, <1>2, <1>5, <1>7, <1>12 DEF ObjKeyBegin
<1>13. CASE ObjKeyEnd(t)  BY <1>2, <1>8, <1>13 DEF ObjKeyEnd
<1>14. CASE ObjValBegin(t)  BY <1>1, <1>2, <1>3, <1>6, <1>14 DEF ObjValBegin, BeginContainer
<1>15. CASE ObjValEnd(t)  BY <1>1, <1>2, <1>5, <1>8, <1>15 DEF ObjValEnd
<1>16. CASE DocEnd(t)  BY <1>2, <1>8, <1>16 DEF DocEnd
<1>. QED  BY <1>9, <1>10, <1>11, <1>12, <1>13, <1>14, <1>15, <1>16 DEF Step

LEMMA NextTrees == ASSUME IInv, OwnInv, TreeInv, [Next]_vars PROVE TreeInv'
<1>1. Older(heap')  BY NextOlder DEF TreeInv
<1>2. Labelled'
  <2>1. CASE InitStacks \/ ReserveStringBuffer
    BY <2>1, LeftAlone DEF InitStacks, ReserveStringBuffer, OutOfMemory, Raise
  <2>2. CASE \E t \in Tokens : Step(t)  BY <2>2, StepLabelled
  <2>3. CASE RetryAsNan
    <3>1. Depth > 0  BY <2>3 DEF RetryAsNan, IInv, LabelFitsContainer
    <3>. QED  BY <2>3, <3>1, ValueLabelled, LeftAlone DEF RetryAsNan, SyntaxError, Raise
  <2>4. CASE Succeed \/ FailedCleanup  BY <2>4, LeftAlone DEF Succeed, FailedCleanup
  <2>5. CASE UNCHANGED vars
    <3>1. pc' = pc /\ oom' = oom /\ Top' = Top
      BY <2>5 DEF vars, containers, Top, Depth
    <3>. QED  BY <3>1 DEF TreeInv, Labelled
  <2>. QED  BY <2>1, <2>2, <2>3, <2>4, <2>5 DEF Next, Returned
<1>. QED  BY <1>1, <1>2 DEF TreeInv, Labelled

LEMMA InitTrees == ASSUME Init PROVE TreeInv
<1>1. Older(heap)
  <2>1. heap = <<>> /\ Len(<<>>) = 0  BY EmptySeq DEF Init
  <2>. QED  BY <2>1 DEF Older
<1>. QED  BY <1>1 DEF Init, TreeInv

-----------------------------------------------------------------------------
(* Step by step.                                                           *)

\* What a label turns down, JsonDoc does not allow there.
LEMMA Refuses ==
  ASSUME ~oom, TreeInv, NEW t,
         \/ /\ pc = "arr_val_begin"
            /\ \/ t = "rbrack" /\ Top.len # 0
               \/ t \notin ValueTokens \union {"lbrack", "lbrace", "rbrack"}
         \/ pc = "arr_val_end" /\ t \notin {"comma", "rbrack"}
         \/ /\ pc = "obj_key_begin"
            /\ \/ t = "rbrace" /\ Top.len # 0
               \/ t \notin {"str", "rbrace"}
         \/ pc = "obj_key_end" /\ t # "colon"
         \/ pc = "obj_val_begin" /\ t \notin ValueTokens \union {"lbrack", "lbrace"}
         \/ pc = "obj_val_end" /\ t \notin {"comma", "rbrace"}
         \/ pc = "doc_end" /\ t # "eof"
  PROVE  Refused(t)
<1>1. AbstractExpect = IF pc = "arr_val_begin" /\ Top.len = 0 THEN "value_or_close"
                       ELSE IF pc = "obj_key_begin" /\ Top.len = 0 THEN "key_or_close"
                       ELSE Expected[pc]
  BY Opened DEF AtToken
<1>. QED
  BY <1>1 DEF Expected, Refused, Doc!Allows, Doc!ValueStates, Doc!KeyStates, Doc!ScalarTokens,
              Doc!Brackets, ValueTokens

LEMMA Rejects ==
  ASSUME ~oom, pc \in AtToken \union {"doc_end"}, NEW t \in Tokens, Read(t), SyntaxError, Refused(t)
  PROVE  Doc!DocNext
<1>1. t \in Doc!DocTokens
  BY TokenAssumption DEF AllTokens, ValueTokens, Doc!DocTokens, Doc!Brackets, Doc!ScalarTokens
<1>. QED  BY <1>1, TokenRejected, Zenon DEF Doc!DocNext

LEMMA BeginRefines ==
  ASSUME IInv, ~oom, NEW t \in Tokens, Read(t), BeginContainer(t),
         pc \in {"arr_val_begin", "obj_val_begin"}
  PROVE  Doc!DocNext
<1>0. t \in {"lbrack", "lbrace"}  BY DEF BeginContainer
<1>1. CASE Depth < MaxDepth /\ PushContainer(t)
  <2>1. Doc!Open(t)  BY <1>0, <1>1, ContainerOpens
  <2>. QED  BY <1>0, <2>1 DEF Doc!DocNext, Doc!Brackets
<1>2. CASE Depth >= MaxDepth /\ SyntaxError
  <2>1. Depth \in Nat /\ Depth <= MaxDepth  BY AccountsTypes DEF IInv, TypeOK, Depth
  <2>2. Len(AbstractFrames) = MaxDepth
    <3>1. AbstractFrames = Frames  BY Opened DEF AtToken
    <3>2. Len(Frames) = Depth  BY <2>1, FramesLen DEF Frames
    <3>. QED  BY <1>2, <2>1, <3>1, <3>2, SizeAssumption
  <2>3. Refused(t)  BY <1>0, <2>2 DEF Refused
  <2>. QED  BY <1>2, <2>3, Rejects DEF AtToken
<1>. QED  BY <1>1, <1>2 DEF BeginContainer

LEMMA ValueRefines ==
  ASSUME IInv, OwnInv, TreeInv, ~oom, ~oom', pc \in {"arr_val_begin", "obj_val_begin"},
         NEW t, Read(t), ReadValue(t)
  PROVE  Doc!DocNext
<1>1. t \in Doc!ScalarTokens  BY DEF ReadValue, ValueTokens, Doc!ScalarTokens
<1>. QED  BY <1>1, ScalarReads, Zenon DEF Doc!DocNext

LEMMA SeparatorRefines ==
  ASSUME TreeInv, ~oom, NEW t, NEW label, Read(t), Goto(label), Top.len \in Nat,
         \/ pc = "arr_val_end" /\ t = "comma" /\ label = "arr_val_begin"
         \/ pc = "obj_val_end" /\ t = "comma" /\ label = "obj_key_begin"
         \/ pc = "obj_key_end" /\ t = "colon" /\ label = "obj_val_begin"
  PROVE  Doc!DocNext
<1>1. t \in {"comma", "colon"}  OBVIOUS
<1>2. Doc!Separator(t)  BY SeparatorReads
<1>. QED  BY <1>1, <1>2, Zenon DEF Doc!DocNext

LEMMA CloseRefines ==
  ASSUME IInv, OwnInv, TreeInv, ~oom, ~oom', NEW t, Read(t),
         \/ pc = "arr_val_begin" /\ Top.len = 0 /\ t = "rbrack" /\ EndArray
         \/ pc = "arr_val_end" /\ t = "rbrack" /\ EndArray
         \/ pc = "obj_key_begin" /\ Top.len = 0 /\ t = "rbrace" /\ EndObject
         \/ pc = "obj_val_end" /\ t = "rbrace" /\ EndObject
  PROVE  Doc!DocNext
<1>1. t \in {"rbrack", "rbrace"}  OBVIOUS
<1>2. EndArray => BuildContainer("list")  BY DEF EndArray, NoContainer, OutOfMemory
<1>3. EndObject => BuildContainer("dict")  BY DEF EndObject, NoContainer, OutOfMemory
<1>4. Doc!Close(t)  BY <1>2, <1>3, ContainerCloses
<1>. QED  BY <1>1, <1>4, Zenon DEF Doc!DocNext

LEMMA TopLen == ASSUME IInv, Depth > 0 PROVE Top.len \in Nat
  BY TypeParts, TopType DEF IInv

LEMMA StepRefines ==
  ASSUME IInv, OwnInv, TreeInv, ~oom, ~oom', NEW t \in Tokens, Step(t)
  PROVE  Doc!DocNext
<1>1. CASE ReadRoot(t)
  <2>1. /\ pc = "root" /\ t \in {"lbrack", "lbrace"} /\ Read(t) /\ PushContainer(t)
    BY <1>1 DEF ReadRoot
  <2>2. Depth < MaxDepth  BY <2>1, SizeAssumption DEF IInv, LabelFitsContainer
  <2>3. Doc!Open(t)  BY <2>1, <2>2, ContainerOpens
  <2>. QED  BY <2>1, <2>3 DEF Doc!DocNext, Doc!Brackets
<1>2. CASE ArrValBegin(t)
  BY <1>2, BeginRefines, ValueRefines, CloseRefines, Refuses, Rejects DEF ArrValBegin, AtToken
<1>3. CASE ArrValEnd(t)
  <2>1. Top.len \in Nat  BY <1>3, TopLen DEF ArrValEnd, IInv, LabelFitsContainer
  <2>. QED
    BY <1>3, <2>1, SeparatorRefines, CloseRefines, Refuses, Rejects DEF ArrValEnd, AtToken
<1>4. CASE ObjKeyBegin(t)
  <2>1. CASE t = "str" /\ ReadKey
    BY <1>4, <2>1, KeyReads DEF ObjKeyBegin, Doc!DocNext
  <2>2. CASE ~ (t = "str" /\ ReadKey)
    BY <1>4, <2>2, CloseRefines, Refuses, Rejects DEF ObjKeyBegin, AtToken
  <2>. QED  BY <2>1, <2>2
<1>5. CASE ObjKeyEnd(t)
  <2>1. Top.len \in Nat  BY <1>5, TopLen DEF ObjKeyEnd, IInv, LabelFitsContainer
  <2>. QED  BY <1>5, <2>1, SeparatorRefines, Refuses, Rejects DEF ObjKeyEnd, AtToken
<1>6. CASE ObjValBegin(t)
  BY <1>6, BeginRefines, ValueRefines, Refuses, Rejects DEF ObjValBegin, AtToken
<1>7. CASE ObjValEnd(t)
  <2>1. Top.len \in Nat  BY <1>7, TopLen DEF ObjValEnd, IInv, LabelFitsContainer
  <2>. QED
    BY <1>7, <2>1, SeparatorRefines, CloseRefines, Refuses, Rejects DEF ObjValEnd, AtToken
<1>8. CASE DocEnd(t)
  <2>1. CASE t = "eof" /\ Goto("success")
    BY <1>8, <2>1, DocumentAccepted DEF DocEnd, Doc!DocNext
  <2>2. CASE t # "eof" /\ SyntaxError
    BY <1>8, <2>2, Refuses, Rejects DEF DocEnd
  <2>. QED  BY <1>8, <2>1, <2>2 DEF DocEnd
<1>. QED  BY <1>1, <1>2, <1>3, <1>4, <1>5, <1>6, <1>7, <1>8 DEF Step

LEMMA OomStays == ASSUME oom, [Next]_vars PROVE oom'
<1>1. oom' = oom \/ oom' = TRUE
  <2>1. CASE \E t \in Tokens : Step(t)
    <3>1. PICK t \in Tokens : Step(t)  BY <2>1
    <3>. DEFINE kept == oom' = oom \/ oom' = TRUE
    <3>2. SyntaxError => kept  BY DEF SyntaxError
    <3>3. PushContainer(t) => kept  BY DEF PushContainer
    <3>4. ReadValue(t) => kept  BY DEF ReadValue, OutOfMemory
    <3>5. ReadKey => kept  BY DEF ReadKey, OutOfMemory
    <3>6. \A k : BuildContainer(k) => kept  BY DEF BuildContainer, OutOfMemory
    <3>7. EndArray => kept  BY <3>6 DEF EndArray, NoContainer, OutOfMemory
    <3>8. EndObject => kept  BY <3>6 DEF EndObject, NoContainer, OutOfMemory
    <3>9. \A l : Goto(l) => kept  BY DEF Goto
    <3>. HIDE DEF kept
    <3>10. kept
      BY <3>1, <3>2, <3>3, <3>4, <3>5, <3>7, <3>8, <3>9
         DEF Step, ReadRoot, ArrValBegin, ArrValEnd, ObjKeyBegin, ObjKeyEnd, ObjValBegin,
             ObjValEnd, DocEnd, BeginContainer
    <3>. QED  BY <3>10 DEF kept
  <2>2. CASE RetryAsNan  BY <2>2 DEF RetryAsNan, SyntaxError, ReadValue, OutOfMemory
  <2>3. CASE InitStacks \/ ReserveStringBuffer
    BY <2>3 DEF InitStacks, ReserveStringBuffer, OutOfMemory
  <2>4. CASE Succeed \/ FailedCleanup  BY <2>4 DEF Succeed, FailedCleanup
  <2>5. CASE UNCHANGED vars  BY <2>5 DEF vars
  <2>. QED  BY <2>1, <2>2, <2>3, <2>4, <2>5 DEF Next, Returned
<1>. QED  BY <1>1

LEMMA NextRefines ==
  ASSUME IInv, OwnInv, TreeInv, [Next]_vars PROVE Doc!DocNext \/ Unseen
<1>1. CASE oom  BY <1>1, OomStays, UnseenOom
<1>2. CASE ~oom /\ oom'
  <2>1. Parsing
    <3>1. CASE pc \in {"success", "failed_cleanup", "returned"}
      <4>1. Succeed \/ FailedCleanup \/ UNCHANGED vars
        BY <3>1 DEF Next, Returned, InitStacks, ReserveStringBuffer, Step, ReadRoot, ArrValBegin,
                    ArrValEnd, ObjKeyBegin, ObjKeyEnd, ObjValBegin, ObjValEnd, DocEnd, RetryAsNan
      <4>. QED  BY <1>2, <4>1 DEF Succeed, FailedCleanup, vars
    <3>. QED  BY <3>1 DEF Parsing
  <2>. QED  BY <1>2, <2>1, GivesUp DEF Doc!DocNext
<1>3. CASE ~oom /\ ~oom'
  <2>1. CASE InitStacks \/ ReserveStringBuffer  BY <1>3, <2>1, UnseenEnter
  <2>2. CASE \E t \in Tokens : Step(t)  BY <1>3, <2>2, StepRefines
  <2>3. CASE RetryAsNan  BY <1>3, <2>3 DEF RetryAsNan, TreeInv
  <2>4. CASE Succeed  BY <1>3, <2>4, UnseenSucceed
  <2>5. CASE FailedCleanup  BY <1>3, <2>5, UnseenCleanup
  <2>6. CASE UNCHANGED vars  BY <2>6, UnseenSame
  <2>. QED  BY <2>1, <2>2, <2>3, <2>4, <2>5, <2>6 DEF Next, Returned
<1>. QED  BY <1>1, <1>2, <1>3

LEMMA InitRefines == ASSUME Init PROVE Doc!DocInit
<1>1. pc = "init" /\ ~oom /\ input = <<>> /\ ctn = <<>>  BY DEF Init
<1>2. /\ AbstractOutcome = "open" /\ AbstractInput = <<>> /\ AbstractFrames = Frames
      /\ AbstractExpect = "root"
  BY <1>1, Opened DEF Expected
<1>3. Frames = <<>>
  <2>1. Depth = 0 /\ 1 .. 0 = {}  BY <1>1, EmptySeq DEF Depth
  <2>. QED  BY <2>1 DEF Frames, FramesOf
<1>. QED  BY <1>2, <1>3 DEF Doc!DocInit

\* The decoder reads a document as JsonDoc does: whatever its nesting limit,
\* capacity, tokens and length, the flat stacks are at every token the nested
\* containers JSON builds, a text is accepted with the object it spells or
\* rejected at the first token JSON does not allow, and only a failed
\* allocation stops the call for another reason.
THEOREM DecodesJson == Spec => ImplementsJsonDoc
<1>1. Init => IInv /\ OwnInv /\ TreeInv  BY InitInvariant, InitOwns, InitTrees
<1>2. IInv /\ OwnInv /\ TreeInv /\ [Next]_vars => (IInv /\ OwnInv /\ TreeInv)'
  BY InvariantStep, NextOwns, NextTrees
<1>3. Init => Doc!DocInit  BY InitRefines
<1>4. IInv /\ OwnInv /\ TreeInv /\ [Next]_vars => [Doc!DocNext]_Doc!docVars
  BY NextRefines DEF Unseen, Doc!docVars
<1>. QED  BY <1>1, <1>2, <1>3, <1>4, PTL DEF Spec, ImplementsJsonDoc, Doc!DocSpec

-----------------------------------------------------------------------------
(* Texts.                                                                  *)

Texts == Seq(AllTokens)

LEMMA TextEmpty == <<>> \in Texts
  BY EmptySeq DEF Texts

LEMMA TextConcat ==
  ASSUME NEW a \in Texts, NEW b \in Texts
  PROVE  a \o b \in Texts /\ a \o <<>> = a /\ <<>> \o a = a
  BY ConcatProperties, ConcatEmptySeq DEF Texts

LEMMA TextAssociative ==
  ASSUME NEW a \in Texts, NEW b \in Texts, NEW c \in Texts
  PROVE  (a \o b) \o c = a \o (b \o c)
  BY ConcatAssociative DEF Texts

LEMMA TextAppend ==
  ASSUME NEW a \in Texts, NEW x \in AllTokens
  PROVE  Append(a, x) \in Texts /\ Append(a, x) = a \o <<x>> /\ <<x>> \in Texts
<1>1. Append(a, x) \in Texts /\ Append(a, x) = a \o <<x>>
  BY AppendProperties, AppendIsConcat DEF Texts
<1>2. <<x>> \in Texts
  <2>1. Append(<<>>, x) \in Seq(AllTokens)  BY EmptySeq, AppendProperties
  <2>2. Append(<<>>, x) = <<x>>  OBVIOUS
  <2>. QED  BY <2>1, <2>2 DEF Texts
<1>. QED  BY <1>1, <1>2

LEMMA TextAppendConcat ==
  ASSUME NEW a \in Texts, NEW b \in Texts, NEW x \in AllTokens
  PROVE  Append(a \o b, x) = a \o Append(b, x)
<1>1. a \o b \in Texts /\ <<x>> \in Texts /\ Append(b, x) = b \o <<x>>
  BY TextConcat, TextAppend
<1>2. Append(a \o b, x) = (a \o b) \o <<x>>  BY <1>1, TextAppend
<1>3. (a \o b) \o <<x>> = a \o (b \o <<x>>)  BY <1>1, TextAssociative
<1>. QED  BY <1>1, <1>2, <1>3

LEMMA SeparatorType == ASSUME NEW kind, NEW n PROVE Separator(kind, n) \in Texts
<1>1. "colon" \in AllTokens /\ "comma" \in AllTokens  BY DEF AllTokens
<1>2. <<"colon">> \in Texts /\ <<"comma">> \in Texts
  BY <1>1, TextEmpty, TextAppend
<1>. QED  BY <1>2, TextEmpty DEF Separator

-----------------------------------------------------------------------------
(* Parts joined: f has what is joined of the first m parts, for each m.    *)

Prefixes(kind, parts, n, f) ==
  f = [m \in 0 .. n |-> IF m = 0 THEN <<>> ELSE f[m - 1] \o Separator(kind, m) \o parts[m]]

OneByOne(kind, parts, n, f) ==
  /\ f[0] = <<>>
  /\ \A m \in 1 .. n : f[m] = f[m - 1] \o Separator(kind, m) \o parts[m]

LEMMA PrefixIs ==
  ASSUME NEW kind, NEW parts, NEW n \in Nat, NEW f, Prefixes(kind, parts, n, f)
  PROVE  OneByOne(kind, parts, n, f)
<1>1. 0 \in 0 .. n /\ \A m \in 1 .. n : m \in 0 .. n /\ m # 0  OBVIOUS
<1>. QED  BY <1>1 DEF Prefixes, OneByOne

LEMMA PrefixesGrow ==
  ASSUME NEW kind, NEW parts, NEW n \in Nat, NEW f, Prefixes(kind, parts, n, f)
  PROVE  \E g : Prefixes(kind, parts, n + 1, g)
<1>. DEFINE new == f[n] \o Separator(kind, n + 1) \o parts[n + 1]
            g == [m \in 0 .. n + 1 |-> IF m = n + 1 THEN new ELSE f[m]]
<1>1. g = [m \in 0 .. n + 1 |-> g[m]] /\ g[n + 1] = new /\ \A m \in 0 .. n : g[m] = f[m]
  OBVIOUS
<1>2. f[0] = <<>> /\ \A m \in 1 .. n : f[m] = f[m - 1] \o Separator(kind, m) \o parts[m]
  <2>1. OneByOne(kind, parts, n, f)  BY PrefixIs
  <2>. QED  BY <2>1 DEF OneByOne
<1>. HIDE DEF g
<1>3. \A m \in 0 .. n + 1 :
        g[m] = IF m = 0 THEN <<>> ELSE g[m - 1] \o Separator(kind, m) \o parts[m]
  <2>1. TAKE m \in 0 .. n + 1
  <2>2. CASE m = 0
    <3>1. 0 \in 0 .. n  OBVIOUS
    <3>. QED  BY <1>1, <1>2, <2>2, <3>1
  <2>3. CASE m = n + 1
    <3>1. n \in 0 .. n /\ m - 1 = n /\ m # 0  BY <2>3
    <3>. QED  BY <1>1, <2>3, <3>1
  <2>4. CASE m # 0 /\ m # n + 1
    <3>1. m \in 1 .. n /\ m \in 0 .. n /\ m - 1 \in 0 .. n  BY <2>4
    <3>. QED  BY <1>1, <1>2, <2>4, <3>1
  <2>. QED  BY <2>2, <2>3, <2>4
<1>4. Prefixes(kind, parts, n + 1, g)  BY <1>1, <1>3 DEF Prefixes
<1>. QED  BY <1>4

LEMMA PrefixesExist ==
  ASSUME NEW kind, NEW parts, NEW n \in Nat PROVE \E f : Prefixes(kind, parts, n, f)
<1>. DEFINE Bad == {m \in Nat : ~ \E f : Prefixes(kind, parts, m, f)}
<1>1. 0 \notin Bad
  <2>. DEFINE f == [m \in 0 .. 0 |-> <<>>]
  <2>1. f = [m \in 0 .. 0 |-> IF m = 0 THEN <<>> ELSE f[m - 1] \o Separator(kind, m) \o parts[m]]
    <3>1. \A m \in 0 .. 0 : m = 0  OBVIOUS
    <3>. QED  BY <3>1
  <2>2. Prefixes(kind, parts, 0, f)  BY <2>1, Zenon DEF Prefixes
  <2>. QED  BY <2>2
<1>2. Bad = {}
  <2>1. SUFFICES ASSUME Bad # {} PROVE FALSE  OBVIOUS
  <2>2. PICK m \in Bad : \A k \in Bad : m <= k
    <3>1. Bad \in SUBSET Nat  OBVIOUS
    <3>. QED  BY <2>1, <3>1, Least
  <2>3. m \in Nat /\ m # 0 /\ m - 1 \in Nat /\ m - 1 \notin Bad /\ (m - 1) + 1 = m
    BY <1>1, <2>2
  <2>4. PICK f : Prefixes(kind, parts, m - 1, f)  BY <2>3
  <2>5. \E g : Prefixes(kind, parts, m, g)  BY <2>3, <2>4, PrefixesGrow
  <2>. QED  BY <2>2, <2>5
<1>. QED  BY <1>2

SamePrefixes(n, f, g) == \A m \in 0 .. n : g[m] = f[m]

LEMMA PrefixesAgree ==
  ASSUME NEW kind, NEW parts, NEW others, NEW n \in Nat, NEW k \in Nat, n <= k,
         NEW f, NEW g, Prefixes(kind, parts, n, f), Prefixes(kind, others, k, g),
         \A i \in 1 .. n : others[i] = parts[i]
  PROVE  SamePrefixes(n, f, g)
<1>. DEFINE Bad == {m \in 0 .. n : g[m] # f[m]}
<1>1. /\ f[0] = <<>> /\ \A m \in 1 .. n : f[m] = f[m - 1] \o Separator(kind, m) \o parts[m]
      /\ g[0] = <<>> /\ \A m \in 1 .. k : g[m] = g[m - 1] \o Separator(kind, m) \o others[m]
  <2>1. OneByOne(kind, parts, n, f)  BY PrefixIs
  <2>2. OneByOne(kind, others, k, g)  BY PrefixIs
  <2>. QED  BY <2>1, <2>2 DEF OneByOne
<1>2. SUFFICES ASSUME Bad # {} PROVE FALSE  BY DEF SamePrefixes
<1>3. PICK m \in Bad : \A j \in Bad : m <= j
  <2>1. Bad \in SUBSET Nat  OBVIOUS
  <2>. QED  BY <1>2, <2>1, Least
<1>4. m \in 1 .. n /\ m \in 1 .. k /\ m - 1 \in 0 .. n /\ ~ (m <= m - 1)  BY <1>1
<1>5. g[m - 1] = f[m - 1]  BY <1>3, <1>4
<1>6. g[m] = f[m]  BY <1>1, <1>4, <1>5
<1>. QED  BY <1>6

LEMMA JoinedIs ==
  ASSUME NEW kind, NEW parts, Len(parts) \in Nat
  PROVE  \E f : Prefixes(kind, parts, Len(parts), f) /\ Joined(kind, parts) = f[Len(parts)]
<1>1. PICK f : Prefixes(kind, parts, Len(parts), f)  BY PrefixesExist
<1>2. f = [m \in 0 .. Len(parts) |->
             IF m = 0 THEN <<>> ELSE f[m - 1] \o Separator(kind, m) \o parts[m]]
  BY <1>1 DEF Prefixes
<1>. DEFINE g == CHOOSE h : h = [m \in 0 .. Len(parts) |->
                     IF m = 0 THEN <<>> ELSE h[m - 1] \o Separator(kind, m) \o parts[m]]
<1>3. g = [m \in 0 .. Len(parts) |->
             IF m = 0 THEN <<>> ELSE g[m - 1] \o Separator(kind, m) \o parts[m]]
  BY <1>2
<1>4. Joined(kind, parts) = g[Len(parts)]  BY DEF Joined
<1>. HIDE DEF g
<1>. QED  BY <1>3, <1>4 DEF Prefixes

\* One part more.
LEMMA JoinedGrows ==
  ASSUME NEW kind, NEW parts \in Seq(Texts), NEW x \in Texts
  PROVE  Joined(kind, Append(parts, x))
           = Joined(kind, parts) \o Separator(kind, Len(parts) + 1) \o x
<1>1. PICK n \in Nat : n = Len(parts)  BY LenProperties
<1>2. PICK others : others = Append(parts, x)  OBVIOUS
<1>3. n = Len(parts) /\ others = Append(parts, x)  BY <1>1, <1>2
<1>4. Len(others) = n + 1 /\ others[n + 1] = x /\ \A i \in 1 .. n : others[i] = parts[i]
  BY <1>3, AppendProperties
<1>5. PICK f : Prefixes(kind, parts, n, f) /\ Joined(kind, parts) = f[n]  BY <1>3, JoinedIs
<1>6. PICK g : Prefixes(kind, others, n + 1, g) /\ Joined(kind, others) = g[n + 1]
  BY <1>4, JoinedIs
<1>7. g[n] = f[n]
  <2>1. SamePrefixes(n, f, g)
    <3>1. n + 1 \in Nat /\ n <= n + 1  OBVIOUS
    <3>. QED  BY <1>4, <1>5, <1>6, <3>1, PrefixesAgree
  <2>. QED  BY <2>1 DEF SamePrefixes
<1>8. g[n + 1] = g[n] \o Separator(kind, n + 1) \o others[n + 1]
  <2>1. OneByOne(kind, others, n + 1, g)  BY <1>6, PrefixIs
  <2>2. n + 1 \in 1 .. n + 1 /\ (n + 1) - 1 = n  OBVIOUS
  <2>. QED  BY <2>1, <2>2 DEF OneByOne
<1>. QED  BY <1>3, <1>4, <1>5, <1>6, <1>7, <1>8

LEMMA JoinedEmpty == ASSUME NEW kind PROVE Joined(kind, <<>>) = <<>>
<1>1. Len(<<>>) = 0  OBVIOUS
<1>2. PICK f : Prefixes(kind, <<>>, 0, f) /\ Joined(kind, <<>>) = f[0]  BY <1>1, JoinedIs
<1>3. OneByOne(kind, <<>>, 0, f)  BY <1>2, PrefixIs
<1>. QED  BY <1>2, <1>3 DEF OneByOne

LEMMA JoinedType ==
  ASSUME NEW kind, NEW parts \in Seq(Texts) PROVE Joined(kind, parts) \in Texts
<1>1. PICK n \in Nat : n = Len(parts)  BY LenProperties
<1>2. PICK f : Prefixes(kind, parts, n, f) /\ Joined(kind, parts) = f[n]  BY <1>1, JoinedIs
<1>3. f[0] = <<>> /\ \A m \in 1 .. n : f[m] = f[m - 1] \o Separator(kind, m) \o parts[m]
  <2>1. OneByOne(kind, parts, n, f)  BY <1>2, PrefixIs
  <2>. QED  BY <2>1 DEF OneByOne
<1>4. \A m \in 1 .. n : parts[m] \in Texts  BY <1>1, ElementOfSeq
<1>5. \A m \in 0 .. n : f[m] \in Texts
  <2>. DEFINE Bad == {m \in 0 .. n : f[m] \notin Texts}
  <2>1. SUFFICES ASSUME Bad # {} PROVE FALSE  OBVIOUS
  <2>2. PICK m \in Bad : \A j \in Bad : m <= j
    <3>1. Bad \in SUBSET Nat  OBVIOUS
    <3>. QED  BY <2>1, <3>1, Least
  <2>3. m # 0  BY <1>3, TextEmpty
  <2>4. m \in 1 .. n /\ m - 1 \in 0 .. n /\ ~ (m <= m - 1)  BY <2>3
  <2>5. f[m - 1] \in Texts  BY <2>2, <2>4
  <2>6. f[m] \in Texts
    <3>1. f[m - 1] \o Separator(kind, m) \in Texts  BY <2>5, SeparatorType, TextConcat
    <3>2. parts[m] \in Texts  BY <1>4, <2>4
    <3>3. (f[m - 1] \o Separator(kind, m)) \o parts[m] \in Texts  BY <3>1, <3>2, TextConcat
    <3>. QED  BY <1>3, <2>4, <3>3
  <2>. QED  BY <2>6
<1>. QED  BY <1>2, <1>5

-----------------------------------------------------------------------------
(* What open containers spell.                                             *)

Kind(frame) == IF frame.arr THEN "list" ELSE "dict"
Begun(frame) == Unclosed(Kind(frame), frame.items)
NextSeparator(frame) == Separator(Kind(frame), Len(frame.items) + 1)
Due(due, frame) == IF due THEN NextSeparator(frame) ELSE <<>>

\* before[d] is the text in front of container d: the containers around it
\* as far as they are read, with what stands before their next item.
Around(fs, n, before) ==
  /\ before[1] = <<>>
  /\ \A d \in 1 .. n : before[d] \in Texts /\ fs[d].items \in Seq(Texts)
  /\ \A d \in 1 .. n - 1 :
       before[d + 1] = before[d] \o (Begun(fs[d]) \o NextSeparator(fs[d]))

\* The text ends in the n-th container, behind a separator or not.
Spelled(fs, n, text, due) ==
  \E before : /\ Around(fs, n, before)
              /\ text = before[n] \o (Begun(fs[n]) \o Due(due, fs[n]))

LEMMA BegunType ==
  ASSUME NEW frame, frame.items \in Seq(Texts)
  PROVE  /\ Begun(frame) \in Texts /\ NextSeparator(frame) \in Texts
         /\ \A p : Due(p, frame) \in Texts /\ Begun(frame) \o Due(p, frame) \in Texts
<1>1. "lbrack" \in AllTokens /\ "lbrace" \in AllTokens  BY DEF AllTokens
<1>2. \A kind : <<IF kind = "list" THEN "lbrack" ELSE "lbrace">> \in Texts
  <2>1. <<"lbrack">> \in Texts /\ <<"lbrace">> \in Texts  BY <1>1, TextEmpty, TextAppend
  <2>. QED  BY <2>1
<1>3. \A kind : Joined(kind, frame.items) \in Texts  BY JoinedType
<1>4. \A kind : Unclosed(kind, frame.items) \in Texts
  <2>1. TAKE kind
  <2>2. Joined(kind, frame.items) \in Texts  BY <1>3
  <2>3. <<IF kind = "list" THEN "lbrack" ELSE "lbrace">> \in Texts  BY <1>2
  <2>. QED  BY <2>2, <2>3, TextConcat DEF Unclosed
<1>5. Begun(frame) \in Texts  BY <1>4 DEF Begun
<1>6. NextSeparator(frame) \in Texts  BY SeparatorType DEF NextSeparator
<1>7. \A p : Due(p, frame) \in Texts  BY <1>6, TextEmpty DEF Due
<1>8. \A p : Begun(frame) \o Due(p, frame) \in Texts  BY <1>5, <1>7, TextConcat
<1>. QED  BY <1>5, <1>6, <1>7, <1>8

\* The text is one, whatever is due.
LEMMA SpelledType ==
  ASSUME NEW n \in Nat \ {0}, NEW fs, NEW text, NEW p, Spelled(fs, n, text, p)
  PROVE  text \in Texts /\ fs[n].items \in Seq(Texts)
<1>1. PICK before : Around(fs, n, before) /\ text = before[n] \o (Begun(fs[n]) \o Due(p, fs[n]))
  BY DEF Spelled
<1>2. before[n] \in Texts /\ fs[n].items \in Seq(Texts)
  <2>1. n \in 1 .. n  OBVIOUS
  <2>. QED  BY <1>1, <2>1 DEF Around
<1>3. Begun(fs[n]) \o Due(p, fs[n]) \in Texts  BY <1>2, BegunType
<1>. QED  BY <1>1, <1>2, <1>3, TextConcat

\* Nothing stands before the first item.
LEMMA EmptyFrame ==
  ASSUME NEW frame, frame.items = <<>>
  PROVE  /\ frame.items \in Seq(Texts)
         /\ Begun(frame) = <<IF frame.arr THEN "lbrack" ELSE "lbrace">>
         /\ NextSeparator(frame) = <<>>
         /\ \A p : Begun(frame) \o Due(p, frame) = Begun(frame)
<1>1. frame.items \in Seq(Texts) /\ Len(frame.items) + 1 = 1
  <2>1. <<>> \in Seq(Texts) /\ Len(<<>>) = 0  BY EmptySeq
  <2>. QED  BY <2>1
<1>2. NextSeparator(frame) = <<>>  BY <1>1 DEF NextSeparator, Separator
<1>3. \A p : Due(p, frame) = <<>>  BY <1>2 DEF Due
<1>4. Begun(frame) \in Texts  BY <1>1, BegunType
<1>5. Joined(Kind(frame), <<>>) = <<>>  BY JoinedEmpty
<1>6. Begun(frame) = <<IF frame.arr THEN "lbrack" ELSE "lbrace">> \o <<>>
  <2>1. CASE frame.arr  BY <1>5, <2>1 DEF Begun, Unclosed, Kind
  <2>2. CASE ~frame.arr  BY <1>5, <2>2 DEF Begun, Unclosed, Kind
  <2>. QED  BY <2>1, <2>2
<1>7. <<IF frame.arr THEN "lbrack" ELSE "lbrace">> \in Texts
  <2>1. "lbrack" \in AllTokens /\ "lbrace" \in AllTokens  BY DEF AllTokens
  <2>2. <<"lbrack">> \in Texts /\ <<"lbrace">> \in Texts  BY <2>1, TextEmpty, TextAppend
  <2>. QED  BY <2>2
<1>8. Begun(frame) = <<IF frame.arr THEN "lbrack" ELSE "lbrace">>  BY <1>6, <1>7, TextConcat
<1>9. Begun(frame) \o <<>> = Begun(frame)  BY <1>4, TextConcat
<1>. QED  BY <1>1, <1>2, <1>3, <1>8, <1>9

\* The root container is opened.
LEMMA RootSpelled ==
  ASSUME NEW g, NEW arr \in BOOLEAN, g[1] = [arr |-> arr, items |-> <<>>], NEW p
  PROVE  Spelled(g, 1, <<IF arr THEN "lbrack" ELSE "lbrace">>, p)
<1>. DEFINE before == [d \in 1 .. 1 |-> <<>>]
<1>1. g[1].items = <<>> /\ g[1].arr = arr  OBVIOUS
<1>2. /\ g[1].items \in Seq(Texts)
      /\ Begun(g[1]) = <<IF arr THEN "lbrack" ELSE "lbrace">>
      /\ Begun(g[1]) \o Due(p, g[1]) = Begun(g[1])
  BY <1>1, EmptyFrame
<1>3. before[1] = <<>> /\ 1 .. 1 - 1 = {} /\ \A d \in 1 .. 1 : d = 1  OBVIOUS
<1>. HIDE DEF before
<1>4. Around(g, 1, before)  BY <1>2, <1>3, TextEmpty DEF Around
<1>5. Begun(g[1]) \in Texts  BY <1>2, BegunType
<1>6. <<>> \o Begun(g[1]) = Begun(g[1])  BY <1>5, TextConcat
<1>. QED  BY <1>2, <1>3, <1>4, <1>6 DEF Spelled

\* A container is opened where its parent's next item is due.
LEMMA OpenSpelled ==
  ASSUME NEW n \in Nat \ {0}, NEW fs, NEW text, Spelled(fs, n, text, TRUE),
         NEW g, \A d \in 1 .. n : g[d] = fs[d],
         NEW arr \in BOOLEAN, g[n + 1] = [arr |-> arr, items |-> <<>>], NEW p
  PROVE  Spelled(g, n + 1, Append(text, IF arr THEN "lbrack" ELSE "lbrace"), p)
<1>1. PICK before :
        Around(fs, n, before) /\ text = before[n] \o (Begun(fs[n]) \o Due(TRUE, fs[n]))
  BY DEF Spelled
<1>. DEFINE new == [d \in 1 .. n + 1 |-> IF d = n + 1 THEN text ELSE before[d]]
<1>2. new[n + 1] = text /\ \A d \in 1 .. n : new[d] = before[d]  OBVIOUS
<1>. HIDE DEF new
<1>3. text \in Texts  BY SpelledType
<1>4. g[n + 1].items = <<>> /\ g[n + 1].arr = arr  OBVIOUS
<1>5. /\ g[n + 1].items \in Seq(Texts)
      /\ Begun(g[n + 1]) = <<IF arr THEN "lbrack" ELSE "lbrace">>
      /\ Begun(g[n + 1]) \o Due(p, g[n + 1]) = Begun(g[n + 1])
  BY <1>4, EmptyFrame
<1>6. Around(g, n + 1, new)
  <2>1. new[1] = <<>>
    <3>1. 1 \in 1 .. n  OBVIOUS
    <3>. QED  BY <1>1, <1>2, <3>1 DEF Around
  <2>2. \A d \in 1 .. n + 1 : new[d] \in Texts /\ g[d].items \in Seq(Texts)
    <3>1. TAKE d \in 1 .. n + 1
    <3>2. CASE d = n + 1  BY <1>2, <1>3, <1>5, <3>2
    <3>3. CASE d # n + 1
      <4>1. d \in 1 .. n  BY <3>3
      <4>. QED  BY <1>1, <1>2, <4>1 DEF Around
    <3>. QED  BY <3>2, <3>3
  <2>3. \A d \in 1 .. (n + 1) - 1 :
          new[d + 1] = new[d] \o (Begun(g[d]) \o NextSeparator(g[d]))
    <3>1. TAKE d \in 1 .. (n + 1) - 1
    <3>2. d \in 1 .. n /\ new[d] = before[d] /\ g[d] = fs[d]  BY <1>2
    <3>3. CASE d = n
      <4>1. new[d + 1] = text  BY <1>2, <3>3
      <4>2. Due(TRUE, fs[n]) = NextSeparator(fs[n])  BY DEF Due
      <4>. QED  BY <1>1, <3>2, <3>3, <4>1, <4>2
    <3>4. CASE d # n
      <4>1. d + 1 \in 1 .. n /\ d \in 1 .. n - 1  BY <3>4
      <4>2. new[d + 1] = before[d + 1]  BY <1>2, <4>1
      <4>3. before[d + 1] = before[d] \o (Begun(fs[d]) \o NextSeparator(fs[d]))
        BY <1>1, <4>1 DEF Around
      <4>. QED  BY <3>2, <4>2, <4>3
    <3>. QED  BY <3>3, <3>4
  <2>. QED  BY <2>1, <2>2, <2>3 DEF Around
<1>7. Append(text, IF arr THEN "lbrack" ELSE "lbrace")
        = new[n + 1] \o (Begun(g[n + 1]) \o Due(p, g[n + 1]))
  <2>1. "lbrack" \in AllTokens /\ "lbrace" \in AllTokens  BY DEF AllTokens
  <2>2. (IF arr THEN "lbrack" ELSE "lbrace") \in AllTokens  BY <2>1
  <2>3. Append(text, IF arr THEN "lbrack" ELSE "lbrace")
          = text \o <<IF arr THEN "lbrack" ELSE "lbrace">>
    BY <1>3, <2>2, TextAppend
  <2>. QED  BY <1>2, <1>5, <2>3
<1>. QED  BY <1>6, <1>7 DEF Spelled

\* One item more.
LEMMA ItemBegun ==
  ASSUME NEW frame, frame.items \in Seq(Texts), NEW x \in Texts,
         NEW more, more.arr = frame.arr, more.items = Append(frame.items, x)
  PROVE  /\ more.items \in Seq(Texts)
         /\ Begun(more) = (Begun(frame) \o NextSeparator(frame)) \o x
<1>1. PICK kind : kind = Kind(frame)  OBVIOUS
<1>2. Kind(more) = kind  BY <1>1 DEF Kind
<1>3. PICK items, n, open : items = frame.items /\ n = Len(items) + 1
                            /\ open = <<IF kind = "list" THEN "lbrack" ELSE "lbrace">>
  OBVIOUS
<1>4. Joined(kind, Append(items, x)) = Joined(kind, items) \o Separator(kind, n) \o x
  BY <1>3, JoinedGrows
<1>5. open \in Texts
  <2>1. "lbrack" \in AllTokens /\ "lbrace" \in AllTokens  BY DEF AllTokens
  <2>2. <<"lbrack">> \in Texts /\ <<"lbrace">> \in Texts  BY <2>1, TextEmpty, TextAppend
  <2>. QED  BY <1>3, <2>2
<1>6. PICK j, s : j = Joined(kind, items) /\ s = Separator(kind, n)  OBVIOUS
<1>7. j \in Texts /\ s \in Texts  BY <1>3, <1>6, JoinedType, SeparatorType
<1>8. Begun(more) = open \o ((j \o s) \o x)
  BY <1>2, <1>3, <1>4, <1>6 DEF Begun, Unclosed
<1>9. Begun(frame) = open \o j /\ NextSeparator(frame) = s
  BY <1>1, <1>3, <1>6 DEF Begun, Unclosed, NextSeparator
<1>10. open \o ((j \o s) \o x) = ((open \o j) \o s) \o x
  <2>1. j \o s \in Texts  BY <1>7, TextConcat
  <2>2. open \o ((j \o s) \o x) = (open \o (j \o s)) \o x  BY <1>5, <2>1, TextAssociative
  <2>3. open \o (j \o s) = (open \o j) \o s  BY <1>5, <1>7, TextAssociative
  <2>. QED  BY <2>2, <2>3
<1>11. more.items \in Seq(Texts)
  <2>1. Append(items, x) \in Seq(Texts)  BY <1>3, AppendProperties
  <2>. QED  BY <1>3, <2>1
<1>. QED  BY <1>8, <1>9, <1>10, <1>11

LEMMA ItemSpelled ==
  ASSUME NEW n \in Nat \ {0}, NEW fs, NEW text, Spelled(fs, n, text, TRUE),
         NEW x \in Texts,
         NEW g, \A d \in 1 .. n : d # n => g[d] = fs[d],
         g[n].arr = fs[n].arr, g[n].items = Append(fs[n].items, x)
  PROVE  Spelled(g, n, text \o x, FALSE)
<1>1. PICK before :
        Around(fs, n, before) /\ text = before[n] \o (Begun(fs[n]) \o Due(TRUE, fs[n]))
  BY DEF Spelled
<1>2. n \in 1 .. n  OBVIOUS
<1>3. before[n] \in Texts /\ fs[n].items \in Seq(Texts)  BY <1>1, <1>2 DEF Around
<1>4. g[n].items \in Seq(Texts) /\ Begun(g[n]) = (Begun(fs[n]) \o NextSeparator(fs[n])) \o x
  BY <1>3, ItemBegun
<1>5. Around(g, n, before)
  <2>1. \A d \in 1 .. n : before[d] \in Texts /\ g[d].items \in Seq(Texts)
    <3>1. TAKE d \in 1 .. n
    <3>2. CASE d = n  BY <1>3, <1>4, <3>2
    <3>3. CASE d # n  BY <1>1, <3>3 DEF Around
    <3>. QED  BY <3>2, <3>3
  <2>2. \A d \in 1 .. n - 1 : before[d + 1] = before[d] \o (Begun(g[d]) \o NextSeparator(g[d]))
    <3>1. TAKE d \in 1 .. n - 1
    <3>2. d \in 1 .. n /\ d # n  OBVIOUS
    <3>3. g[d] = fs[d]  BY <3>2
    <3>. QED  BY <1>1, <3>3 DEF Around
  <2>. QED  BY <1>1, <2>1, <2>2 DEF Around
<1>6. text \o x = before[n] \o (Begun(g[n]) \o Due(FALSE, g[n]))
  <2>1. PICK b, c : b = before[n] /\ c = Begun(fs[n]) \o NextSeparator(fs[n])  OBVIOUS
  <2>2. b \in Texts /\ c \in Texts
    <3>1. Begun(fs[n]) \in Texts /\ NextSeparator(fs[n]) \in Texts  BY <1>3, BegunType
    <3>. QED  BY <1>3, <2>1, <3>1, TextConcat
  <2>3. text = b \o c  BY <1>1, <2>1 DEF Due
  <2>4. (b \o c) \o x = b \o (c \o x)  BY <2>2, TextAssociative
  <2>5. Begun(g[n]) \in Texts /\ Due(FALSE, g[n]) = <<>>  BY <1>4, BegunType DEF Due
  <2>6. Begun(g[n]) \o <<>> = Begun(g[n])  BY <2>5, TextConcat
  <2>. QED  BY <1>4, <2>1, <2>3, <2>4, <2>5, <2>6
<1>. QED  BY <1>5, <1>6 DEF Spelled

\* A separator is read.
LEMMA SeparatorSpelled ==
  ASSUME NEW n \in Nat \ {0}, NEW fs, NEW text, Spelled(fs, n, text, FALSE),
         NEW t \in AllTokens, NextSeparator(fs[n]) = <<t>>
  PROVE  Spelled(fs, n, Append(text, t), TRUE)
<1>1. PICK before :
        Around(fs, n, before) /\ text = before[n] \o (Begun(fs[n]) \o Due(FALSE, fs[n]))
  BY DEF Spelled
<1>2. n \in 1 .. n  OBVIOUS
<1>3. before[n] \in Texts /\ fs[n].items \in Seq(Texts)  BY <1>1, <1>2 DEF Around
<1>4. PICK b, c : b = before[n] /\ c = Begun(fs[n])  OBVIOUS
<1>5. b \in Texts /\ c \in Texts  BY <1>3, <1>4, BegunType
<1>6. text = b \o c
  <2>1. c \o <<>> = c  BY <1>5, TextConcat
  <2>. QED  BY <1>1, <1>4, <2>1 DEF Due
<1>7. Append(b \o c, t) = b \o (c \o <<t>>)
  <2>1. Append(c, t) = c \o <<t>>  BY <1>5, TextAppend
  <2>. QED  BY <1>5, <2>1, TextAppendConcat
<1>8. Append(text, t) = before[n] \o (Begun(fs[n]) \o Due(TRUE, fs[n]))
  BY <1>4, <1>6, <1>7 DEF Due
<1>. QED  BY <1>1, <1>8 DEF Spelled

\* The innermost container is closed: it is the next item of the one around.
LEMMA CloseSpelled ==
  ASSUME NEW n \in Nat \ {0}, NEW fs, NEW text, NEW p, Spelled(fs, n + 1, text, p),
         p => fs[n + 1].items = <<>>, NEW close \in AllTokens,
         NEW g, \A d \in 1 .. n : d # n => g[d] = fs[d],
         g[n].arr = fs[n].arr,
         g[n].items = Append(fs[n].items, Append(Begun(fs[n + 1]), close))
  PROVE  Spelled(g, n, Append(text, close), FALSE)
<1>1. PICK before :
        /\ Around(fs, n + 1, before)
        /\ text = before[n + 1] \o (Begun(fs[n + 1]) \o Due(p, fs[n + 1]))
  BY DEF Spelled
<1>2. n \in 1 .. (n + 1) - 1 /\ n + 1 \in 1 .. n + 1  OBVIOUS
<1>3. Spelled(fs, n, before[n + 1], TRUE)
  <2>1. Around(fs, n, before)
    <3>1. \A d \in 1 .. n : d \in 1 .. n + 1  OBVIOUS
    <3>2. \A d \in 1 .. n - 1 : d \in 1 .. (n + 1) - 1  OBVIOUS
    <3>. QED  BY <1>1, <3>1, <3>2 DEF Around
  <2>2. before[n + 1] = before[n] \o (Begun(fs[n]) \o Due(TRUE, fs[n]))
    BY <1>1, <1>2 DEF Around, Due
  <2>. QED  BY <2>1, <2>2 DEF Spelled
<1>4. PICK b, c : b = before[n + 1] /\ c = Begun(fs[n + 1])  OBVIOUS
<1>5. b \in Texts /\ c \in Texts
  <2>1. fs[n + 1].items \in Seq(Texts) /\ before[n + 1] \in Texts  BY <1>1, <1>2 DEF Around
  <2>. QED  BY <1>4, <2>1, BegunType
<1>6. text = b \o c
  <2>1. Begun(fs[n + 1]) \o Due(p, fs[n + 1]) = c
    <3>1. CASE p  BY <1>4, <3>1, EmptyFrame
    <3>2. CASE ~p
      <4>1. c \o <<>> = c  BY <1>5, TextConcat
      <4>. QED  BY <1>4, <3>2, <4>1 DEF Due
    <3>. QED  BY <3>1, <3>2
  <2>. QED  BY <1>1, <1>4, <2>1
<1>7. Append(text, close) = b \o Append(c, close) /\ Append(c, close) \in Texts
  BY <1>5, <1>6, TextAppendConcat, TextAppend
<1>8. Spelled(g, n, b \o Append(c, close), FALSE)
  <2>1. Spelled(fs, n, b, TRUE) /\ Append(c, close) \in Texts  BY <1>3, <1>4, <1>7
  <2>2. g[n].items = Append(fs[n].items, Append(c, close))  BY <1>4
  <2>. QED  BY <2>1, <2>2, ItemSpelled
<1>. QED  BY <1>7, <1>8

\* The root container is closed.
LEMMA WholeSpelled ==
  ASSUME NEW fs, NEW text, NEW p, Spelled(fs, 1, text, p), p => fs[1].items = <<>>
  PROVE  text = Begun(fs[1])
<1>1. PICK before :
        Around(fs, 1, before) /\ text = before[1] \o (Begun(fs[1]) \o Due(p, fs[1]))
  BY DEF Spelled
<1>2. before[1] = <<>> /\ fs[1].items \in Seq(Texts)
  <2>1. 1 \in 1 .. 1  OBVIOUS
  <2>. QED  BY <1>1, <2>1 DEF Around
<1>3. Begun(fs[1]) \in Texts  BY <1>2, BegunType
<1>4. Begun(fs[1]) \o Due(p, fs[1]) = Begun(fs[1])
  <2>1. CASE p  BY <2>1, EmptyFrame
  <2>2. CASE ~p
    <3>1. Begun(fs[1]) \o <<>> = Begun(fs[1])  BY <1>3, TextConcat
    <3>. QED  BY <2>2, <3>1 DEF Due
  <2>. QED  BY <2>1, <2>2
<1>5. <<>> \o Begun(fs[1]) = Begun(fs[1])  BY <1>3, TextConcat
<1>. QED  BY <1>1, <1>2, <1>4, <1>5

-----------------------------------------------------------------------------
(* The text of the result.                                                 *)

Inside == {"arr_val_begin", "arr_val_end", "obj_key_begin", "obj_key_end", "obj_val_begin",
           "obj_val_end"}
Awaiting == {"arr_val_begin", "obj_key_begin", "obj_val_begin"}

\* What was read is what the objects the call holds spell.
InputSpelled ==
  /\ pc \in {"init", "reserve", "root"} => input = <<>>
  /\ pc \in Inside => Spelled(FramesOf("text"), Depth, input, pc \in Awaiting)
  /\ pc = "doc_end" => input = Text[stack[1]]
  /\ pc = "success" => input = Append(Text[stack[1]], "eof")
  /\ pc = "returned" /\ result # 0 => input = Append(Text[result], "eof")

\* Inductive with IInv, OwnInv and TreeInv.
SpellInv == IF oom THEN err # "none" ELSE InputSpelled

LEMMA FailedSpells == ASSUME pc' \in {"failed_cleanup", "nan_retry"} PROVE InputSpelled'
  BY DEF InputSpelled, Inside

\* The frames g are fs with x behind the items of the n-th.
GrownAt(g, fs, n, x) ==
  /\ \A d \in 1 .. n : d # n => g[d] = fs[d]
  /\ g[n].arr = fs[n].arr /\ g[n].items = Append(fs[n].items, x)

LEMMA ItemAddedFields ==
  ASSUME NEW n \in Nat \ {0}, NEW fs, NEW v PROVE GrownAt(ItemAdded(fs, n, v), fs, n, v)
<1>1. PICK g : g = ItemAdded(fs, n, v)  OBVIOUS
<1>2. n \in 1 .. n  OBVIOUS
<1>. DEFINE e == [arr |-> fs[n].arr, items |-> Append(fs[n].items, v)]
<1>3. e.arr = fs[n].arr /\ e.items = Append(fs[n].items, v)  OBVIOUS
<1>. HIDE DEF e
<1>4. g = [d \in 1 .. n |-> IF d = n THEN e ELSE fs[d]]  BY <1>1, Zenon DEF ItemAdded, e
<1>5. g[n] = e /\ \A d \in 1 .. n : d # n => g[d] = fs[d]  BY <1>2, <1>4
<1>. QED  BY <1>1, <1>3, <1>5 DEF GrownAt

\* fs are the frames of texts, and the n-th is the innermost.
InnerText(fs, n) ==
  /\ fs = FramesOf("text") /\ n = Depth /\ n \in 1 .. n
  /\ fs = [d \in 1 .. n |-> fs[d]]
  /\ \A d \in 1 .. n : /\ fs[d] = [arr |-> fs[d].arr, items |-> fs[d].items]
                       /\ fs[d].arr = ctn[d].arr
  /\ Len(fs[n].items) = Held(Depth)

LEMMA TextFrames ==
  ASSUME IInv, Parsing, Depth > 0 PROVE \E fs : \E n \in Nat \ {0} : InnerText(fs, n)
<1>1. PICK n \in Nat : n = Depth /\ n \in 1 .. n /\ n # 0
  <2>1. Depth \in Nat  BY AccountsTypes
  <2>2. PICK n \in Nat : n = Depth  BY <2>1
  <2>3. n # 0 /\ n \in 1 .. n  BY <2>2
  <2>. QED  BY <2>2, <2>3
<1>2. PICK fs : fs = FramesOf("text")  OBVIOUS
<1>3. /\ fs = [d \in 1 .. n |-> fs[d]]
      /\ \A d \in 1 .. n : /\ fs[d] = FrameOf("text", d)
                           /\ fs[d] = [arr |-> fs[d].arr, items |-> fs[d].items]
                           /\ fs[d].arr = ctn[d].arr
  BY <1>1, <1>2, FramesLen
<1>4. Len(fs[n].items) = Held(Depth)
  <2>1. /\ base[n] \in Nat /\ Above(n) \in Nat /\ base[n] <= Above(n)
    BY <1>1, BasesFit
  <2>2. Above(n) = base[n] + Held(n)  BY <1>1 DEF IInv, StackAccounting
  <2>3. PICK k \in Nat : k = Above(n) - base[n]  BY <2>1
  <2>4. PICK items : items = fs[n].items  OBVIOUS
  <2>5. items = fs[n].items /\ k = Above(n) - base[n]  BY <2>3, <2>4
  <2>6. items = [i \in 1 .. k |-> Text[stack[base[n] + i]]]
    BY <1>1, <1>3, <2>5 DEF FrameOf, Slots, Meaning
  <2>7. items = [i \in 1 .. k |-> items[i]]  BY <2>6
  <2>8. Len(items) = k  BY <2>7, FunctionLen
  <2>9. Held(n) = k
    <3>1. Held(n) \in Nat
      <4>1. n \in 1 .. Depth /\ ctn[n].arr \in BOOLEAN /\ ctn[n].len \in Nat
        BY <1>1, AccountsTypes
      <4>2. Width(ctn[n].arr, ctn[n].len) \in Nat  BY <4>1 DEF Width
      <4>. QED  BY <4>2 DEF Held
    <3>. QED  BY <2>1, <2>2, <2>5, <3>1
  <2>. QED  BY <1>1, <2>5, <2>8, <2>9
<1>. QED  BY <1>1, <1>2, <1>3, <1>4 DEF InnerText

LEMMA OpenSpells ==
  ASSUME IInv, InputSpelled, pc \in {"root", "arr_val_begin", "obj_val_begin"}, NEW t,
         t \in {"lbrack", "lbrace"}, Read(t), PushContainer(t)
  PROVE  InputSpelled'
<1>1. PICK n \in Nat : n = Depth  BY AccountsTypes
<1>2. PICK fs, g : fs = FramesOf("text") /\ g = FramesOf("text")'  OBVIOUS
<1>3. PICK e : \E b \in BOOLEAN : e = [arr |-> b, items |-> <<>>] /\ b = (t = "lbrack")
  OBVIOUS
<1>4. PICK arr \in BOOLEAN : e = [arr |-> arr, items |-> <<>>] /\ arr = (t = "lbrack")
  BY <1>3
<1>5. t = IF arr THEN "lbrack" ELSE "lbrace"  BY <1>4
<1>6. g = Append(fs, e)
  <2>1. FramesOf("text")' = Append(FramesOf("text"), [arr |-> t = "lbrack", items |-> <<>>])
    BY OpenedFrames DEF Parsing
  <2>. QED  BY <1>2, <1>4, <2>1
<1>7. g[n + 1] = e /\ \A d \in 1 .. n : g[d] = fs[d]
  <2>1. fs = [d \in 1 .. n |-> fs[d]]  BY <1>1, <1>2, FramesLen
  <2>2. g = [d \in 1 .. n + 1 |-> IF d = n + 1 THEN e ELSE fs[d]]
    BY <1>6, <2>1, FunctionAppend
  <2>3. n + 1 \in 1 .. n + 1 /\ \A d \in 1 .. n : d \in 1 .. n + 1 /\ d # n + 1  OBVIOUS
  <2>. QED  BY <2>2, <2>3
<1>8. Depth' = n + 1
  <2>1. ctn \in Seq(Ctn)  BY DEF IInv, TypeOK, Ctn
  <2>. DEFINE c == [arr |-> t = "lbrack", len |-> 0]
  <2>2. c \in Ctn /\ ctn' = Append(ctn, c)  BY DEF Ctn, PushContainer
  <2>. HIDE DEF c
  <2>. QED  BY <1>1, <2>1, <2>2, AppendProperties DEF Depth
<1>9. \A p : Spelled(g, n + 1, input', p)
  <2>1. TAKE p
  <2>2. CASE pc = "root"
    <3>1. n = 0 /\ input = <<>>  BY <1>1, <2>2 DEF IInv, LabelFitsContainer, InputSpelled
    <3>2. input' = <<t>>  BY <3>1 DEF Read
    <3>3. g[1] = [arr |-> arr, items |-> <<>>]  BY <1>4, <1>7, <3>1
    <3>4. Spelled(g, 1, <<IF arr THEN "lbrack" ELSE "lbrace">>, p)  BY <3>3, RootSpelled
    <3>5. n + 1 = 1  BY <3>1
    <3>. QED  BY <1>5, <3>2, <3>4, <3>5
  <2>3. CASE pc # "root"
    <3>1. n \in Nat \ {0}  BY <1>1, <2>3 DEF IInv, LabelFitsContainer
    <3>2. Spelled(fs, n, input, TRUE)
      BY <1>1, <1>2, <2>3 DEF InputSpelled, Inside, Awaiting
    <3>3. g[n + 1] = [arr |-> arr, items |-> <<>>]  BY <1>4, <1>7
    <3>4. Spelled(g, n + 1, Append(input, IF arr THEN "lbrack" ELSE "lbrace"), p)
      BY <1>7, <3>1, <3>2, <3>3, OpenSpelled
    <3>. QED  BY <1>5, <3>4 DEF Read
  <2>. QED  BY <2>2, <2>3
<1>10. pc' \in {"arr_val_begin", "obj_key_begin"}  BY DEF PushContainer
<1>11. Spelled(FramesOf("text")', Depth', input', pc' \in Awaiting)  BY <1>2, <1>8, <1>9
<1>. QED  BY <1>10, <1>11 DEF InputSpelled

\* A scalar or a key is read.
LEMMA LeafSpells ==
  ASSUME IInv, InputSpelled, pc \in Awaiting, Depth > 0, NEW t \in AllTokens, Read(t),
         FramesOf("text")' = Doc!Extended(FramesOf("text"), <<t>>),
         Len(ctn') = Len(ctn), pc' \in Inside, pc' \notin Awaiting
  PROVE  InputSpelled'
<1>1. Parsing  BY DEF Parsing, Awaiting
<1>2. PICK fs : \E m \in Nat \ {0} : InnerText(fs, m)  BY <1>1, TextFrames
<1>3. PICK n \in Nat \ {0} : InnerText(fs, n)  BY <1>2
<1>4. /\ fs = FramesOf("text") /\ n = Depth /\ n \in 1 .. n
      /\ fs = [d \in 1 .. n |-> fs[d]]
      /\ \A d \in 1 .. n : /\ fs[d] = [arr |-> fs[d].arr, items |-> fs[d].items]
                           /\ fs[d].arr = ctn[d].arr
  BY <1>3 DEF InnerText
<1>5. PICK g, x : g = FramesOf("text")' /\ x = <<t>>  OBVIOUS
<1>6. g = ItemAdded(fs, n, x)
  <2>1. Doc!Extended(fs, x) = ItemAdded(fs, n, x)  BY <1>4, ExtendedIs
  <2>. QED  BY <1>4, <1>5, <2>1
<1>7. /\ \A d \in 1 .. n : d # n => g[d] = fs[d]
      /\ g[n].arr = fs[n].arr /\ g[n].items = Append(fs[n].items, x)
  <2>1. GrownAt(g, fs, n, x)
    <3>1. GrownAt(ItemAdded(fs, n, x), fs, n, x)  BY <1>4, ItemAddedFields
    <3>. QED  BY <1>6, <3>1
  <2>. QED  BY <2>1 DEF GrownAt
<1>8. Spelled(fs, n, input, TRUE)
  <2>1. pc \in Inside  BY DEF Inside, Awaiting
  <2>. QED  BY <1>4, <2>1 DEF InputSpelled
<1>9. input \in Texts  BY <1>8, SpelledType
<1>10. x \in Texts /\ input' = input \o x
  <2>1. <<t>> \in Texts /\ Append(input, t) = input \o <<t>>  BY <1>9, TextAppend
  <2>. QED  BY <1>5, <2>1 DEF Read
<1>11. Spelled(g, n, input \o x, FALSE)  BY <1>7, <1>8, <1>10, ItemSpelled
<1>12. Depth' = n  BY <1>4 DEF Depth
<1>13. Spelled(FramesOf("text")', Depth', input', pc' \in Awaiting)
  <2>1. (pc' \in Awaiting) = FALSE  OBVIOUS
  <2>2. Spelled(g, n, input', pc' \in Awaiting)  BY <1>10, <1>11, <2>1
  <2>. QED  BY <1>5, <1>12, <2>2
<1>. QED  BY <1>13 DEF InputSpelled, Inside

LEMMA ValueSpells ==
  ASSUME IInv, OwnInv, TreeInv, InputSpelled, ~oom', pc \in {"arr_val_begin", "obj_val_begin"},
         NEW t, Read(t), ReadValue(t)
  PROVE  InputSpelled'
<1>1. /\ Pushed(stack, FreshRef) /\ NewRef(t, <<>>) /\ Counted /\ t \in ValueTokens
  BY DEF ReadValue, OutOfMemory
<1>2. Depth > 0 /\ Depth \in Nat /\ ctn \in Seq(Ctn) /\ Depth = Len(ctn)
  BY AccountsTypes DEF IInv, LabelFitsContainer, TypeOK, Ctn, Depth
<1>3. /\ ctn' = Incremented(ctn) /\ pc' = ValueEnd(ctn) /\ base' = base
      /\ stack' = Append(stack, FreshRef)
  BY <1>1 DEF Counted, Pushed
<1>4. Len(ctn') = Len(ctn) /\ \A d \in 1 .. Depth : ctn'[d].arr = ctn[d].arr
  BY <1>2, <1>3, IncrementedProperties
<1>5. FramesOf("text")' = Doc!Extended(FramesOf("text"), <<t>>)
  <2>1. Parsing  BY DEF Parsing
  <2>2. FramesOf("text")' = Doc!Extended(FramesOf("text"), Leaf("text", t))
    BY <1>1, <1>2, <1>3, <1>4, <2>1, LeafFrames
  <2>3. Leaf("text", t) = <<t>>  BY <1>1 DEF Leaf, ValueTokens
  <2>. QED  BY <2>2, <2>3
<1>6. pc' \in Inside /\ pc' \notin Awaiting
  BY <1>2, <1>3, ValueEndLabel DEF Inside, Awaiting
<1>7. t \in AllTokens /\ pc \in Awaiting  BY <1>1 DEF AllTokens, Awaiting
<1>. QED  BY <1>2, <1>4, <1>5, <1>6, <1>7, LeafSpells

LEMMA KeySpells ==
  ASSUME IInv, OwnInv, TreeInv, InputSpelled, ~oom', pc = "obj_key_begin", Read("str"), ReadKey
  PROVE  InputSpelled'
<1>1. /\ Pushed(stack, FreshRef) /\ NewRef("key", <<>>) /\ pc' = "obj_key_end"
      /\ ctn' = ctn /\ base' = base
  BY DEF ReadKey, OutOfMemory, containers
<1>2. Depth > 0 /\ Parsing  BY DEF IInv, LabelFitsContainer, Parsing
<1>3. FramesOf("text")' = Doc!Extended(FramesOf("text"), <<"str">>)
  <2>1. stack' = Append(stack, FreshRef)  BY <1>1 DEF Pushed
  <2>2. FramesOf("text")' = Doc!Extended(FramesOf("text"), Leaf("text", "key"))
    BY <1>1, <1>2, <2>1, LeafFrames
  <2>. QED  BY <2>2 DEF Leaf
<1>4. pc' \in Inside /\ pc' \notin Awaiting  BY <1>1 DEF Inside, Awaiting
<1>5. "str" \in AllTokens /\ pc \in Awaiting  BY DEF AllTokens, ValueTokens, Awaiting
<1>. QED  BY <1>1, <1>2, <1>3, <1>4, <1>5, LeafSpells

\* What stands before the items of an object.
LEMMA KeySeparator ==
  ASSUME NEW len \in Nat, len > 0, NEW k, k = 2 * len + 1, NEW kind
  PROVE  Separator(kind, k) = <<"comma">>
<1>1. k # 1 /\ k % 2 # 0  OBVIOUS
<1>. QED  BY <1>1, Zenon DEF Separator

LEMMA ValueSeparator ==
  ASSUME NEW len \in Nat, NEW k, k = 2 * len + 2
  PROVE  Separator("dict", k) = <<"colon">>
<1>1. k # 1 /\ k % 2 = 0  OBVIOUS
<1>. QED  BY <1>1, Zenon DEF Separator

LEMMA SeparatorSpells ==
  ASSUME IInv, TreeInv, InputSpelled, NEW t, NEW label, Read(t), Goto(label),
         \/ pc = "arr_val_end" /\ t = "comma" /\ label = "arr_val_begin"
         \/ pc = "obj_val_end" /\ t = "comma" /\ label = "obj_key_begin"
         \/ pc = "obj_key_end" /\ t = "colon" /\ label = "obj_val_begin"
  PROVE  InputSpelled'
<1>1. Parsing /\ Depth > 0  BY DEF Parsing, IInv, LabelFitsContainer
<1>2. PICK fs : \E m \in Nat \ {0} : InnerText(fs, m)  BY <1>1, TextFrames
<1>3. PICK n \in Nat \ {0} : InnerText(fs, n)  BY <1>2
<1>4. /\ fs = FramesOf("text") /\ n = Depth /\ n \in 1 .. n
      /\ \A d \in 1 .. n : fs[d].arr = ctn[d].arr
      /\ Len(fs[n].items) = Held(Depth)
  BY <1>3 DEF InnerText
<1>5. NextSeparator(fs[n]) = <<t>>
  <2>1. fs[n].arr = Top.arr  BY <1>4 DEF Top
  <2>2. PICK len \in Nat : len = Top.len  BY <1>1, TopLen
  <2>3. Held(Depth) = Width(Top.arr, len) + IF pc = "obj_key_end" THEN 1 ELSE 0
    BY <2>2 DEF Held, KeyPending, NanPending, Top
  <2>4. CASE pc = "arr_val_end"
    <3>1. Top.arr /\ len > 0  BY <2>2, <2>4 DEF IInv, LabelFitsContainer, TreeInv
    <3>2. Len(fs[n].items) + 1 # 1
      <4>1. Width(Top.arr, len) = len  BY <3>1 DEF Width
      <4>2. Len(fs[n].items) = len  BY <1>4, <2>3, <2>4, <4>1
      <4>. QED  BY <3>1, <4>2
    <3>3. Kind(fs[n]) = "list"  BY <2>1, <3>1 DEF Kind
    <3>. QED  BY <2>4, <3>2, <3>3 DEF NextSeparator, Separator
  <2>5. CASE pc = "obj_val_end"
    <3>1. ~Top.arr /\ len > 0  BY <2>2, <2>5 DEF IInv, LabelFitsContainer, TreeInv
    <3>2. PICK k \in Nat : k = Len(fs[n].items) + 1 /\ k = 2 * len + 1
      <4>1. Width(Top.arr, len) = 2 * len  BY <3>1 DEF Width
      <4>2. Len(fs[n].items) = 2 * len + 0  BY <1>4, <2>3, <2>5, <4>1
      <4>. QED  BY <4>2
    <3>3. Separator(Kind(fs[n]), k) = <<"comma">>  BY <3>1, <3>2, KeySeparator
    <3>. QED  BY <2>5, <3>2, <3>3 DEF NextSeparator
  <2>6. CASE pc = "obj_key_end"
    <3>1. ~Top.arr  BY <2>6 DEF IInv, LabelFitsContainer
    <3>2. PICK k \in Nat : k = Len(fs[n].items) + 1 /\ k = 2 * len + 2
      <4>1. Width(Top.arr, len) = 2 * len  BY <3>1 DEF Width
      <4>2. Len(fs[n].items) = 2 * len + 1  BY <1>4, <2>3, <2>6, <4>1
      <4>. QED  BY <4>2
    <3>3. Separator("dict", k) = <<"colon">>  BY <3>2, ValueSeparator
    <3>4. Kind(fs[n]) = "dict"  BY <2>1, <3>1 DEF Kind
    <3>. QED  BY <2>6, <3>2, <3>3, <3>4 DEF NextSeparator
  <2>. QED  BY <2>4, <2>5, <2>6
<1>6. Spelled(fs, n, input, FALSE)
  <2>1. pc \in Inside /\ (pc \in Awaiting) = FALSE  BY DEF Inside, Awaiting
  <2>. QED  BY <1>4, <2>1 DEF InputSpelled
<1>7. Spelled(fs, n, Append(input, t), TRUE)
  <2>1. t \in AllTokens  BY DEF AllTokens
  <2>. QED  BY <1>5, <1>6, <2>1, SeparatorSpelled
<1>8. FramesOf("text")' = fs /\ Depth' = n /\ input' = Append(input, t) /\ pc' = label
  BY <1>4, SameFrames DEF Goto, store, objects, containers, Depth, Read
<1>9. pc' \in Inside /\ (pc' \in Awaiting) = TRUE  BY <1>8 DEF Inside, Awaiting
<1>10. Spelled(FramesOf("text")', Depth', input', pc' \in Awaiting)
  BY <1>7, <1>8, <1>9
<1>. QED  BY <1>9, <1>10 DEF InputSpelled, Inside

LEMMA CloseSpells ==
  ASSUME IInv, OwnInv, TreeInv, InputSpelled, ~oom', NEW t, Read(t),
         NEW kind \in {"list", "dict"}, BuildContainer(kind),
         \/ pc = "arr_val_begin" /\ Top.len = 0 /\ t = "rbrack" /\ kind = "list"
         \/ pc = "arr_val_end" /\ t = "rbrack" /\ kind = "list"
         \/ pc = "obj_key_begin" /\ Top.len = 0 /\ t = "rbrace" /\ kind = "dict"
         \/ pc = "obj_val_end" /\ t = "rbrace" /\ kind = "dict"
  PROVE  InputSpelled'
<1>1. /\ NewRef(kind, Popped) /\ Pushed(Kept, FreshRef) /\ PopContainer
      /\ input' = Append(input, t)
  BY DEF BuildContainer, OutOfMemory, Read
<1>2. pc \in Looking /\ Depth > 0 /\ Top.arr = (kind = "list") /\ Parsing
  BY AccountsTypes DEF IInv, LabelFitsContainer, Looking, Top, Parsing
<1>3. PICK w : w = "text" /\ w \in {"tree", "text"}  OBVIOUS
<1>4. PICK fs : \E m \in Nat \ {0} : InnerText(fs, m)  BY <1>2, TextFrames
<1>5. PICK n \in Nat \ {0} : InnerText(fs, n)  BY <1>4
<1>6. /\ fs = FramesOf("text") /\ n = Depth /\ n \in 1 .. n
      /\ fs = [d \in 1 .. n |-> fs[d]]
      /\ \A d \in 1 .. n : /\ fs[d] = [arr |-> fs[d].arr, items |-> fs[d].items]
                           /\ fs[d].arr = ctn[d].arr
      /\ Len(fs[n].items) = Held(Depth)
  BY <1>5 DEF InnerText
<1>7. PICK p : p = (pc \in Awaiting)  OBVIOUS
<1>8. Spelled(fs, n, input, p)
  <2>1. pc \in Inside  BY DEF Inside
  <2>. QED  BY <1>6, <1>7, <2>1 DEF InputSpelled
<1>9. p => fs[n].items = <<>>
  <2>1. SUFFICES ASSUME pc \in Awaiting PROVE fs[n].items = <<>>  BY <1>7
  <2>2. Top.len = 0 /\ pc \in {"arr_val_begin", "obj_key_begin"}  BY <2>1 DEF Awaiting
  <2>3. Width(Top.arr, Top.len) = 0  BY <2>2 DEF Width
  <2>4. Held(Depth) = 0  BY <2>2, <2>3 DEF Held, KeyPending, NanPending, Top
  <2>5. fs[n].items \in Seq(Texts)  BY <1>8, SpelledType
  <2>. QED  BY <1>6, <2>4, <2>5, EmptySeq
<1>10. t \in AllTokens /\ t = IF kind = "list" THEN "rbrack" ELSE "rbrace"
  BY DEF AllTokens
<1>11. Whole(w, kind, fs[n].items) = Append(Begun(fs[n]), t)
  <2>1. Kind(fs[n]) = kind  BY <1>2, <1>6 DEF Kind, Top
  <2>2. Whole(w, kind, fs[n].items)
          = Append(Unclosed(kind, fs[n].items), IF kind = "list" THEN "rbrack" ELSE "rbrace")
    BY <1>3, Zenon DEF Whole
  <2>. QED  BY <1>10, <2>1, <2>2, Zenon DEF Begun
<1>12. /\ heap'[FreshRef].kind = kind
       /\ Text'[FreshRef] = Append(Begun(fs[n]), t)
  <2>1. Meaning(w)'[FreshRef] = Whole(w, kind, FramesOf(w)[Depth].items)
    BY <1>1, <1>2, <1>3, BuiltMeans
  <2>2. Meaning(w)' = Text'  BY <1>3 DEF Meaning
  <2>3. heap'[FreshRef].kind = kind  BY <1>1, <1>2, <1>3, BuiltMeans
  <2>. QED  BY <1>3, <1>6, <1>11, <2>1, <2>2, <2>3, Zenon
<1>13. /\ Depth = 1 => stack'[1] = FreshRef
       /\ Depth > 1 =>
            /\ FramesOf(w)' = Doc!Extended(SubSeq(FramesOf(w), 1, Depth - 1),
                                           Whole(w, kind, FramesOf(w)[Depth].items))
            /\ pc' \in {"arr_val_end", "obj_val_end"}
  BY <1>1, <1>2, <1>3, FramesClosed
<1>14. CASE n = 1
  <2>1. pc' = "doc_end"  BY <1>1, <1>6, <1>14 DEF PopContainer
  <2>2. stack'[1] = FreshRef  BY <1>6, <1>13, <1>14
  <2>3. input = Begun(fs[1])
    <3>1. Spelled(fs, 1, input, p) /\ (p => fs[1].items = <<>>)  BY <1>8, <1>9, <1>14
    <3>. QED  BY <3>1, WholeSpelled
  <2>4. Text'[FreshRef] = Append(input, t)  BY <1>12, <1>14, <2>3
  <2>5. input' = Text'[stack'[1]]  BY <1>1, <2>2, <2>4
  <2>. QED  BY <2>1, <2>5 DEF InputSpelled, Inside
<1>15. CASE n # 1
  <2>1. PICK m \in Nat \ {0} : n = m + 1  BY <1>15
  <2>2. PICK x, g : x = Append(Begun(fs[n]), t) /\ g = FramesOf("text")'  OBVIOUS
  <2>3. g = ItemAdded(fs, m, x)
    <3>1. Depth > 1  BY <1>6, <1>15
    <3>2. g = Doc!Extended(SubSeq(fs, 1, n - 1), x)
      BY <1>3, <1>6, <1>11, <1>13, <2>2, <3>1
    <3>3. n - 1 = m /\ n > 1 /\ m \in 1 .. n  BY <2>1
    <3>4. fs[n - 1] = [arr |-> fs[n - 1].arr, items |-> fs[n - 1].items]  BY <1>6, <3>3
    <3>5. Doc!Extended(SubSeq(fs, 1, n - 1), x) = ItemAdded(fs, n - 1, x)
      BY <1>6, <3>3, <3>4, FrontExtended
    <3>. QED  BY <3>2, <3>3, <3>5
  <2>4. GrownAt(g, fs, m, x)
    <3>1. GrownAt(ItemAdded(fs, m, x), fs, m, x)  BY ItemAddedFields
    <3>. QED  BY <2>3, <3>1
  <2>5. Spelled(g, m, Append(input, t), FALSE)
    <3>1. /\ \A d \in 1 .. m : d # m => g[d] = fs[d]
          /\ g[m].arr = fs[m].arr
          /\ g[m].items = Append(fs[m].items, Append(Begun(fs[m + 1]), t))
      BY <2>1, <2>2, <2>4 DEF GrownAt
    <3>2. Spelled(fs, m + 1, input, p) /\ (p => fs[m + 1].items = <<>>)
      BY <1>8, <1>9, <2>1
    <3>. QED  BY <1>10, <3>1, <3>2, CloseSpelled
  <2>6. Depth' = m
    <3>1. ctn \in Seq(Ctn) /\ Len(ctn) = m + 1
      BY <1>6, <2>1 DEF IInv, TypeOK, Ctn, Depth
    <3>2. ctn' = Incremented(Outer(ctn))  BY <1>1, <1>6, <1>15 DEF PopContainer
    <3>3. m + 1 > 1  BY <2>1
    <3>4. Outer(ctn) \in Seq(Ctn) /\ Len(Outer(ctn)) = m
      BY <3>1, <3>3, OuterProperties
    <3>5. Len(Incremented(Outer(ctn))) = Len(Outer(ctn))
      BY <3>4, IncrementedProperties
    <3>. QED  BY <3>2, <3>4, <3>5 DEF Depth
  <2>7. pc' \in {"arr_val_end", "obj_val_end"}  BY <1>6, <1>13, <1>15
  <2>8. (pc' \in Awaiting) = FALSE  BY <2>7 DEF Awaiting
  <2>9. Spelled(FramesOf("text")', Depth', input', pc' \in Awaiting)
    <3>1. Spelled(g, m, input', pc' \in Awaiting)  BY <1>1, <2>5, <2>8
    <3>. QED  BY <2>2, <2>6, <3>1
  <2>. QED  BY <2>7, <2>9 DEF InputSpelled, Inside
<1>. QED  BY <1>14, <1>15

LEMMA DocumentSpells ==
  ASSUME InputSpelled, pc = "doc_end", Read("eof"), Goto("success") PROVE InputSpelled'
<1>1. /\ pc' = "success" /\ input' = Append(input, "eof")
      /\ stack' = stack /\ UNCHANGED <<containers, stack, heap>>
  BY DEF Goto, Read, store, objects
<1>2. Text' = Text  BY <1>1 DEF Text, References
<1>3. input = Text[stack[1]]  BY DEF InputSpelled
<1>. QED  BY <1>1, <1>2, <1>3 DEF InputSpelled, Inside

LEMMA EnterSpells ==
  ASSUME InputSpelled, InitStacks \/ ReserveStringBuffer, ~oom' PROVE InputSpelled'
<1>1. pc \in {"init", "reserve"} /\ pc' \in {"reserve", "root"} /\ input' = input
  BY DEF InitStacks, ReserveStringBuffer, OutOfMemory
<1>. QED  BY <1>1 DEF InputSpelled, Inside

LEMMA SucceedSpells == ASSUME InputSpelled, Succeed PROVE InputSpelled'
<1>1. /\ pc = "success" /\ pc' = "returned" /\ result' = stack[1]
      /\ heap' = heap /\ input' = input
  BY DEF Succeed, objects
<1>2. Text' = Text  BY <1>1 DEF Text, References
<1>. QED  BY <1>1, <1>2 DEF InputSpelled, Inside

LEMMA CleanupSpells == ASSUME FailedCleanup PROVE InputSpelled'
  BY DEF FailedCleanup, InputSpelled, Inside

LEMMA SameSpells == ASSUME InputSpelled, UNCHANGED vars PROVE InputSpelled'
<1>1. /\ pc' = pc /\ result' = result /\ input' = input /\ stack' = stack
      /\ UNCHANGED <<containers, stack, heap>>
  BY DEF vars, store, objects, call
<1>2. FramesOf("text")' = FramesOf("text")  BY <1>1, SameFrames
<1>3. Text' = Text /\ Depth' = Depth  BY <1>1 DEF Text, References, Depth, containers
<1>. QED  BY <1>1, <1>2, <1>3 DEF InputSpelled

LEMMA ErrorSpells == ASSUME SyntaxError PROVE InputSpelled'
  BY FailedSpells DEF SyntaxError, Raise

LEMMA BeginSpells ==
  ASSUME IInv, InputSpelled, pc \in {"arr_val_begin", "obj_val_begin"}, NEW t, Read(t),
         BeginContainer(t)
  PROVE  InputSpelled'
  BY OpenSpells, ErrorSpells DEF BeginContainer

LEMMA EndArrayBuilds == ASSUME ~oom', EndArray PROVE BuildContainer("list")
  BY DEF EndArray, NoContainer, OutOfMemory

LEMMA EndObjectBuilds == ASSUME ~oom', EndObject PROVE BuildContainer("dict")
  BY DEF EndObject, NoContainer, OutOfMemory

LEMMA StepSpells ==
  ASSUME IInv, OwnInv, TreeInv, InputSpelled, ~oom', NEW t \in Tokens, Step(t)
  PROVE  InputSpelled'
<1>1. CASE ReadRoot(t)  BY <1>1, OpenSpells DEF ReadRoot
<1>2. CASE ArrValBegin(t)
  <2>1. pc = "arr_val_begin" /\ Read(t)  BY <1>2 DEF ArrValBegin
  <2>2. CASE BeginContainer(t)  BY <2>1, <2>2, BeginSpells
  <2>3. CASE ReadValue(t)  BY <2>1, <2>3, ValueSpells
  <2>4. CASE t = "rbrack" /\ Top.len = 0 /\ EndArray
    BY <2>1, <2>4, CloseSpells, EndArrayBuilds
  <2>5. CASE SyntaxError  BY <2>5, ErrorSpells
  <2>. QED  BY <1>2, <2>2, <2>3, <2>4, <2>5 DEF ArrValBegin
<1>3. CASE ArrValEnd(t)
  <2>1. pc = "arr_val_end" /\ Read(t)  BY <1>3 DEF ArrValEnd
  <2>2. CASE t = "comma" /\ Goto("arr_val_begin")  BY <2>1, <2>2, SeparatorSpells
  <2>3. CASE t = "rbrack" /\ EndArray  BY <2>1, <2>3, CloseSpells, EndArrayBuilds
  <2>4. CASE SyntaxError  BY <2>4, ErrorSpells
  <2>. QED  BY <1>3, <2>2, <2>3, <2>4 DEF ArrValEnd
<1>4. CASE ObjKeyBegin(t)
  <2>1. pc = "obj_key_begin" /\ Read(t)  BY <1>4 DEF ObjKeyBegin
  <2>2. CASE t = "str" /\ ReadKey  BY <2>1, <2>2, KeySpells
  <2>3. CASE t = "rbrace" /\ Top.len = 0 /\ EndObject
    BY <2>1, <2>3, CloseSpells, EndObjectBuilds
  <2>4. CASE SyntaxError  BY <2>4, ErrorSpells
  <2>. QED  BY <1>4, <2>2, <2>3, <2>4 DEF ObjKeyBegin
<1>5. CASE ObjKeyEnd(t)  BY <1>5, SeparatorSpells, ErrorSpells DEF ObjKeyEnd
<1>6. CASE ObjValBegin(t)
  <2>1. pc = "obj_val_begin" /\ Read(t)  BY <1>6 DEF ObjValBegin
  <2>2. CASE BeginContainer(t)  BY <2>1, <2>2, BeginSpells
  <2>3. CASE ReadValue(t)  BY <2>1, <2>3, ValueSpells
  <2>4. CASE SyntaxError  BY <2>4, ErrorSpells
  <2>. QED  BY <1>6, <2>2, <2>3, <2>4 DEF ObjValBegin
<1>7. CASE ObjValEnd(t)
  <2>1. pc = "obj_val_end" /\ Read(t)  BY <1>7 DEF ObjValEnd
  <2>2. CASE t = "comma" /\ Goto("obj_key_begin")  BY <2>1, <2>2, SeparatorSpells
  <2>3. CASE t = "rbrace" /\ EndObject  BY <2>1, <2>3, CloseSpells, EndObjectBuilds
  <2>4. CASE SyntaxError  BY <2>4, ErrorSpells
  <2>. QED  BY <1>7, <2>2, <2>3, <2>4 DEF ObjValEnd
<1>8. CASE DocEnd(t)  BY <1>8, DocumentSpells, ErrorSpells DEF DocEnd
<1>. QED  BY <1>1, <1>2, <1>3, <1>4, <1>5, <1>6, <1>7, <1>8 DEF Step

\* Running out of memory sets an exception, and no step takes it back.
LEMMA ErrorStays ==
  ASSUME IInv, SpellInv, [Next]_vars, oom' PROVE err' # "none"
<1>1. oom => err # "none"  BY DEF SpellInv
<1>2. CASE Move  BY <1>1, <1>2 DEF Move, Excepted
<1>3. CASE \E t \in Tokens : Step(t)  BY <1>2, <1>3, StepMoves
<1>4. CASE RetryAsNan  BY <1>2, <1>4, RetryMoves
<1>5. CASE InitStacks \/ ReserveStringBuffer
  BY <1>1, <1>5 DEF InitStacks, ReserveStringBuffer, OutOfMemory, Raise
<1>6. CASE Succeed \/ FailedCleanup \/ UNCHANGED vars
  BY <1>1, <1>6 DEF Succeed, FailedCleanup, vars
<1>. QED  BY <1>3, <1>4, <1>5, <1>6 DEF Next, Returned

LEMMA NextSpells ==
  ASSUME IInv, OwnInv, TreeInv, SpellInv, [Next]_vars PROVE SpellInv'
<1>1. CASE oom'
  <2>1. err' # "none"  BY <1>1, ErrorStays
  <2>. QED  BY <1>1, <2>1 DEF SpellInv
<1>2. CASE ~oom'
  <2>1. ~oom  BY <1>2, OomStays
  <2>2. InputSpelled  BY <2>1 DEF SpellInv
  <2>3. InputSpelled'
    <3>1. CASE InitStacks \/ ReserveStringBuffer  BY <1>2, <2>2, <3>1, EnterSpells
    <3>2. CASE \E t \in Tokens : Step(t)  BY <1>2, <2>2, <3>2, StepSpells
    <3>3. CASE RetryAsNan  BY <2>1, <3>3 DEF RetryAsNan, TreeInv
    <3>4. CASE Succeed  BY <2>2, <3>4, SucceedSpells
    <3>5. CASE FailedCleanup  BY <3>5, CleanupSpells
    <3>6. CASE UNCHANGED vars  BY <2>2, <3>6, SameSpells
    <3>. QED  BY <3>1, <3>2, <3>3, <3>4, <3>5, <3>6 DEF Next, Returned
  <2>. QED  BY <1>2, <2>3 DEF SpellInv
<1>. QED  BY <1>1, <1>2

LEMMA InitSpells == ASSUME Init PROVE SpellInv
  BY DEF Init, SpellInv, InputSpelled, Inside

\* An object loads() returns with no exception set is the one its text spells:
\* written back token by token, with the separators JSON wants, it is the text
\* that was read.
THEOREM ResultSpelled == Spec => []ResultSpellsInput
<1>1. Init => IInv /\ OwnInv /\ TreeInv /\ SpellInv
  BY InitInvariant, InitOwns, InitTrees, InitSpells
<1>2. IInv /\ OwnInv /\ TreeInv /\ SpellInv /\ [Next]_vars
        => (IInv /\ OwnInv /\ TreeInv /\ SpellInv)'
  BY InvariantStep, NextOwns, NextTrees, NextSpells
<1>3. SpellInv => ResultSpellsInput  BY DEF SpellInv, InputSpelled, ResultSpellsInput
<1>. QED  BY <1>1, <1>2, <1>3, PTL DEF Spec
=============================================================================
