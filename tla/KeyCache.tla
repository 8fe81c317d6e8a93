------------------------------- MODULE KeyCache -------------------------------
(***************************************************************************)
(* The keys of decoded objects: the cache of key strings that all calls of *)
(* loads() share (AssociativeKeyCache, decode.h), and the insertion of the *)
(* pairs of one object into its dict (pyyjson_decode_obj, decode.c), with  *)
(* the reference count of every key string.                                *)
(*                                                                         *)
(* A key string is a number, its place in heap.  Its text is a record: the *)
(* raw bytes (a model value), how many they are, and the kind and the      *)
(* ascii flag that say how CPython reads them.  Number 1 is the empty      *)
(* string, which the interpreter owns.  Values are compared, not counted.  *)
(***************************************************************************)
EXTENDS Naturals, Sequences, FiniteSets

CONSTANTS
  Keys,          \* the texts of keys: [bytes, size, kind, ascii]
  Empty,         \* the text of the empty key
  Values,        \* values of pairs
  Hash,          \* XXH3_64bits, by bytes
  CacheSize,     \* PYYJSON_KEY_CACHE_SIZE
  MaxCached,     \* the most bytes of a cached key
  MaxPairs,      \* bound: pairs of one object
  MaxDicts,      \* bound: dicts the program holds
  MaxHeap        \* bound: key strings ever made

ASSUME KeyAssumption ==
  /\ Empty \in Keys
  /\ \A k \in Keys : k = [bytes |-> k.bytes, size |-> k.size,
                         kind |-> k.kind, ascii |-> k.ascii]
  /\ \A k \in Keys : k.size \in Nat /\ (k.size = 0 <=> k = Empty)
  /\ \A k \in Keys : k.bytes \in DOMAIN Hash /\ Hash[k.bytes] \in Nat

ASSUME CacheAssumption ==
  /\ CacheSize \in Nat \ {0}
  /\ MaxCached \in Nat
  /\ MaxPairs \in Nat
  /\ MaxDicts \in Nat
  /\ MaxHeap \in Nat

VARIABLES
  loaded,        \* the module has not been freed
  cache,         \* AssociativeKeyCache: a key string, or 0
  heap,          \* every key string made: [text, refs]
  freed,         \* key strings deallocated
  pairs,         \* pairs of the open object on the object stack: [key, val];
                 \* val is 0 until it is read
  read,          \* history: the pairs as the text spells them
  dicts,         \* dicts the program holds: entries, a set of [key, val];
                 \* spelled, the history of what their texts say
  repeated       \* history: some object repeated a key

cacheVars == <<loaded, cache, heap, freed, pairs, read, dicts, repeated>>

Slots == 0 .. CacheSize - 1
Strings == 1 .. Len(heap)
NoValue == 0

CacheInit ==
  /\ loaded = TRUE
  /\ cache = [s \in Slots |-> 0]
  /\ heap = <<[text |-> Empty, refs |-> 1]>>
  /\ freed = {}
  /\ pairs = <<>>
  /\ read = <<>>
  /\ dicts = <<>>
  /\ repeated = FALSE

-----------------------------------------------------------------------------
(* The cache.                                                              *)

\* Where a text is looked for.
Slot(k) == Hash[k.bytes] % CacheSize

\* Mutant: the bytes are compared, their kind is not.
HitIgnoresKind(k, str) ==
  /\ heap[str].text.bytes = k.bytes
  /\ heap[str].text.size = k.size

\* get_key_cache: the cached string is the text that was read.
Hit(k, str) ==
  /\ heap[str].text.kind = k.kind
  /\ heap[str].text.ascii = k.ascii
  /\ heap[str].text.size = k.size
  /\ heap[str].text.bytes = k.bytes

\* The three readers of keys.  bytes decodes UTF-8; fast and slow decode a
\* str without and with an escape in the key, and slow never caches.
MayCache(k, path) ==
  CASE path = "bytes" -> k.size # 0 /\ k.size <= MaxCached
    [] path = "fast"  -> k.size <= MaxCached
    [] path = "slow"  -> FALSE

\* PyUnicode_New: a new string, or the one empty string once more.
NewString(k) == IF k = Empty THEN 1 ELSE Len(heap) + 1

\* The heap with n more references to str, whose text is k.
WithRefs(str, n, k) ==
  IF str \in Strings THEN [heap EXCEPT ![str].refs = @ + n]
                     ELSE Append(heap, [text |-> k, refs |-> n])

\* add_key_cache: str takes the slot of old, one reference for the cache and
\* one for the caller.
Cached(str, k, old) ==
  /\ cache' = [cache EXCEPT ![Slot(k)] = str]
  /\ heap' = IF old = 0 THEN WithRefs(str, 2, k)
                        ELSE [WithRefs(str, 2, k) EXCEPT ![old].refs = @ - 1]
  /\ freed' = freed \union (IF old # 0 /\ heap[old].refs = 1 THEN {old} ELSE {})

\* A key string for text k: the cached one, or a new one.
MakeKey(k, path, str) ==
  LET old == cache[Slot(k)]
      hit == MayCache(k, path) /\ old # 0 /\ Hit(k, old)
  IN \/ /\ hit
        /\ str = old
        /\ heap' = WithRefs(str, 1, k)
        /\ UNCHANGED <<cache, freed>>
     \/ /\ MayCache(k, path) /\ ~hit
        /\ str = NewString(k)
        /\ Cached(str, k, old)
     \/ /\ ~MayCache(k, path)
        /\ str = NewString(k)
        /\ heap' = WithRefs(str, 1, k)
        /\ UNCHANGED <<cache, freed>>

ReadKey(k, path) ==
  /\ loaded
  /\ Len(pairs) < MaxPairs
  /\ \A i \in 1 .. Len(pairs) : pairs[i].val # NoValue
  /\ \E str \in 1 .. MaxHeap :
       /\ MakeKey(k, path, str)
       /\ pairs' = Append(pairs, [key |-> str, val |-> NoValue])
  /\ read' = Append(read, [text |-> k, val |-> NoValue])
  /\ UNCHANGED <<loaded, dicts, repeated>>

ReadValue(v) ==
  /\ pairs # <<>> /\ pairs[Len(pairs)].val = NoValue
  /\ pairs' = [pairs EXCEPT ![Len(pairs)].val = v]
  /\ read' = [read EXCEPT ![Len(read)].val = v]
  /\ UNCHANGED <<loaded, cache, heap, freed, dicts, repeated>>

-----------------------------------------------------------------------------
(* The dict.  _PyDict_SetItem_KnownHash keeps the key it has and takes the *)
(* new value; otherwise it takes a reference to the new key.               *)

SameText(i, j) == heap[pairs[i].key].text = heap[pairs[j].key].text

\* Pair i repeats the key of an earlier pair.
Repeats(i) == \E j \in 1 .. i - 1 : SameText(i, j)

\* Mutant: a repeated key keeps its first value.
DictOfFirstValues(n) ==
  {[key |-> pairs[i].key, val |-> pairs[i].val] : i \in {j \in 1 .. n : ~Repeats(j)}}

\* The dict after the first n pairs.
DictOf(n) ==
  {[key |-> pairs[i].key,
    val |-> pairs[CHOOSE l \in 1 .. n : SameText(i, l) /\ \A m \in l + 1 .. n : ~SameText(i, m)].val]
     : i \in {j \in 1 .. n : ~Repeats(j)}}

\* How often string str is the key of a pair in the set ps of pairs.
Times(str, ps) == Cardinality({i \in ps : pairs[i].key = str})

\* References that the insertion of the first n pairs gives back: those of
\* repeated keys (Py_DecRef_NoCheck); a new key's goes to the dict.
Released(n) == [str \in Strings |-> Times(str, {i \in 1 .. n : Repeats(i)})]

\* The strings in h after drop[str] references of every string are given
\* back, and those that Py_DECREF finds at zero.
Dropped(h, drop) == [str \in Strings |-> [h[str] EXCEPT !.refs = @ - drop[str]]]
FreedBy(h, drop) == {str \in Strings : drop[str] > 0 /\ h[str].refs = drop[str]}

EndOfObject ==
  /\ pairs' = <<>>
  /\ read' = <<>>
  /\ repeated' = (repeated \/ \E i, j \in 1 .. Len(read) : i # j /\ read[i].text = read[j].text)
  /\ UNCHANGED <<loaded, cache>>

ObjectRead == \A i \in 1 .. Len(pairs) : pairs[i].val # NoValue

\* What the text of the object says: the last value of each key.
Spelled ==
  {[text |-> read[i].text, val |-> read[i].val] :
     i \in {j \in 1 .. Len(read) : \A l \in j + 1 .. Len(read) : read[l].text # read[j].text}}

\* pyyjson_decode_obj.  Py_DecRef_NoCheck frees nothing.
CloseObject ==
  /\ ObjectRead
  /\ heap' = Dropped(heap, Released(Len(pairs)))
  /\ Len(dicts) < MaxDicts
  /\ dicts' = Append(dicts, [entries |-> DictOf(Len(pairs)), spelled |-> Spelled])
  /\ UNCHANGED freed
  /\ EndOfObject

\* Mutant: the pairs still to be inserted are forgotten.
InsertFailsForgetsRest(n) ==
  LET left == Dropped(heap, Released(n - 1))
      drop == [str \in Strings |-> Times(str, {i \in 1 .. n - 1 : ~Repeats(i)})]
  IN /\ ObjectRead
     /\ n \in 1 .. Len(pairs)
     /\ heap' = Dropped(left, drop)
     /\ freed' = freed \union FreedBy(left, drop)
     /\ UNCHANGED dicts
     /\ EndOfObject

\* Mutant: what is left is given back as Py_DecRef_NoCheck would.
InsertFailsWithoutCheck(n) ==
  LET left == Dropped(heap, Released(n - 1))
      drop == [str \in Strings |-> Times(str, {i \in 1 .. Len(pairs) : i >= n \/ ~Repeats(i)})]
  IN /\ ObjectRead
     /\ n \in 1 .. Len(pairs)
     /\ heap' = Dropped(left, drop)
     /\ UNCHANGED <<freed, dicts>>
     /\ EndOfObject

\* The insertion of pair n fails: the dict is given back, and with it the
\* keys it took, then the pairs from n on.
InsertFails(n) ==
  LET left == Dropped(heap, Released(n - 1))
      drop == [str \in Strings |-> Times(str, {i \in 1 .. Len(pairs) : i >= n \/ ~Repeats(i)})]
  IN /\ ObjectRead
     /\ n \in 1 .. Len(pairs)
     /\ heap' = Dropped(left, drop)
     /\ freed' = freed \union FreedBy(left, drop)
     /\ UNCHANGED dicts
     /\ EndOfObject

\* The call fails before the object ends: failed_cleanup.
Abandon ==
  LET drop == [str \in Strings |-> Times(str, 1 .. Len(pairs))]
  IN /\ pairs # <<>>
     /\ heap' = Dropped(heap, drop)
     /\ freed' = freed \union FreedBy(heap, drop)
     /\ UNCHANGED dicts
     /\ EndOfObject

\* The program drops a dict it holds.
DropDict(d) ==
  LET drop == [str \in Strings |-> Cardinality({e \in dicts[d].entries : e.key = str})]
  IN /\ dicts' = SubSeq(dicts, 1, d - 1) \o SubSeq(dicts, d + 1, Len(dicts))
     /\ heap' = Dropped(heap, drop)
     /\ freed' = freed \union FreedBy(heap, drop)
     /\ UNCHANGED <<loaded, cache, pairs, read, repeated>>

\* module_free gives the cache's references back.
ModuleFree ==
  LET drop == [str \in Strings |-> Cardinality({s \in Slots : cache[s] = str})]
  IN /\ loaded
     /\ pairs = <<>>
     /\ loaded' = FALSE
     /\ heap' = Dropped(heap, drop)
     /\ freed' = freed \union FreedBy(heap, drop)
     /\ UNCHANGED <<cache, pairs, read, dicts, repeated>>

Paths == {"bytes", "fast", "slow"}

CacheNext ==
  \/ \E k \in Keys, path \in Paths : ReadKey(k, path)
  \/ \E v \in Values : ReadValue(v)
  \/ CloseObject
  \/ \E n \in 1 .. MaxPairs : InsertFails(n)
  \/ Abandon
  \/ \E d \in 1 .. Len(dicts) : DropDict(d)
  \/ ModuleFree

CacheSpec == CacheInit /\ [][CacheNext]_cacheVars

-----------------------------------------------------------------------------
(* What the readers of keys guarantee.                                     *)

\* The references to string str that somebody holds.
Owners(str) ==
  (IF loaded THEN Cardinality({s \in Slots : cache[s] = str}) ELSE 0)
    + Times(str, 1 .. Len(pairs))
    + Cardinality({d \in 1 .. Len(dicts) : \E e \in dicts[d].entries : e.key = str})
    + (IF str = 1 THEN 1 ELSE 0)

\* Counts are exact: the cache, the object stack, every dict and nobody else
\* hold a reference, through hits, evictions, repeated keys and failures.
RefsCountOwners == \A str \in Strings : heap[str].refs = Owners(str)

\* A key on the object stack is the text that was read, whatever the cache
\* answered for other texts with the same hash or the same bytes.
KeyIsText == \A i \in 1 .. Len(pairs) : heap[pairs[i].key].text = read[i].text

\* A dict has each key of its text once, with the last value given for it.
DictIsSpelled ==
  \A d \in 1 .. Len(dicts) :
    /\ {[text |-> heap[e.key].text, val |-> e.val] : e \in dicts[d].entries}
         = dicts[d].spelled
    /\ \A e, f \in dicts[d].entries : heap[e.key].text = heap[f.key].text => e = f

\* Only an object that repeats a key can leak one.
LeaksOnlyRepeated ==
  ~repeated => \A str \in Strings : heap[str].refs = 0 => str \in freed

\* The assert of Py_DecRef_NoCheck: it never gives back the last reference.
NoCheckKeepsAlive == \A str \in Strings : heap[str].refs = 0 => str \in freed
==============================================================================
