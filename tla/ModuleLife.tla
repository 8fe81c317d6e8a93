----------------------------- MODULE ModuleLife -----------------------------
(***************************************************************************)
(* The life of the extension module: PyInit_pyyjson and module_free        *)
(* (pyyjson.c), with the three keys for values of a thread (tls.c).  A key *)
(* is a number that pthread_key_create gives out; the rest of the process  *)
(* makes keys of its own.  The variables that hold the numbers, and the    *)
(* ones that hold the two exception classes, are static: they outlive an   *)
(* import that fails, and the next one finds them as they are.             *)
(***************************************************************************)
EXTENDS Naturals, FiniteSets

CONSTANTS
  MaxKeys,       \* PTHREAD_KEYS_MAX
  MaxOthers,     \* bound: keys that the rest of the process makes
  Numberings     \* the numbers that pthread_key_create may give the keys

Errors == {"decode", "encode"}
Stacks == {"encode_obj", "decode_obj", "decode_ctn"}
KeyNumbers == 0 .. MaxKeys - 1

ASSUME KeysAssumption ==
  /\ MaxKeys \in Nat \ {0}
  /\ MaxOthers \in Nat
  /\ Numberings \subseteq [Stacks -> KeyNumbers]

VARIABLES
  stage,         \* how far the import has come
  refs,          \* the references to the class that a static variable names
  static,        \* JSONDecodeError, JSONEncodeError: not NULL
  added,         \* the module's dict has the class
  keyOf,         \* _EncodeObjStackBuffer_Key and the two of the decoder
  ours,          \* the keys that exist and are the module's
  others         \* the keys that exist and are not

moduleVars == <<stage, refs, static, added, keyOf, ours, others>>

Order == [s \in Stacks |->
            IF s = "encode_obj" THEN 1 ELSE IF s = "decode_obj" THEN 2 ELSE 3]

Upto(s) == {r \in Stacks : Order[r] <= Order[s]}

ModuleInit ==
  /\ stage = "absent"
  /\ refs = [e \in Errors |-> 0]
  /\ static = [e \in Errors |-> FALSE]
  /\ added = [e \in Errors |-> FALSE]
  /\ keyOf = [s \in Stacks |-> 0]
  /\ ours = {}
  /\ others = {}

(* A key that is made when the module has its own changes nothing for it. *)
OthersMakeKey ==
  /\ stage # "loaded"
  /\ Cardinality(others) < MaxOthers
  /\ \E n \in KeyNumbers \ (ours \cup others) : others' = others \cup {n}
  /\ UNCHANGED <<stage, refs, static, added, keyOf, ours>>

(***************************************************************************)
(* pyyjson_tls_free: the keys are deleted in the order in which they are   *)
(* made, up to the first number that is no key (any more).                 *)
(***************************************************************************)
Deletes(s) ==
  \A r \in Upto(s) : /\ keyOf[r] \in ours \cup others
                     /\ \A q \in Upto(r) \ {r} : keyOf[q] # keyOf[r]

Deleted == {keyOf[s] : s \in {s \in Stacks : Deletes(s)}}

FreeKeys == /\ ours' = ours \ Deleted
            /\ others' = others \ Deleted
            /\ UNCHANGED keyOf

(***************************************************************************)
(* The import.  A class has the reference of PyErr_NewException and one of *)
(* Py_XINCREF; PyModule_AddObject takes one over when it succeeds.         *)
(***************************************************************************)
CreateModule == /\ stage = "absent"
                /\ stage' = "module"
                /\ UNCHANGED <<refs, static, added, keyOf, ours, others>>

NewClass == 1 + 1

Added(e, next) == /\ stage' = next
                  /\ refs' = [refs EXCEPT ![e] = NewClass]
                  /\ static' = [static EXCEPT ![e] = TRUE]
                  /\ added' = [added EXCEPT ![e] = TRUE]
                  /\ UNCHANGED <<keyOf, ours, others>>

DictGone == [e \in Errors |-> IF added[e] THEN refs[e] - 1 ELSE refs[e]]

(***************************************************************************)
(* Py_DECREF(module) runs module_free, which deletes keys although none    *)
(* has been made yet.                                                      *)
(***************************************************************************)
NotAdded(e) == /\ stage' = "absent"
               /\ refs' = [DictGone EXCEPT ![e] = 0]
               /\ static' = [static EXCEPT ![e] = FALSE]
               /\ added' = [x \in Errors |-> FALSE]
               /\ FreeKeys

AddDecodeError == /\ stage = "module"
                  /\ Added("decode", "decode_error") \/ NotAdded("decode")

AddEncodeError == /\ stage = "decode_error"
                  /\ Added("encode", "encode_error") \/ NotAdded("encode")

(***************************************************************************)
(* pyyjson_tls_init: the keys are made in order, up to the first that      *)
(* cannot be.  The import then takes back a reference to JSONEncodeError   *)
(* that the module's dict has: the class goes while the dict names it, and *)
(* what follows is undefined.                                              *)
(***************************************************************************)
Made == {{}, Upto("encode_obj"), Upto("decode_obj"), Stacks}

(* Mutant: the result of the last pthread_key_create is not looked at. *)
LastUnchecked(made) == Upto("decode_obj") \subseteq made

Success(made) == made = Stacks

InitTls ==
  /\ stage = "encode_error"
  /\ \E made \in Made, n \in Numberings :
       /\ \A s \in made : /\ n[s] \notin ours \cup others
                          /\ \A r \in made \ {s} : n[r] # n[s]
       /\ keyOf' = [s \in Stacks |-> IF s \in made THEN n[s] ELSE keyOf[s]]
       /\ ours' = ours \cup {n[s] : s \in made}
       /\ IF Success(made)
            THEN stage' = "loaded" /\ UNCHANGED refs
            ELSE stage' = "undefined" /\ refs' = [refs EXCEPT !["encode"] = 0]
  /\ UNCHANGED <<static, added, others>>

Import == CreateModule \/ AddDecodeError \/ AddEncodeError \/ InitTls

(***************************************************************************)
(* The interpreter frees the module.  Nobody releases the static           *)
(* references to the classes.                                              *)
(***************************************************************************)
Unload == /\ stage = "loaded"
          /\ stage' = "unloaded"
          /\ refs' = DictGone
          /\ added' = [e \in Errors |-> FALSE]
          /\ FreeKeys
          /\ UNCHANGED static

(***************************************************************************)
(* An import that succeeds, after whatever imports failed before, leaves   *)
(* three different keys that exist and are the module's, and two classes   *)
(* that are referred to once by the module's dict and once by the variable *)
(* from which loads() and dumps() raise them.                              *)
(***************************************************************************)
LoadedIsWhole ==
  stage = "loaded" =>
    /\ \A s \in Stacks : keyOf[s] \in ours \ others
    /\ \A r, s \in Stacks : r # s => keyOf[r] # keyOf[s]
    /\ \A e \in Errors : static[e] /\ added[e] /\ refs[e] = 2

=============================================================================
