------------------------------- MODULE JsonDoc -------------------------------
(***************************************************************************)
(* What loads() promises for a document whose root is an array or an       *)
(* object, stated with no stack, counter or buffer: the tokens of the      *)
(* document are read one by one into a chain of nested, partly built       *)
(* containers; the call accepts the document exactly when the tokens are   *)
(* a JSON array or object nested no deeper than MaxDepth, and rejects it   *)
(* at the first token JSON does not allow there.  It may also give up      *)
(* because memory ran out.  Module DecodeStack implements it.              *)
(***************************************************************************)
EXTENDS Naturals, Sequences

CONSTANT
  MaxDepth       \* deepest nesting accepted (PYYJSON_DECODE_MAX_RECURSION)

VARIABLES
  input,         \* the tokens read so far, white space left out
  frames,        \* open containers, outermost first: [arr, items]
  expect,        \* which tokens JSON allows next
  outcome        \* "open" while reading, then "accept", "reject", "nomem"

docVars == <<input, frames, expect, outcome>>

\* A value is a tree: <<"scalar", token>>, or <<"array" or "object", items>>;
\* the items of an object are its keys and values in turn.
Scalar(t) == <<"scalar", t>>
Built(frame) == <<IF frame.arr THEN "array" ELSE "object", frame.items>>

\* NaN is none of JSON, but of what the json module of Python writes and reads.
ScalarTokens == {"str", "num", "lit", "null", "nan"}
Brackets == {"lbrack", "lbrace"}
DocTokens == Brackets \union ScalarTokens \union {"rbrack", "rbrace", "comma", "colon", "bad", "eof"}
ValueStates == {"value", "value_or_close"}
KeyStates == {"key", "key_or_close"}

\* The tokens JSON allows in each state.
Allows(state, t) ==
  \/ state \in {"root"} \union ValueStates /\ t \in Brackets
  \/ state \in ValueStates /\ t \in ScalarTokens
  \/ state \in KeyStates /\ t = "str"
  \/ state = "colon" /\ t = "colon"
  \/ state \in {"array_next", "object_next"} /\ t = "comma"
  \/ state \in {"array_next", "value_or_close"} /\ t = "rbrack"
  \/ state \in {"object_next", "key_or_close"} /\ t = "rbrace"
  \/ state = "end" /\ t = "eof"

Last == frames[Len(frames)]
Outer == SubSeq(frames, 1, Len(frames) - 1)
AfterValue(fs) == IF fs[Len(fs)].arr THEN "array_next" ELSE "object_next"

\* The frames with one more key or value in the innermost container.
Extended(fs, v) == [fs EXCEPT ![Len(fs)].items = Append(@, v)]

DocInit ==
  /\ input = <<>>
  /\ frames = <<>>
  /\ expect = "root"
  /\ outcome = "open"

Take(t) ==
  /\ outcome = "open"
  /\ Allows(expect, t)
  /\ input' = Append(input, t)

Open(t) ==
  /\ t \in Brackets
  /\ Take(t)
  /\ Len(frames) < MaxDepth
  /\ frames' = Append(frames, [arr |-> t = "lbrack", items |-> <<>>])
  /\ expect' = IF t = "lbrack" THEN "value_or_close" ELSE "key_or_close"
  /\ UNCHANGED outcome

ReadScalar(t) ==
  /\ expect \in ValueStates
  /\ t \in ScalarTokens
  /\ Take(t)
  /\ frames' = Extended(frames, Scalar(t))
  /\ expect' = AfterValue(frames)
  /\ UNCHANGED outcome

ReadKey ==
  /\ expect \in KeyStates
  /\ Take("str")
  /\ frames' = Extended(frames, Scalar("key"))
  /\ expect' = "colon"
  /\ UNCHANGED outcome

Separator(t) ==
  /\ t \in {"comma", "colon"}
  /\ Take(t)
  /\ expect' = IF expect \in {"colon", "array_next"} THEN "value" ELSE "key"
  /\ UNCHANGED <<frames, outcome>>

\* A closing bracket hands the built container to its parent; the root
\* container stays alone, complete.
Close(t) ==
  /\ t \in {"rbrack", "rbrace"}
  /\ Take(t)
  /\ IF Len(frames) = 1
       THEN frames' = frames /\ expect' = "end"
       ELSE /\ frames' = Extended(Outer, Built(Last))
            /\ expect' = AfterValue(Outer)
  /\ UNCHANGED outcome

Accept ==
  /\ Take("eof")
  /\ outcome' = "accept"
  /\ expect' = "done"
  /\ UNCHANGED frames

\* A document is rejected only for a token JSON does not allow, or for a
\* container nested too deep.
Reject(t) ==
  /\ outcome = "open"
  /\ \/ ~Allows(expect, t)
     \/ t \in Brackets /\ Len(frames) = MaxDepth
  /\ input' = Append(input, t)
  /\ outcome' = "reject"
  /\ frames' = <<>>
  /\ expect' = "done"

\* Once memory ran out nothing is promised of the text.
GiveUp ==
  /\ outcome = "open"
  /\ outcome' = "nomem"
  /\ input' = <<>>
  /\ frames' = <<>>
  /\ expect' = "done"

DocNext ==
  \/ \E t \in Brackets : Open(t)
  \/ \E t \in ScalarTokens : ReadScalar(t)
  \/ ReadKey
  \/ \E t \in {"comma", "colon"} : Separator(t)
  \/ \E t \in {"rbrack", "rbrace"} : Close(t)
  \/ Accept
  \/ \E t \in DocTokens : Reject(t)
  \/ GiveUp

DocSpec == DocInit /\ [][DocNext]_docVars
==============================================================================
