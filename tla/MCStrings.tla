------------------------------ MODULE MCStrings ------------------------------
(***************************************************************************)
(* EscapeWiden and KeyCache for TLC in one run: one string is read, as in  *)
(* MCEscapeWiden, or keys are looked up and dicts made, as in MCKeyCache.  *)
(* The two share nothing: decode_str looks a key up once it has its text.  *)
(***************************************************************************)
EXTENDS MCEscapeWiden, MCKeyCache

VARIABLE part  \* which of the two runs

StringsInit ==
  /\ part \in {"text", "keys"}
  /\ Init /\ CacheInit
  /\ part = "keys" => copy = 0

ReadsText == part = "text" /\ Next /\ UNCHANGED <<part, cacheVars>>

MakesKeys == part = "keys" /\ CacheNext /\ UNCHANGED <<part, vars>>

StringsSpec == StringsInit /\ [][ReadsText \/ MakesKeys]_<<part, vars, cacheVars>>
==============================================================================
