----------------------------- MODULE JsonEscape -----------------------------
(***************************************************************************)
(* The escapes of a JSON string, which the readers of str and of bytes     *)
(* decode with the same table of digits and the same letters.              *)
(***************************************************************************)
EXTENDS Integers

\* hex_conv_table; 240 for what is no digit.
HexDigit(b) ==
  IF b \in 48 .. 57 THEN b - 48
  ELSE IF b \in 65 .. 70 THEN b - 55
  ELSE IF b \in 97 .. 102 THEN b - 87
  ELSE 240

\* read_to_hex: the unit that the digits At(p) .. At(p + 3) spell, or none (-1).
HexUnit(At(_), p) ==
  LET c(n) == HexDigit(At(p + n))
  IN  IF \E n \in 0 .. 3 : c(n) > 15 THEN -1
      ELSE 16 * (16 * (16 * c(0) + c(1)) + c(2)) + c(3)

\* What the letter behind a backslash stands for.
ShortEscapes ==
  [l \in {34, 92, 47, 98, 102, 110, 114, 116} |->
     IF l = 98 THEN 8 ELSE IF l = 102 THEN 12 ELSE IF l = 110 THEN 10
     ELSE IF l = 114 THEN 13 ELSE IF l = 116 THEN 9 ELSE l]

NoEscape == [code |-> -1, size |-> 0]

\* The character that the halves of a pair stand for.
PairCode(hi, lo) == 65536 + 1024 * (hi % 1024) + (lo % 1024)

Surrogates == 55296 .. 57343

=============================================================================
