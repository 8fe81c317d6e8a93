----------------------------- MODULE NumberReader -----------------------------
(***************************************************************************)
(* READ_NUMBER (decode_float.inl.h): a number is read in one pass.  The    *)
(* first SafeDig digits make the significand; the digits behind them are   *)
(* only counted, and looked at again if the rounding needs them.  An       *)
(* integer that fits 64 bits is an int, any other number is a float.       *)
(*                                                                         *)
(* The labels of the code are the values of pc.  The eighteen copies of    *)
(* digi_sepr, digi_frac and digi_stop differ in how many digits were       *)
(* taken: the variable taken.  A text is a sequence of characters, where   *)
(* "inf" and "nan" stand for Infinity and NaN; a position 0 is NULL.       *)
(***************************************************************************)
EXTENDS FloatRounding

CONSTANT Texts  \* the texts at which a number is read

VARIABLES
  text, pc,
  cur,      \* the cursor
  sig,      \* the significand, its first SafeDig digits
  taken,    \* how many digits are in it
  dot_pos,  \* the decimal point, or the end of the integral part
  sig_cut,  \* where digits were cut off
  sig_end,  \* the end of the significand
  exp_sig,  \* the exponent
  number    \* Unknown, or what is returned

vars == <<text, pc, cur, sig, taken, dot_pos, sig_cut, sig_end, exp_sig, number>>

Unknown == [kind |-> "unknown"]
Digits == {"0", "1", "2", "3", "4", "5", "6", "7", "8", "9"}

Char(i) == IF i \in DOMAIN text THEN text[i] ELSE "end"
IsDigit(i) == Char(i) \in Digits
IsExp(i) == Char(i) \in {"e", "E"}
IsSign(i) == Char(i) \in {"+", "-"}
IsFp(i) == IsExp(i) \/ Char(i) = "."
sign == Char(1) = "-"

\* The first position from i on that is not one of these characters.
EndOf(chars, i) == CHOOSE e \in i .. Len(text) + 1 : Char(e) \notin chars /\ \A k \in i .. e - 1 : Char(k) \in chars

\* v, and then n digits from i on.
Appended(v, i, n) ==
  LET value[k \in 0 .. n] == IF k = 0 THEN v ELSE value[k - 1] * 10 + DigitOf(Char(i + k - 1)) IN value[n]

Init ==
  /\ text \in Texts
  /\ pc = "start" /\ cur = 1 + Bool(text[1] = "-")
  /\ sig = 0 /\ taken = 0 /\ dot_pos = 0 /\ sig_cut = 0 /\ sig_end = 0 /\ exp_sig = 0
  /\ number = Unknown

Goto(label) == pc' = label /\ UNCHANGED <<text, number>>
Return(r) == pc' = "returned" /\ number' = r /\ UNCHANGED text
Fail(i) == Return([kind |-> "error"]) /\ cur' = i
ReturnF64(raw) == Return([kind |-> "float", neg |-> sign, raw |-> raw])

\* return_i64, return_u64: the value is negated in 64 bits.
ReturnInt(v) == Return([kind |-> "int", value |-> IF sign THEN -v ELSE v])

significand == <<sig, taken, dot_pos, sig_cut, sig_end, exp_sig>>
-----------------------------------------------------------------------------
\* Not a digit: Infinity or NaN, or nothing.
ReadInfOrNan ==
  /\ pc = "start" /\ ~IsDigit(cur)
  /\ \/ Char(cur) = "inf" /\ cur' = cur + 1 /\ ReturnF64(F64Inf)
     \/ Char(cur) = "nan" /\ cur' = cur + 1 /\ ReturnF64("nan")
     \/ Char(cur) \notin {"inf", "nan"} /\ Fail(cur)
  /\ UNCHANGED significand

\* 0 followed by neither a point nor an exponent, nor a digit.
ReadZero ==
  /\ pc = "start" /\ Char(cur) = "0" /\ ~IsDigit(cur + 1) /\ ~IsFp(cur + 1)
  /\ cur' = cur + 1
  /\ Return([kind |-> "int", value |-> 0])
  /\ UNCHANGED significand

\* 0 and a digit.
LeadingZero ==
  /\ pc = "start" /\ Char(cur) = "0" /\ IsDigit(cur + 1)
  /\ Fail(cur)
  /\ UNCHANGED significand

\* Zero with an exponent is zero.
ZeroWithExponent(i) ==
  LET digits == i + 1 + Bool(IsSign(i + 1)) IN
  IF IsDigit(digits) THEN cur' = EndOf(Digits, digits) /\ ReturnF64(0) ELSE Fail(digits)

\* 0 and a point, or an exponent.
ReadZeroFraction ==
  /\ pc = "start" /\ Char(cur) = "0" /\ IsFp(cur + 1)
  /\ LET dot == cur + 1  first == EndOf({"0"}, dot + 1) IN
     \/ IsExp(dot) /\ ZeroWithExponent(dot) /\ UNCHANGED significand
     \/ Char(dot) = "." /\ ~IsDigit(dot + 1) /\ Fail(dot + 1) /\ UNCHANGED significand
     \/ /\ Char(dot) = "." /\ IsDigit(dot + 1) /\ IsDigit(first)
        /\ sig' = DigitOf(Char(first)) /\ taken' = 1 /\ dot_pos' = dot /\ cur' = first + 1
        /\ Goto("digi_frac") /\ UNCHANGED <<sig_cut, sig_end, exp_sig>>
     \/ /\ Char(dot) = "." /\ IsDigit(dot + 1) /\ IsExp(first)
        /\ ZeroWithExponent(first) /\ UNCHANGED significand
     \/ /\ Char(dot) = "." /\ IsDigit(dot + 1) /\ ~IsDigit(first) /\ ~IsExp(first)
        /\ cur' = first /\ ReturnF64(0) /\ UNCHANGED significand

\* expr_intg: up to SafeDig digits.
ReadIntegral ==
  /\ pc = "start" /\ IsDigit(cur) /\ Char(cur) # "0"
  /\ LET n == EndOf(Digits, cur) - cur
         read == IF n < SafeDig THEN n ELSE SafeDig
     IN  /\ sig' = Appended(0, cur, read) /\ taken' = read /\ cur' = cur + read
         /\ Goto(IF n < SafeDig THEN "digi_sepr" ELSE "digi_more")
  /\ UNCHANGED <<dot_pos, sig_cut, sig_end, exp_sig>>

\* digi_sepr: fewer digits than that.
DigiSepr ==
  /\ pc = "digi_sepr"
  /\ \/ ~IsFp(cur) /\ ReturnInt(sig) /\ UNCHANGED <<cur, significand>>
     \/ /\ Char(cur) = "." /\ dot_pos' = cur /\ cur' = cur + 1
        /\ Goto("digi_frac") /\ UNCHANGED <<sig, taken, sig_cut, sig_end, exp_sig>>
     \/ /\ IsExp(cur) /\ dot_pos' = cur /\ sig_end' = cur
        /\ Goto("digi_exp_more") /\ UNCHANGED <<cur, sig, taken, sig_cut, exp_sig>>

\* SafeDig digits and no more: a negative one may be too small.
ReadSafeInteger ==
  /\ pc = "digi_more" /\ ~IsDigit(cur) /\ ~IsFp(cur)
  /\ IF sign /\ sig > Word \div 2 THEN ReturnF64(U64ToF64(sig)) ELSE ReturnInt(sig)
  /\ UNCHANGED <<cur, significand>>

\* Mutant: the last digit is not compared.
OneMoreFitsLoosely == IsDigit(cur) /\ ~IsDigit(cur + 1) /\ ~IsFp(cur + 1) /\ sig <= (Word - 1) \div 10

\* digi_intg_more: one digit more may fit.
OneMoreFits ==
  /\ IsDigit(cur) /\ ~IsDigit(cur + 1) /\ ~IsFp(cur + 1)
  /\ \/ sig < (Word - 1) \div 10
     \/ sig = (Word - 1) \div 10 /\ DigitOf(Char(cur)) <= (Word - 1) % 10

ReadLongInteger ==
  /\ pc = "digi_more" /\ OneMoreFits
  /\ LET v == (sig * 10 + DigitOf(Char(cur))) % Word IN
     /\ sig' = v /\ cur' = cur + 1
     /\ IF sign THEN ReturnF64(U64ToF64(v)) ELSE ReturnInt(v)
  /\ UNCHANGED <<taken, dot_pos, sig_cut, sig_end, exp_sig>>

DigiIntgMore ==
  /\ pc = "digi_more" /\ ~OneMoreFits
  /\ \/ /\ IsExp(cur) /\ dot_pos' = cur /\ Goto("digi_exp_more")
        /\ UNCHANGED <<cur, sig, taken, sig_cut, sig_end, exp_sig>>
     \/ Char(cur) = "." /\ ~IsDigit(cur + 1) /\ Fail(cur + 1) /\ UNCHANGED significand
     \/ /\ Char(cur) = "." /\ IsDigit(cur + 1) /\ dot_pos' = cur /\ cur' = cur + 1
        /\ Goto("digi_frac_more") /\ UNCHANGED <<sig, taken, sig_cut, sig_end, exp_sig>>
     \/ IsDigit(cur) /\ Goto("digi_frac_more") /\ UNCHANGED <<cur, significand>>

\* digi_frac, digi_stop: digits of the fraction, while they are safe.
DigiFrac ==
  /\ pc = "digi_frac"
  /\ LET n == EndOf(Digits, cur) - cur
         read == IF n < SafeDig - taken THEN n ELSE SafeDig - taken
     IN  /\ sig' = Appended(sig, cur, read) /\ taken' = taken + read /\ cur' = cur + read
         /\ Goto(IF n > SafeDig - taken THEN "digi_frac_more" ELSE "digi_frac_end")
  /\ UNCHANGED <<dot_pos, sig_cut, sig_end, exp_sig>>

\* Where the digits end, and the point among them if it was not seen.
PointFrom(i) ==
  LET e == EndOf(Digits, i) IN
  IF dot_pos # 0 THEN [dot |-> dot_pos, end |-> e]
  ELSE [dot |-> e, end |-> IF Char(e) = "." THEN EndOf(Digits, e + 1) ELSE e]

\* Only zeros and the point were cut.
OnlyZeros(from, end) == \A k \in from .. end - 1 : Char(k) \in {"0", "."}

\* digi_frac_more: the rest is cut, and the significand rounded.
DigiFracMore ==
  /\ pc = "digi_frac_more"
  /\ LET p == PointFrom(cur) IN
     \/ /\ p.end = p.dot + 1 /\ dot_pos = 0 /\ Fail(p.end)
        /\ UNCHANGED significand
     \/ /\ ~(p.end = p.dot + 1 /\ dot_pos = 0)
        /\ sig' = sig + Bool(DigitOf(Char(cur)) >= 5)
        /\ dot_pos' = p.dot /\ cur' = p.end
        /\ exp_sig' = p.dot - cur + Bool(p.dot < cur)
        /\ sig_cut' = IF OnlyZeros(cur, p.end) THEN 0 ELSE cur
        /\ sig_end' = IF OnlyZeros(cur, p.end) THEN sig_end ELSE p.end
        /\ Goto(IF IsExp(p.end) THEN "digi_exp_more" ELSE "digi_exp_finish")
        /\ UNCHANGED taken

TooSmall(e) == e < MinDecExp - SafeDig

\* digi_frac_end.
DigiFracEnd ==
  /\ pc = "digi_frac_end"
  /\ \/ dot_pos + 1 = cur /\ Fail(cur) /\ UNCHANGED significand
     \/ /\ dot_pos + 1 # cur
        /\ sig_end' = cur /\ exp_sig' = -(cur - dot_pos - 1)
        /\ IF IsExp(cur) THEN Goto("digi_exp_more")
           ELSE IF TooSmall(exp_sig') THEN ReturnF64(0)
           ELSE Goto("digi_finish")
        /\ UNCHANGED <<cur, sig, taken, dot_pos, sig_cut>>

\* digi_exp_more: the exponent that is written.
DigiExpMore ==
  /\ pc = "digi_exp_more"
  /\ LET negative == Char(cur + 1) = "-"
         first == cur + 1 + Bool(IsSign(cur + 1))
         digits == EndOf({"0"}, first)
         e == EndOf(Digits, digits)
     IN  \/ ~IsDigit(first) /\ Fail(first) /\ UNCHANGED significand
         \/ /\ IsDigit(first) /\ e - digits >= SafeDig
            /\ cur' = e /\ ReturnF64(IF negative THEN 0 ELSE F64Inf) /\ UNCHANGED significand
         \/ /\ IsDigit(first) /\ e - digits < SafeDig
            /\ cur' = e
            /\ exp_sig' = exp_sig + (IF negative THEN -1 ELSE 1) * Appended(0, digits, e - digits)
            /\ Goto("digi_exp_finish")
            /\ UNCHANGED <<sig, taken, dot_pos, sig_cut, sig_end>>

\* digi_exp_finish.
DigiExpFinish ==
  /\ pc = "digi_exp_finish"
  /\ IF TooSmall(exp_sig) THEN ReturnF64(0)
     ELSE IF exp_sig > MaxDecExp THEN ReturnF64(F64Inf)
     ELSE Goto("digi_finish")
  /\ UNCHANGED <<cur, significand>>

\* digi_finish: the significand and the exponent become a double.
UseFastPath1 ==
  /\ pc = "digi_finish" /\ FastPath1Applies(sig, exp_sig)
  /\ ReturnF64(FastPath1(sig, exp_sig))
  /\ UNCHANGED <<cur, significand>>

UsesFastPath2 == FastPath2Applies(exp_sig, sig_cut # 0) /\ Product(sig, exp_sig).exact

UseFastPath2 ==
  /\ pc = "digi_finish" /\ ~FastPath1Applies(sig, exp_sig) /\ UsesFastPath2
  /\ ReturnF64(FastPath2(sig, exp_sig))
  /\ UNCHANGED <<cur, significand>>

UseSlowPath ==
  /\ pc = "digi_finish" /\ ~FastPath1Applies(sig, exp_sig) /\ ~UsesFastPath2
  /\ ReturnF64(SlowPath(text, sig, exp_sig, sig_cut, sig_end, dot_pos))
  /\ UNCHANGED <<cur, significand>>

Next ==
  \/ ReadInfOrNan \/ ReadZero \/ LeadingZero \/ ReadZeroFraction \/ ReadIntegral
  \/ DigiSepr \/ ReadSafeInteger \/ ReadLongInteger \/ DigiIntgMore
  \/ DigiFrac \/ DigiFracMore \/ DigiFracEnd \/ DigiExpMore \/ DigiExpFinish
  \/ UseFastPath1 \/ UseFastPath2 \/ UseSlowPath

Spec == Init /\ [][Next]_vars
=============================================================================
