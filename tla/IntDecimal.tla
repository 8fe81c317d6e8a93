------------------------------ MODULE IntDecimal ------------------------------
(***************************************************************************)
(* What a call of write_u64() should leave: the number in decimal.         *)
(***************************************************************************)
EXTENDS IntWriter, Sequences

VARIABLES
  call,   \* what is called, and its arguments
  result  \* what it left, or Nothing

Nothing == <<>>

Is(name) == call.f.fn = name
Returns(r) == result = Nothing /\ result' = r /\ UNCHANGED call

\* A buffer has room for 32 digits and no number has more than 20.
Offsets == 0 .. 31
EmptyBuffer == [mem |-> [p \in Offsets |-> 0], at |-> 0]

NumberCall(high, mid, low) == [f |-> [fn |-> "write_u64"], high |-> high, mid |-> mid, low |-> low]

WriteNumber == Is("write_u64") /\ Returns(WriteU64(call.high, call.mid, call.low, EmptyBuffer))

\* Numbers of up to four and eight digits, and what is above 10^12 in 64 bits.
Fours == {n \in Nat : n <= 9999}
Eights == {n \in Nat : n <= 99999999}
Highs == {n \in Nat : n <= 18446744}

\* Every number of 64 bits, 18446744073709551615 being the last, and a few more.
NumberInit ==
  /\ result = Nothing
  /\ \E high \in Highs, mid \in Fours, low \in Eights : call = NumberCall(high, mid, low)

NumberSpec == NumberInit /\ [][WriteNumber]_<<call, result>>

-----------------------------------------------------------------------------
\* Power[n + 1] is 10^n.
Power == <<1, 10, 100, 1000, 10000, 100000, 1000000, 10000000, 100000000>>

\* The last n digits of v stand at p.
Shows(mem, p, v, n) == \A i \in 0 .. n - 1 : mem[p + i] = (v \div Power[n - i]) % 10

\* The digits of v are n.
HasDigits(v, n) == n \in 1 .. 8 /\ v < Power[n + 1] /\ (n = 1 \/ v >= Power[n])

\* write_u64 leaves the digits of the number, from the start of the buffer to
\* the writer, whichever way it was split: the divisions by multiplication are
\* right and no zero stands in front.
NumberIsDecimal ==
  result # Nothing /\ Is("write_u64") =>
    LET more == IF call.high > 0 THEN 12 ELSE IF call.mid > 0 THEN 8 ELSE 0
        first == IF call.high > 0 THEN call.high ELSE IF call.mid > 0 THEN call.mid ELSE call.low
        n == result.at - more
    IN  /\ HasDigits(first, n) /\ Shows(result.mem, 0, first, n)
        /\ call.high > 0 => Shows(result.mem, n, call.mid, 4)
        /\ more > 0 => Shows(result.mem, result.at - 8, call.low, 8)
=============================================================================
