------------------------------ MODULE TimeCalc ------------------------------
(***************************************************************************)
(* The four-timestamp arithmetic of src/time/calc.rs.  A client reads t1   *)
(* when it sends, the server reads t2 on receipt and t3 on reply, the      *)
(* client reads t4 on receipt of the answer; t1 and t4 are on the client's *)
(* clock, t2 and t3 on the server's.  Timestamps are i128 in the code: no  *)
(* sum of four 64-bit readings overflows, so integers stand for them.      *)
(***************************************************************************)
EXTENDS Integers

\* Integer division by two as Rust does it: towards zero, not downwards.
TruncHalf(x) == IF x >= 0 THEN x \div 2 ELSE -((-x) \div 2)

\* Mutants of compute_offset_delay: a sign slips in the second difference; the
\* sum is not halved.
SignSlip(t1, t2, t3, t4) ==
    [delay  |-> (t4 - t1) - (t3 - t2),
     offset |-> TruncHalf((t2 - t1) - (t3 - t4))]
NotHalved(t1, t2, t3, t4) ==
    [delay  |-> (t4 - t1) - (t3 - t2),
     offset |-> (t2 - t1) + (t3 - t4)]

compute_offset_delay(t1, t2, t3, t4) ==
    [delay  |-> (t4 - t1) - (t3 - t2),
     offset |-> TruncHalf((t2 - t1) + (t3 - t4))]

Abs(x) == IF x >= 0 THEN x ELSE -x

\* The true offset theta lies within half the measured delay of the measured
\* offset, up to the nanosecond the truncating division may lose.
WithinHalfDelay(calc, theta) == 2 * Abs(calc.offset - theta) <= calc.delay + 1
=============================================================================
