-------------------------------- MODULE Slew --------------------------------
(***************************************************************************)
(* The correction src/time/slew.rs hands to adjtimex: microseconds of      *)
(* offset and a frequency in units of 2^-16 ppm, both clamped and cut off  *)
(* towards zero (`as c_long`).                                             *)
(***************************************************************************)
EXTENDS Integers

CONSTANTS
    NsPerUs,    \* 1000
    MaxOffset,  \* 500_000 us
    PpmUnit,    \* 2^16
    MaxFreq     \* 512_000

ASSUME SlewAssumption ==
    /\ NsPerUs \in Nat \ {0} /\ PpmUnit \in Nat \ {0}
    /\ MaxOffset \in Nat /\ MaxFreq \in Nat

Clamp(x, bound) == IF x > bound THEN bound ELSE IF x < -bound THEN -bound ELSE x

\* Mutant of Truncated: integer division rounds downwards.
Floor(num, den) == num \div den
\* A fraction as an integer, towards zero.
Truncated(num, den) == IF num >= 0 THEN num \div den ELSE -((-num) \div den)

\* offset (ns) and drift (ppm) are fractions.  A bound is an integer, so it makes no
\* difference that the code clamps before it cuts off.
apply(offset, drift) ==
    [offset |-> Clamp(Truncated(offset.num, offset.den * NsPerUs), MaxOffset),
     freq |-> Clamp(Truncated(drift.num * PpmUnit, drift.den), MaxFreq)]
-----------------------------------------------------------------------------
\* apply: a correction has the sign of what it corrects and never exceeds it or
\* its limit, and it falls short by less than a unit unless the limit binds.
CorrectionWithin(offset, drift) ==
    LET Fits(tx, num, den, bound) ==
            /\ -bound <= tx /\ tx <= bound
            /\ IF num >= 0 THEN 0 <= tx /\ tx * den <= num
                           ELSE tx <= 0 /\ num <= tx * den
            /\ (tx # bound /\ num >= 0) => num < (tx + 1) * den
            /\ (tx # -bound /\ num <= 0) => (tx - 1) * den < num
        tx == apply(offset, drift)
    IN  /\ Fits(tx.offset, offset.num, offset.den * NsPerUs, MaxOffset)
        /\ Fits(tx.freq, drift.num * PpmUnit, drift.den, MaxFreq)
=============================================================================
