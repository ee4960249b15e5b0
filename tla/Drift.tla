------------------------------- MODULE Drift --------------------------------
(***************************************************************************)
(* The drift estimate of src/time/drift.rs: the least-squares slope of the *)
(* smoothed offsets over their timestamps, as a fraction.                  *)
(***************************************************************************)
EXTENDS Lists

Total(samples, f(_)) == SumOf([i \in DOMAIN samples |-> f(samples[i])])

\* Mutant of linreg_slope_ppm: the offsets are not taken from their mean, and the
\* times from their first one.
SlopeFromFirst(samples) ==
    LET n == Len(samples)
        num == Total(samples, LAMBDA s : (s.t - samples[1].t) * s.o)
        den == Total(samples, LAMBDA s : (s.t - samples[1].t) * (s.t - samples[1].t))
    IN  IF n < 3 \/ den = 0
        THEN [num |-> 0, den |-> 1]
        ELSE [num |-> num * 1000, den |-> den]

\* samples is a sequence of [t, o].  Deviations from the mean are taken n times
\* as large, to stay integers; the factor cancels out.
linreg_slope_ppm(samples) ==
    LET n == Len(samples)
        mt == Total(samples, LAMBDA s : s.t)
        mo == Total(samples, LAMBDA s : s.o)
        num == Total(samples, LAMBDA s : (n * s.t - mt) * (n * s.o - mo))
        den == Total(samples, LAMBDA s : (n * s.t - mt) * (n * s.t - mt))
    IN  IF n < 3 \/ den = 0
        THEN [num |-> 0, den |-> 1]
        ELSE [num |-> num * 1000, den |-> den]
-----------------------------------------------------------------------------
\* linreg_slope_ppm: the estimate is never steeper or flatter than every pair of
\* samples: no arithmetic slip can make up a drift that no two samples show.
SlopeWithinPairs(samples) ==
    LET slope == linreg_slope_ppm(samples)
        pairs == {p \in (DOMAIN samples) \X (DOMAIN samples) :
                     samples[p[1]].t < samples[p[2]].t}
        dt(p) == samples[p[2]].t - samples[p[1]].t
        do(p) == samples[p[2]].o - samples[p[1]].o
    IN  IF Len(samples) < 3 \/ pairs = {}
        THEN slope.num = 0
        ELSE /\ \E p \in pairs : 1000 * do(p) * slope.den <= slope.num * dt(p)
             /\ \E p \in pairs : slope.num * dt(p) <= 1000 * do(p) * slope.den

\* An offset that grows by k every 10 ns drifts by k * 10^5 parts per million:
\* "slope * 1.0e3 // -> ppm" (drift.rs:15), with the slope in "ns/ns" (:14).
DriftInPpm(samples) ==
    \A k \in -5 .. 5 :
        /\ Len(samples) >= 3
        /\ \E i, j \in DOMAIN samples : samples[i].t # samples[j].t
        /\ \A i \in DOMAIN samples : 10 * samples[i].o = k * samples[i].t
        => LET slope == linreg_slope_ppm(samples)
           IN  slope.num = k * 100000 * slope.den
=============================================================================
