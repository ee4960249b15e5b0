------------------------------ MODULE Telemetry -----------------------------
(***************************************************************************)
(* What src/telemetry/metrics.rs makes of the store: the verdict of        *)
(* /health and the quantiles of /metrics.  The rest of it renders fields   *)
(* of the store as text.                                                   *)
(***************************************************************************)
EXTENDS Integers, Sequences

\* PROM_QUANTILES, as fractions.
Half == <<1, 2>>
Most == <<19, 20>>

\* Mutant of percentile: the position is computed from the length.
PercentileOfLength(sorted, q) ==
    LET pos == q[1] * Len(sorted)
        idx == (pos \div q[2]) + 1
        frac == pos % q[2]
    IN  IF idx < Len(sorted)
        THEN [num |-> sorted[idx] * q[2] + (sorted[idx + 1] - sorted[idx]) * frac,
              den |-> q[2]]
        ELSE [num |-> sorted[Len(sorted)], den |-> 1]

\* percentile of a sorted list that is not empty, with linear interpolation, as a
\* fraction; q is a fraction in [0, 1].
percentile(sorted, q) ==
    LET pos == q[1] * (Len(sorted) - 1)
        idx == (pos \div q[2]) + 1
        frac == pos % q[2]
    IN  IF idx < Len(sorted)
        THEN [num |-> sorted[idx] * q[2] + (sorted[idx + 1] - sorted[idx]) * frac,
              den |-> q[2]]
        ELSE [num |-> sorted[Len(sorted)], den |-> 1]

\* Mutant of health: a series is healthy once it has an entry.
HealthOnceWritten(now, last, fails, fresh) ==
    CASE fails -> "booting" [] ~ fails /\ last # {} -> "ok" [] OTHER -> "stale"
\* health: from the newest entry of ts:fused:ewma, if any; the subtraction
\* saturates, so an entry from the future is fresh.
health(now, last, fails, fresh) ==
    CASE fails -> "booting"
      [] ~ fails /\ (\E ts \in last : now - ts < fresh) -> "ok"
      [] OTHER -> "stale"
=============================================================================
