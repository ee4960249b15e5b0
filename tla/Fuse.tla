-------------------------------- MODULE Fuse --------------------------------
(***************************************************************************)
(* The statistics of src/time/fuse.rs as operators.  Values are integers.  *)
(* A median of integers may end in one half, so the medians of a           *)
(* PeerSample are kept doubled; the weighted means are fractions.  NaN     *)
(* does not occur: every value stored by the program is finite.            *)
(***************************************************************************)
EXTENDS Lists, FiniteSets

CONSTANTS
    TrimRatio,     \* <<num, den>>: filter.trim_ratio
    BestQuantile,  \* <<num, den>>: filter.best_quantile, clamped to [0, 1]
    JitterUnit     \* jitter that halves a weight (1000 ns)

ASSUME FuseAssumption ==
    /\ TrimRatio \in Nat \X (Nat \ {0})
    /\ BestQuantile \in Nat \X (Nat \ {0})
    /\ BestQuantile[1] <= BestQuantile[2]
    /\ JitterUnit \in Nat \ {0}

Magnitude(x) == IF x < 0 THEN -x ELSE x

\* slice::sort_by, which is stable: equal keys keep their order.
SortedBy(seq, key(_)) ==
    LET Before(i, j) ==
            \/ key(seq[i]) < key(seq[j])
            \/ key(seq[i]) = key(seq[j]) /\ i < j
        Rank(j) == Cardinality({i \in DOMAIN seq : Before(i, j)}) + 1
    IN  [r \in DOMAIN seq |-> seq[CHOOSE j \in DOMAIN seq : Rank(j) = r]]

\* Mutant of TwiceMedian: the middle of the list as it stands, not sorted.
MedianUnsorted(values) ==
    LET mid == Len(values) \div 2
    IN  IF values = <<>> THEN 0
        ELSE IF Len(values) % 2 = 0 THEN values[mid] + values[mid + 1]
        ELSE 2 * values[mid + 1]

\* Twice robust_median(values), and 0 for no values (unwrap_or(0.0)).
TwiceMedian(values) ==
    LET sorted == SortedBy(values, LAMBDA v : v)
        mid == Len(sorted) \div 2
    IN  IF values = <<>> THEN 0
        ELSE IF Len(sorted) % 2 = 0 THEN sorted[mid] + sorted[mid + 1]
        ELSE 2 * sorted[mid + 1]

\* PeerSample::from_series, with twice the medians.
from_series(id, weight, offsets, delays, jitters) ==
    [peer_id |-> id, peer_weight |-> weight,
     offset |-> TwiceMedian(offsets),
     delay |-> TwiceMedian(delays),
     jitter |-> Magnitude(TwiceMedian(jitters))]

peer_score(sample) == Magnitude(sample.delay) + Magnitude(sample.jitter)

CeilDiv(a, b) == (a + b - 1) \div b
AtMost(a, b) == IF a < b THEN a ELSE b
AtLeast(a, b) == IF a > b THEN a ELSE b

\* How many of n samples select_best_peers keeps.
KeepCount(n) == AtLeast(CeilDiv(n * BestQuantile[1], BestQuantile[2]), 1)

\* Mutant of select_best_peers: the first samples of the list are taken as it is.
FirstPeers(samples) ==
    SubSeq(samples, 1, AtMost(KeepCount(Len(samples)), Len(samples)))

select_best_peers(samples) ==
    LET sorted == SortedBy(samples, peer_score)
    IN  SubSeq(sorted, 1, AtMost(KeepCount(Len(samples)), Len(samples)))

\* TrimmedStats::from_samples keeps the slice start .. end - 1 (from 0) of the
\* samples sorted by offset; usize subtraction saturates at 0.
TrimCount(n) == (n * TrimRatio[1]) \div TrimRatio[2]
\* Mutant of SliceStart: the low end is not trimmed.
TrimHighOnly(n) == 0 * n
SliceStart(n) == AtMost(TrimCount(n), n)
\* Mutant of SliceEnd: the end is taken as inclusive.
EndInclusive(n) == n + 1 - TrimCount(n)
SliceEnd(n) == AtLeast(AtLeast(n - TrimCount(n), 0), SliceStart(n) + 1)

Kept(samples) ==
    LET n == Len(samples)
    IN  SubSeq(SortedBy(samples, LAMBDA s : s.offset),
               SliceStart(n) + 1, SliceEnd(n))

\* The weights peer_weight / (1 + jitter / JitterUnit), over a common denominator.
Scale(kept) ==
    ProductOf([i \in DOMAIN kept |-> 2 * JitterUnit + kept[i].jitter])
WeightOf(kept, i) ==
    kept[i].peer_weight *
        (2 * JitterUnit * (Scale(kept) \div (2 * JitterUnit + kept[i].jitter)))
TotalWeight(kept) ==
    SumOf([i \in DOMAIN kept |-> WeightOf(kept, i)])

\* Twice the weighted means, as fractions; every weight is positive, so the
\* code's fallback for a zero total is never taken.
mean_offset(kept) ==
    [num |-> SumOf([i \in DOMAIN kept |-> WeightOf(kept, i) * kept[i].offset]),
     den |-> TotalWeight(kept)]
\* Mutant of mean_delay: the sum is divided by the count, not by the weight.
DelayPerPeer(kept) ==
    [num |-> SumOf([i \in DOMAIN kept |-> WeightOf(kept, i) * kept[i].delay]),
     den |-> Len(kept)]
mean_delay(kept) ==
    [num |-> SumOf([i \in DOMAIN kept |-> WeightOf(kept, i) * kept[i].delay]),
     den |-> TotalWeight(kept)]
-----------------------------------------------------------------------------
(***************************************************************************)
(* What the statistics guarantee.                                          *)
(***************************************************************************)
\* num/den lies between the smallest and the largest of a set of values.
Between(mean, values) ==
    /\ \E v \in values : v * mean.den <= mean.num
    /\ \E v \in values : mean.num <= v * mean.den

\* The slice TrimmedStats::from_samples cuts out of n samples is inside the
\* vector (an index past its end panics and ends the fusion task) and not empty.
SliceInBounds(n) == 0 <= SliceStart(n) /\ SliceStart(n) < SliceEnd(n) /\ SliceEnd(n) <= n

\* robust_median: values that are not a majority cannot move the median out of
\* the range of the others, whatever they are and wherever they stand.
MedianRobust(values) ==
    \A liars \in SUBSET (DOMAIN values) :
        2 * Cardinality(liars) < Len(values) =>
            LET honest == DOMAIN values \ liars
            IN  /\ \E i \in honest : 2 * values[i] <= TwiceMedian(values)
                /\ \E i \in honest : TwiceMedian(values) <= 2 * values[i]

\* select_best_peers: the samples kept are the best of the list: none of the
\* dropped ones, each counted once, has a smaller score.
BestAreKept(samples) ==
    LET best == select_best_peers(samples)
        Count(x, list) == Cardinality({i \in DOMAIN list : list[i] = x})
    IN  /\ samples # <<>> => best # <<>>
        /\ \A i \in DOMAIN best : Count(best[i], best) <= Count(best[i], samples)
        /\ \A i \in DOMAIN samples, j \in DOMAIN best :
              peer_score(samples[i]) < peer_score(best[j]) =>
                  Count(samples[i], best) = Count(samples[i], samples)

\* TrimmedStats: as long as the liars among the samples are no more than what is
\* trimmed at each end, the fused offset stays in the range of the honest ones.
LiarsTrimmed(samples) ==
    LET n == Len(samples) IN
    2 * TrimCount(n) < n =>
        \A liars \in SUBSET (DOMAIN samples) :
            Cardinality(liars) <= TrimCount(n) =>
                Between(mean_offset(Kept(samples)),
                        {samples[i].offset : i \in DOMAIN samples \ liars})

\* The fused delay is a mean of the delays of the samples the offset comes from.
DelayOfKept(samples) ==
    samples # <<>> =>
        Between(mean_delay(Kept(samples)),
                {samples[i].delay :
                    i \in {j \in DOMAIN samples :
                              \E k \in DOMAIN Kept(samples) :
                                  Kept(samples)[k] = samples[j]}})
=============================================================================
