---------------------------- MODULE MCStatistics ----------------------------
(***************************************************************************)
(* Bounded inputs for Fuse, Drift, Slew, Telemetry and NtpTime: a list of  *)
(* values, of peer samples or of ring entries that grows by one element at *)
(* a time, so that every list up to its bound is a state, and a time that  *)
(* goes through an era of NTP and beyond.                                  *)
(***************************************************************************)
EXTENDS Fuse, Drift, Slew, Telemetry, NtpTime

CONSTANTS
    MaxValues, MaxPeers, MaxRing, MaxNs,
    Values,              \* of a series
    Offsets, Delays,     \* of a source
    Trust,               \* weight and jitter of a source
    Steps, RingOffsets   \* between the entries of the ring, and in them

ASSUME InputsAssumption ==
    /\ Values \subseteq Int /\ Offsets \subseteq Int /\ Delays \subseteq Int
    /\ Trust \subseteq [weight: Nat \ {0}, jitter: Int]
    /\ Steps \subseteq Nat /\ RingOffsets \subseteq Int

ATrimOfAThird == <<1, 3>>
AQuantile == <<3, 5>>
SomeValues == {-4, -1, 0, 2, 50}
SomeOffsets == {-3, 0, 40}
SomeDelays == {-2, 1}
SomeTrust == {[weight |-> 1, jitter |-> 0], [weight |-> 3, jitter |-> 1]}
ATick == {0, 10}
SomeRingOffsets == {-5, 0, 3}

VARIABLES values, peers, ring, ns
vars == <<values, peers, ring, ns>>

Init == values = <<>> /\ peers = <<>> /\ ring = <<>> /\ ns = 0

\* One more value of a series.
AddValue ==
    /\ peers = <<>> /\ ring = <<>> /\ ns = 0 /\ Len(values) < MaxValues
    /\ \E v \in Values : values' = Append(values, v)
    /\ UNCHANGED <<peers, ring, ns>>

\* One more source, with the medians of series of one value each.
AddPeer ==
    /\ values = <<>> /\ ring = <<>> /\ ns = 0 /\ Len(peers) < MaxPeers
    /\ \E o \in Offsets, d \in Delays, t \in Trust :
          peers' = Append(peers,
              from_series(Len(peers) + 1, t.weight, <<o>>, <<d>>, <<t.jitter>>))
    /\ UNCHANGED <<values, ring, ns>>

\* One more entry of the ring; its timestamps never go back.
Push ==
    /\ values = <<>> /\ peers = <<>> /\ ns = 0 /\ Len(ring) < MaxRing
    /\ \E step \in Steps, o \in RingOffsets :
          LET last == IF ring = <<>> THEN 0 ELSE ring[Len(ring)].t
          IN  ring' = Append(ring, [t |-> last + step, o |-> o])
    /\ UNCHANGED <<values, peers, ns>>

\* The next nanosecond.
Later ==
    /\ values = <<>> /\ peers = <<>> /\ ring = <<>> /\ ns < MaxNs
    /\ ns' = ns + 1
    /\ UNCHANGED <<values, peers, ring>>

Spec == Init /\ [][AddValue \/ AddPeer \/ Push \/ Later]_vars

\* robust_median withstands any minority of outliers.
MedianOfMajority == MedianRobust(values)
\* select_best_peers keeps the best, and never none.
SelectionKeepsBest == BestAreKept(peers)
\* TrimmedStats::from_samples is not moved by as many liars as it trims.
FusedDespiteLiars == peers # <<>> => LiarsTrimmed(peers)
\* TrimmedStats::from_samples averages the delays of the samples it keeps.
FusedDelayOfKept == DelayOfKept(peers)
\* TrimmedStats::from_samples stays inside the vector of the best peers.
SliceFits == peers # <<>> => SliceInBounds(Len(select_best_peers(peers)))
\* linreg_slope_ppm lies between the slopes of the pairs.
EstimateWithinPairs == SlopeWithinPairs(ring)
\* percentile agrees with robust_median on the middle, and its quantiles are ordered.
QuantilesAgree ==
    values # <<>> =>
        LET sorted == SortedBy(values, LAMBDA v : v)
            middle == percentile(sorted, Half)
            most == percentile(sorted, Most)
        IN  /\ 2 * middle.num = TwiceMedian(values) * middle.den
            /\ middle.num * most.den <= most.num * middle.den
            /\ most.num <= sorted[Len(sorted)] * most.den
\* slew::apply of what the ring gives never overshoots or changes sign.
CorrectionFits ==
    ring # <<>> => CorrectionWithin([num |-> ring[Len(ring)].o, den |-> 1],
                                    linreg_slope_ppm(ring))
\* decode_ntp_timestamp gives back what encode_ntp_timestamp was given.
StampsSurvive == StampSurvives(ns)
\* encode_ntp_timestamp in and after 2036.
StampsAreSome == StampIsSome(ns)
\* linreg_slope_ppm is what its comments say, parts per million.
EstimateInPpm == DriftInPpm(ring)
=============================================================================
