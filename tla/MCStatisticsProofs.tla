------------------------- MODULE MCStatisticsProofs -------------------------
(***************************************************************************)
(* What MCStatistics checks on small lists, for lists of any length over   *)
(* any integers, and for every time: the inputs keep their type, and over  *)
(* inputs of that type the properties are the theorems of the operators.   *)
(***************************************************************************)
EXTENDS MCStatistics, StatisticsProofs, NtpTimeProofs

\* What from_series makes.
Sample == [peer_id: Nat, peer_weight: Nat \ {0},
           offset: Int, delay: Int, jitter: Nat]
Entry == [t: Int, o: Int]

TypeOK ==
    /\ values \in Seq(Int)
    /\ peers \in Seq(Sample)
    /\ ring \in Seq(Entry)
    /\ ns \in Nat

\* Every sample is one a series makes.
LEMMA SampleSummaries == Summaries(Sample)
    BY DEF Summaries, Sample

\* The lists hold integers, samples and ring entries, and the time is a natural.
THEOREM StatisticsTyped == Spec => []TypeOK
  <1>1. Init => TypeOK  BY DEF Init, TypeOK
  <1>2. TypeOK /\ [AddValue \/ AddPeer \/ Push \/ Later]_vars => TypeOK'
    <2> SUFFICES ASSUME TypeOK, [AddValue \/ AddPeer \/ Push \/ Later]_vars
                 PROVE  TypeOK'
        OBVIOUS
    <2>1. CASE AddValue
      <3>1. PICK v \in Values : values' = Append(values, v)  BY <2>1 DEF AddValue
      <3>2. v \in Int  BY InputsAssumption
      <3>3. values' \in Seq(Int)  BY <3>1, <3>2 DEF TypeOK
      <3> QED  BY <2>1, <3>3 DEF AddValue, TypeOK
    <2>2. CASE AddPeer
      <3>1. PICK o \in Offsets, d \in Delays, c \in Trust :
                peers' = Append(peers, from_series(Len(peers) + 1, c.weight,
                                                   <<o>>, <<d>>, <<c.jitter>>))
            BY <2>2 DEF AddPeer
      <3> DEFINE s == from_series(Len(peers) + 1, c.weight, <<o>>, <<d>>, <<c.jitter>>)
      <3>2. /\ o \in Int /\ d \in Int
            /\ c.weight \in Nat \ {0} /\ c.jitter \in Int
            BY InputsAssumption
      <3>3. <<o>> \in Seq(Int) /\ <<d>> \in Seq(Int) /\ <<c.jitter>> \in Seq(Int)
            BY <3>2
      <3>4. Summaries({s})  BY <3>2, <3>3, SeriesSummary
      <3>5. /\ s.peer_weight \in Nat \ {0} /\ s.jitter \in Nat
            /\ s.offset \in Int /\ s.delay \in Int
        <4> HIDE DEF s
        <4> QED  BY <3>4 DEF Summaries
      <3>6. Len(peers) + 1 \in Nat  BY DEF TypeOK
      <3>7. s = [peer_id |-> s.peer_id, peer_weight |-> s.peer_weight,
                 offset |-> s.offset, delay |-> s.delay, jitter |-> s.jitter]
            /\ s.peer_id = Len(peers) + 1
            BY DEF from_series
      <3> HIDE DEF s
      <3>8. s \in Sample  BY <3>5, <3>6, <3>7 DEF Sample
      <3>9. peers' = Append(peers, s)  BY <3>1 DEF s
      <3>10. peers' \in Seq(Sample)  BY <3>8, <3>9 DEF TypeOK
      <3> QED  BY <2>2, <3>10 DEF AddPeer, TypeOK
    <2>3. CASE Push
      <3>1. PICK step \in Steps, o \in RingOffsets :
                ring' = Append(ring,
                    [t |-> (IF ring = <<>> THEN 0 ELSE ring[Len(ring)].t) + step,
                     o |-> o])
            BY <2>3 DEF Push
      <3> DEFINE last == IF ring = <<>> THEN 0 ELSE ring[Len(ring)].t
      <3>2. step \in Int /\ o \in Int  BY InputsAssumption
      <3>3. last \in Int
        <4>1. ring # <<>> => Len(ring) \in 1 .. Len(ring)  BY DEF TypeOK
        <4>2. ring # <<>> => ring[Len(ring)] \in Entry
          <5> HIDE DEF Entry
          <5> QED  BY <4>1 DEF TypeOK
        <4> QED  BY <4>2 DEF Entry
      <3>4. [t |-> last + step, o |-> o] \in Entry
        <4> HIDE DEF last
        <4> QED  BY <3>2, <3>3 DEF Entry
      <3>5. ring' = Append(ring, [t |-> last + step, o |-> o])  BY <3>1
      <3> HIDE DEF last
      <3>6. ring' \in Seq(Entry)
        <4> HIDE DEF Entry
        <4> QED  BY <3>4, <3>5 DEF TypeOK
      <3> QED  BY <2>3, <3>6 DEF Push, TypeOK
    <2>4. CASE Later  BY <2>4 DEF Later, TypeOK
    <2>5. CASE UNCHANGED vars  BY <2>5 DEF vars, TypeOK
    <2> QED  BY <2>1, <2>2, <2>3, <2>4, <2>5
  <1> QED  BY <1>1, <1>2, PTL DEF Spec
-----------------------------------------------------------------------------
\* robust_median: no minority of a series moves its median out of the others' range.
THEOREM MedianAlwaysOfMajority == Spec => []MedianOfMajority
  <1>1. TypeOK => MedianOfMajority
        BY EveryMedianRobust DEF TypeOK, MedianOfMajority
  <1> QED  BY <1>1, StatisticsTyped, PTL

\* select_best_peers: no sample it drops has a smaller score than one it keeps.
THEOREM SelectionAlwaysKeepsBest == Spec => []SelectionKeepsBest
  <1>1. TypeOK => SelectionKeepsBest
        BY SampleSummaries, EveryBestIsKept DEF TypeOK, SelectionKeepsBest
  <1> QED  BY <1>1, StatisticsTyped, PTL

\* TrimmedStats::from_samples: as many liars as it trims do not move the fused offset
\* out of the range of the others.
THEOREM FusedAlwaysDespiteLiars == Spec => []FusedDespiteLiars
  <1>1. TypeOK => FusedDespiteLiars
        BY SampleSummaries, EveryLiarTrimmed DEF TypeOK, FusedDespiteLiars
  <1> QED  BY <1>1, StatisticsTyped, PTL

\* TrimmedStats::from_samples: the fused delay is a mean of the samples kept, with
\* less than all of them trimmed.
THEOREM FusedDelayAlwaysOfKept ==
    ASSUME TrimRatio[1] < TrimRatio[2]
    PROVE  Spec => []FusedDelayOfKept
  <1>1. TypeOK => FusedDelayOfKept
        BY SampleSummaries, EveryDelayOfKept DEF TypeOK, FusedDelayOfKept
  <1> QED  BY <1>1, StatisticsTyped, PTL

\* TrimmedStats::from_samples: its slice stays inside the vector of the best peers and
\* is not empty, with less than all of them trimmed.
THEOREM SliceAlwaysFits ==
    ASSUME TrimRatio[1] < TrimRatio[2]
    PROVE  Spec => []SliceFits
  <1>1. ASSUME TypeOK, peers # <<>>
        PROVE  SliceInBounds(Len(select_best_peers(peers)))
    <2> DEFINE n == Len(peers)
               k == AtMost(KeepCount(n), n)
    <2>1. peers \in Seq(Sample)  BY <1>1 DEF TypeOK
    <2>2. /\ k \in 0 .. n /\ (n # 0 => k # 0)
          /\ Len(select_best_peers(peers)) = k
          BY <2>1, SampleSummaries, BestSamples
    <2>3. n \in Nat /\ n # 0  BY <1>1, <2>1
    <2> HIDE DEF k, n
    <2>4. k \in Nat \ {0}  BY <2>2, <2>3
    <2> QED  BY <2>2, <2>4, SliceStaysInBounds
  <1>2. TypeOK => SliceFits  BY <1>1 DEF SliceFits
  <1> QED  BY <1>2, StatisticsTyped, PTL

\* linreg_slope_ppm: the estimate is never steeper or flatter than all pairs of entries.
THEOREM EstimateAlwaysWithinPairs == Spec => []EstimateWithinPairs
  <1>1. TypeOK => EstimateWithinPairs
        BY EverySlopeWithinPairs DEF TypeOK, Entry, EstimateWithinPairs
  <1> QED  BY <1>1, StatisticsTyped, PTL

\* percentile: the median of /metrics is robust_median's, and its quantiles are ordered.
THEOREM QuantilesAlwaysAgree == Spec => []QuantilesAgree
  <1>1. ASSUME TypeOK, values # <<>>
        PROVE  LET sorted == SortedBy(values, LAMBDA v : v)
                   middle == percentile(sorted, Half)
                   most == percentile(sorted, Most)
               IN  /\ 2 * middle.num = TwiceMedian(values) * middle.den
                   /\ middle.num * most.den <= most.num * middle.den
                   /\ most.num <= sorted[Len(sorted)] * most.den
    <2>1. values \in Seq(Int)  BY <1>1 DEF TypeOK
    <2> QED  BY <1>1, <2>1, EveryQuantileAgrees
  <1>2. TypeOK => QuantilesAgree  BY <1>1 DEF QuantilesAgree
  <1> QED  BY <1>2, StatisticsTyped, PTL

\* slew::apply: what it makes of the newest entry and of the drift of the ring has
\* their signs, exceeds neither them nor its limits, and falls short by less than a unit.
THEOREM CorrectionAlwaysFits == Spec => []CorrectionFits
  <1>1. ASSUME TypeOK, ring # <<>>
        PROVE  CorrectionWithin([num |-> ring[Len(ring)].o, den |-> 1],
                                linreg_slope_ppm(ring))
    <2> DEFINE drift == linreg_slope_ppm(ring)
               offset == [num |-> ring[Len(ring)].o, den |-> 1]
    <2>1. ring \in Seq([t: Int, o: Int])  BY <1>1 DEF TypeOK, Entry
    <2>2. drift \in [num: Int, den: Nat \ {0}]  BY <2>1, SlopeType
    <2>3. Len(ring) \in 1 .. Len(ring)  BY <1>1, <2>1
    <2>4. ring[Len(ring)] \in Entry
      <3> HIDE DEF Entry
      <3> QED  BY <1>1, <2>3 DEF TypeOK
    <2>5. offset \in [num: Int, den: Nat \ {0}]  BY <2>4 DEF Entry
    <2> HIDE DEF offset, drift
    <2>6. CorrectionWithin(offset, drift)  BY <2>2, <2>5, EveryCorrectionWithin
    <2> QED  BY <2>6 DEF offset, drift
  <1>2. TypeOK => CorrectionFits  BY <1>1 DEF CorrectionFits
  <1> QED  BY <1>2, StatisticsTyped, PTL

\* encode_ntp_timestamp, decode_ntp_timestamp: what comes back of a time of the era.
THEOREM StampsAlwaysSurvive == Spec => []StampsSurvive
  <1>1. TypeOK => StampsSurvive  BY EveryStampSurvives DEF TypeOK, StampsSurvive
  <1> QED  BY <1>1, StatisticsTyped, PTL

\* encode_ntp_timestamp: no time becomes the stamp for no time, also beyond 2036.
THEOREM StampsAlwaysAreSome == Spec => []StampsAreSome
  <1>1. TypeOK => StampsAreSome  BY EveryStampIsSome DEF TypeOK, StampsAreSome
  <1> QED  BY <1>1, StatisticsTyped, PTL
=============================================================================
