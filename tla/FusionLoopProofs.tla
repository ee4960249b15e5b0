-------------------------- MODULE FusionLoopProofs --------------------------
(***************************************************************************)
(* Theorems about the fusion loop, for every configuration and number of   *)
(* sources, samples, iterations and restarts, and whatever the store       *)
(* loses.                                                                  *)
(***************************************************************************)
EXTENDS FusionLoop, StatisticsProofs, SequenceTheorems

Pc == {"wait", "offset", "delay", "jitter", "publish", "phc", "summary"}
Writing(w) == [key: KeysOf(w), next: Fields \cup {"summary"},
               ts: Int, n: Nat, offset: Int, delay: Int, jitter: Int]

\* Sets of entries as ts_add builds them.
Series == {S \in SUBSET Entry : IsFiniteSet(S)}

StoreInv ==
    /\ now \in Nat /\ stored \in Nat
    /\ series \in [Keys -> [Fields -> Series]]
    /\ DOMAIN writing = Writers /\ \A w \in Writers : writing[w] \subseteq Writing(w)
    /\ DOMAIN summary = HashKeys
    /\ \A k \in HashKeys : \A g, h \in summary[k] : g = h

IsSeq(seq) == \E S : seq \in Seq(S)

LoopInv ==
    /\ due \in Nat /\ started \in Nat /\ restarts \in 0 .. MaxRestarts
    /\ fpc \in Pc /\ at \in Nat
    /\ fpc \in {"delay", "jitter"} => at \in DOMAIN Sources
    /\ got \in [Fields -> Series] /\ \A f \in Fields : Cardinality(got[f]) <= Limit
    /\ IsSeq(samples)
    /\ Len(samples) < at
    /\ \A i \in DOMAIN samples : samples[i].used \in [Fields -> Series]
    /\ \A u, v \in ewma : u = v
    /\ \A u, v \in corrected : u = v
    /\ cut \in BOOLEAN

TypeInv == StoreInv /\ LoopInv

\* The constants, as far as the proofs need them.
LEMMA Constants ==
    /\ Limit \in Nat \ {0} /\ Window \in Nat /\ Lead \in Int
    /\ Period \in Nat \ {0} /\ RingMax \in Nat \ {0} /\ Fresh \in Nat
    /\ MaxTime \in Nat /\ MaxRestarts \in Nat
    /\ Offsets \subseteq Int /\ Delays \subseteq Int /\ Jitters \subseteq Int
    BY FusionAssumption

\* The empty sequence.
LEMMA Empty == IsSeq(<<>>) /\ Len(<<>>) = 0
    BY EmptySeq DEF IsSeq

\* ts_add: what is written to a series is one more entry.
LEMMA AddType ==
    ASSUME NEW set \in Series, NEW e \in Entry, NEW window, NEW outcome
    PROVE  /\ ts_add(set, e, window, outcome) \in Series
           /\ ts_add(set, e, window, outcome) \subseteq set \cup {e}
  <1>1. set \cup {e} \in Series  BY FS_AddElement DEF Series
  <1>2. ts_add(set, e, window, outcome) \subseteq set \cup {e}  BY DEF ts_add
  <1> QED  BY <1>1, <1>2, FS_Subset DEF Series

\* ts_recent: what is read of a series.
LEMMA RecentType ==
    ASSUME NEW set \in Series, NEW from \in Int, NEW limit \in Nat,
           NEW R \in ts_recent(set, from, limit)
    PROVE  /\ R \in Series /\ R \subseteq set /\ Cardinality(R) <= limit
           /\ \A e \in R : e.ts >= from
  <1> DEFINE E == {x \in set : x.ts >= from}
  <1>1. R \subseteq E /\ Cardinality(R) = AtMost(limit, Cardinality(E))
        BY DEF ts_recent
  <1>2. E \subseteq set /\ IsFiniteSet(E)  BY FS_Subset DEF Series
  <1>3. Cardinality(E) \in Nat  BY <1>2, FS_CardinalityType
  <1>4. Cardinality(R) <= limit  BY <1>1, <1>3 DEF AtMost
  <1>5. R \in Series  BY <1>1, <1>2, FS_Subset DEF Series
  <1> QED  BY <1>1, <1>4, <1>5

\* The process and an empty store start with the right types.
LEMMA TypeInit == Init => TypeInv
  <1> SUFFICES ASSUME Init PROVE TypeInv  OBVIOUS
  <1>1. {} \in Series /\ Cardinality({}) = 0
        BY FS_EmptySet DEF Series
  <1>2. NoReading \in [Fields -> Series] /\ \A f \in Fields : Cardinality(NoReading[f]) <= Limit
        BY <1>1, Constants DEF NoReading, Fields
  <1>3. StoreInv
        BY <1>1 DEF Init, StoreInv
  <1>4. LoopInv
    <2>1. IsSeq(samples)  BY Empty DEF Init
    <2>2. cut \in BOOLEAN  BY Zenon DEF Init
    <2> QED  BY <1>2, <2>1, <2>2, Constants DEF Init, LoopInv, Pc
  <1> QED  BY <1>3, <1>4 DEF TypeInv

\* The tasks that measure, and the summaries of the loop, keep the types of the store.
LEMMA StoreStep ==
    ASSUME StoreInv, [Next]_vars
    PROVE  StoreInv'
  <1> USE DEF StoreInv
  <1>1. CASE UNCHANGED <<now, storeVars>>
        BY <1>1 DEF storeVars
  <1>2. CASE Advance
        BY <1>2 DEF Advance, storeVars
  <1>3. CASE Restart
        BY <1>3 DEF Restart
  <1>4. ASSUME NEW w \in Writers, Measure(w)
        PROVE  StoreInv'
    <2>1. PICK k \in KeysOf(w), o \in Offsets, d \in Delays, j \in Jitters :
             writing' = [writing EXCEPT ![w] =
                {[key |-> k, next |-> "offset", ts |-> now + Lead, n |-> stored,
                  offset |-> o, delay |-> d, jitter |-> j]}]
          BY <1>4 DEF Measure
    <2> DEFINE x == [key |-> k, next |-> "offset", ts |-> now + Lead, n |-> stored,
                     offset |-> o, delay |-> d, jitter |-> j]
    <2>2. x \in Writing(w)
          BY Constants DEF Writing, Fields
    <2>3. writing' = [writing EXCEPT ![w] = {x}]  BY <2>1
    <2> HIDE DEF x
    <2>4. UNCHANGED <<now, series, summary>> /\ stored' \in Nat  BY <1>4 DEF Measure
    <2> QED  BY <2>2, <2>3, <2>4
  <1>5. ASSUME NEW w \in Writers, WriteField(w)
        PROVE  StoreInv'
    <2>1. PICK x \in writing[w], outcome \in Outcomes :
             /\ x.next \in Fields
             /\ series' = [series EXCEPT ![x.key] = [series[x.key] EXCEPT ![x.next] =
                   ts_add(series[x.key][x.next], [ts |-> x.ts, val |-> x[x.next], n |-> x.n],
                          WindowOf(w), outcome)]]
             /\ writing' = [writing EXCEPT ![w] = NextField(x)]
          BY <1>5 DEF WriteField
    <2> DEFINE e == [ts |-> x.ts, val |-> x[x.next], n |-> x.n]
    <2>2. e \in Entry
      <3>1. x \in Writing(w)  OBVIOUS
      <3>2. x[x.next] \in Int
            BY <2>1, <3>1 DEF Writing, Fields
      <3> QED  BY <3>1, <3>2 DEF Writing, Entry
    <2> HIDE DEF e
    <2>3. series' \in [Keys -> [Fields -> Series]]
      <3> DEFINE new == [series[x.key] EXCEPT ![x.next] =
                            ts_add(series[x.key][x.next], e, WindowOf(w), outcome)]
      <3>1. series' = [series EXCEPT ![x.key] = new]  BY <2>1 DEF e
      <3>2. CASE x.key \in Keys
        <4>1. series[x.key] \in [Fields -> Series]  BY <3>2
        <4>2. ts_add(series[x.key][x.next], e, WindowOf(w), outcome) \in Series
              BY <2>1, <2>2, <4>1, AddType
        <4>3. new \in [Fields -> Series]  BY <2>1, <4>1, <4>2
        <4> HIDE DEF new
        <4> QED  BY <3>1, <4>3
      <3>3. CASE x.key \notin Keys
        <4> HIDE DEF new
        <4> QED  BY <3>1, <3>3, ZenonT(60)
      <3> QED  BY <3>2, <3>3
    <2>4. NextField(x) \subseteq Writing(w)
      <3>1. x \in Writing(w)  OBVIOUS
      <3> QED  BY <3>1 DEF Writing, Fields, NextField
    <2>5. UNCHANGED <<now, stored, summary>>  BY <1>5 DEF WriteField
    <2> QED  BY <2>1, <2>3, <2>4, <2>5
  <1>6. ASSUME NEW w \in Writers, WriteSummary(w)
        PROVE  StoreInv'
    <2>1. PICK x, h : /\ \/ summary' = [summary EXCEPT ![x] = {h}]
                         \/ summary' = [summary EXCEPT ![x] = summary[x]]
                      /\ writing' = [writing EXCEPT ![w] = {}]
          BY <1>6 DEF WriteSummary, hm_set
    <2>2. \A k \in HashKeys : summary'[k] \in {{h}, summary[k]}  BY <2>1
    <2>3. UNCHANGED <<now, stored, series>>  BY <1>6 DEF WriteSummary
    <2> QED  BY <2>1, <2>2, <2>3
  <1>7. CASE SummarizeSource
    <2>1. PICK x, h : \/ summary' = [summary EXCEPT ![x] = {h}]
                      \/ summary' = [summary EXCEPT ![x] = summary[x]]
          BY <1>7 DEF SummarizeSource, hm_set
    <2>2. \A k \in HashKeys : summary'[k] \in {{h}, summary[k]}  BY <2>1
    <2>3. UNCHANGED <<now, stored, series, writing>>  BY <1>7 DEF SummarizeSource
    <2> QED  BY <2>1, <2>2, <2>3
  <1>8. CASE Iterate /\ ~ SummarizeSource
        BY <1>1, <1>8 DEF Iterate, Tick, ReadOffset, ReadDelay, ReadJitter, ReadFails,
            NothingToFuse, PushEwma, Publish, ReadPhc, SummarizeFused
  <1>9. CASE UNCHANGED vars
        BY <1>1, <1>9 DEF vars
  <1> QED  BY <1>2, <1>3, <1>4, <1>5, <1>6, <1>7, <1>8, <1>9 DEF Next, Write

\* What an iteration reads of a series.
LEMMA ReadingType ==
    ASSUME StoreInv, started \in Nat, at \in DOMAIN Sources, NEW f \in Fields,
           NEW R \in Reading(f)
    PROVE  /\ R \in Series /\ Cardinality(R) <= Limit
           /\ R \subseteq series[Sources[at].key][f]
           /\ \A e \in R : e.ts \in Int /\ started - e.ts <= Window
  <1>1. Sources[at].key \in Keys  BY DEF Keys
  <1>2. series[Sources[at].key][f] \in Series  BY <1>1 DEF StoreInv
  <1>3. since \in Int /\ started - since <= Window
        BY Constants DEF since, AtLeast
  <1>4. /\ R \in Series /\ R \subseteq series[Sources[at].key][f] /\ Cardinality(R) <= Limit
        /\ \A e \in R : e.ts >= since
    <2> DEFINE set == series[Sources[at].key][f]
    <2>1. set \in Series  BY <1>2
    <2>2. R \in ts_recent(set, since, Limit)  BY DEF Reading
    <2>3. Limit \in Nat  BY Constants
    <2> HIDE DEF set
    <2>4. /\ R \in Series /\ R \subseteq set /\ Cardinality(R) <= Limit
          /\ \A e \in R : e.ts >= since
          BY <1>3, <2>1, <2>2, <2>3, RecentType
    <2> QED  BY <2>4 DEF set
  <1>5. \A e \in R : e.ts \in Int  BY <1>4 DEF Series, Entry
  <1>6. \A e \in R : started - e.ts <= Window  BY <1>3, <1>4, <1>5, Constants
  <1> QED  BY <1>4, <1>5, <1>6

\* Nothing read yet.
LEMMA NoReadingType ==
    /\ NoReading \in [Fields -> Series]
    /\ \A f \in Fields : NoReading[f] = {} /\ Cardinality(NoReading[f]) <= Limit
  <1>1. {} \in Series /\ Cardinality({}) = 0  BY FS_EmptySet DEF Series
  <1> QED  BY <1>1, Constants DEF NoReading, Fields

\* A sequence with one more element.
LEMMA Longer ==
    ASSUME NEW seq, NEW x, IsSeq(seq)
    PROVE  /\ IsSeq(Append(seq, x))
           /\ Len(seq) \in Nat /\ DOMAIN seq = 1 .. Len(seq)
           /\ Len(Append(seq, x)) = Len(seq) + 1
           /\ DOMAIN Append(seq, x) = 1 .. Len(seq) + 1
           /\ Append(seq, x)[Len(seq) + 1] = x
           /\ \A i \in DOMAIN seq : Append(seq, x)[i] = seq[i]
  <1>1. PICK S : seq \in Seq(S)  BY DEF IsSeq
  <1> DEFINE T == S \cup {x}
  <1>2. seq \in Seq(T) /\ x \in T  BY <1>1
  <1> HIDE DEF T
  <1>3. Append(seq, x) \in Seq(T)  BY <1>2
  <1> QED  BY <1>2, <1>3 DEF IsSeq

\* All but the first of a sequence.
LEMMA Shorter ==
    ASSUME NEW seq, IsSeq(seq), seq # <<>>
    PROVE  /\ IsSeq(Tail(seq))
           /\ Len(seq) \in Nat /\ Len(Tail(seq)) = Len(seq) - 1
           /\ DOMAIN seq = 1 .. Len(seq)
           /\ \A i \in DOMAIN Tail(seq) : i + 1 \in DOMAIN seq /\ Tail(seq)[i] = seq[i + 1]
  <1>1. PICK S : seq \in Seq(S)  BY DEF IsSeq
  <1>2. Tail(seq) \in Seq(S)  BY <1>1
  <1> QED  BY <1>1, <1>2 DEF IsSeq


\* Every step of the loop keeps the types of what it works on.
LEMMA LoopStep ==
    ASSUME TypeInv, [Next]_vars
    PROVE  LoopInv'
  <1> DEFINE loopVars == <<due, started, restarts, fpc, at, got, samples, ewma, corrected,
                       cut>>
  <1> USE DEF LoopInv, TypeInv
  <1>1. CASE UNCHANGED loopVars
        BY <1>1
  <1>2. CASE Restart
    <2>1. restarts' \in 0 .. MaxRestarts /\ due' \in Nat /\ started' \in Nat
          BY <1>2, Constants DEF Restart, StoreInv
    <2>2. /\ fpc' = "wait" /\ at' = 1 /\ got' = NoReading /\ samples' = <<>>
          /\ ewma' = {} /\ UNCHANGED corrected
          BY <1>2 DEF Restart
    <2>3. cut' \in BOOLEAN  BY <1>2, Zenon DEF Restart
    <2> QED  BY <2>1, <2>2, <2>3, NoReadingType, Empty DEF Pc
  <1>3. CASE Tick
    <2>1. due' \in Nat /\ started' \in Nat /\ UNCHANGED <<restarts, ewma, corrected, cut>>
          BY <1>3, Constants DEF Tick, StoreInv, outVars, valueVars
    <2>2. fpc' = "offset" /\ at' = 1 /\ got' = NoReading /\ samples' = <<>>
          BY <1>3 DEF Tick
    <2> QED  BY <2>1, <2>2, NoReadingType, Empty DEF Pc
  <1>4. CASE ReadOffset
    <2>1. PICK R \in Reading("offset") :
             IF Cardinality(R) < Limit
             THEN at' = at + 1 /\ UNCHANGED <<got, fpc>>
             ELSE got' = [NoReading EXCEPT !.offset = R] /\ fpc' = "delay" /\ at' = at
          BY <1>4 DEF ReadOffset
    <2>2. R \in Series /\ Cardinality(R) <= Limit
          BY <1>4, ReadingType DEF ReadOffset, Fields
    <2>3. /\ UNCHANGED <<due, started, restarts, samples, ewma, corrected, cut>>
          /\ fpc = "offset" /\ at \in DOMAIN Sources
          BY <1>4 DEF ReadOffset, outVars, valueVars
    <2>4. CASE Cardinality(R) < Limit
      <3>1. Len(samples) < at + 1  BY Longer
      <3> QED  BY <2>1, <2>3, <2>4, <3>1 DEF Pc
    <2>5. CASE ~ (Cardinality(R) < Limit)
      <3>1. got' = [NoReading EXCEPT !.offset = R] /\ fpc' = "delay" /\ at' = at
            BY <2>1, <2>5
      <3>2. got' \in [Fields -> Series] /\ \A f \in Fields : Cardinality(got'[f]) <= Limit
            BY <2>2, <3>1, NoReadingType DEF Fields
      <3> QED  BY <2>3, <3>1, <3>2 DEF Pc
    <2> QED  BY <2>4, <2>5
  <1>5. CASE ReadDelay
    <2>1. fpc = "delay" /\ at \in DOMAIN Sources  BY <1>5 DEF ReadDelay
    <2>2. PICK R \in Reading("delay") : got' = [got EXCEPT !.delay = R]
          BY <1>5 DEF ReadDelay
    <2>3. R \in Series /\ Cardinality(R) <= Limit
          BY <2>1, ReadingType DEF Fields
    <2>4. got' \in [Fields -> Series] /\ \A f \in Fields : Cardinality(got'[f]) <= Limit
          BY <2>2, <2>3 DEF Fields
    <2>5. fpc' = "jitter" /\ UNCHANGED <<due, started, restarts, at, samples, ewma, corrected, cut>>
          BY <1>5 DEF ReadDelay, outVars, valueVars
    <2> QED  BY <2>1, <2>4, <2>5 DEF Pc
  <1>6. CASE ReadJitter
    <2>1. fpc = "jitter" /\ at \in DOMAIN Sources  BY <1>6 DEF ReadJitter
    <2>2. PICK R \in Reading("jitter") :
             \E stats : samples' = Append(samples,
                           [stats |-> stats, used |-> [got EXCEPT !.jitter = R]])
          BY <1>6 DEF ReadJitter
    <2>3. PICK x : samples' = Append(samples, x) /\ x.used = [got EXCEPT !.jitter = R]
          BY <2>2
    <2>4. R \in Series  BY <2>1, ReadingType DEF Fields
    <2>5. x.used \in [Fields -> Series]  BY <2>3, <2>4 DEF Fields
    <2>6. /\ IsSeq(samples')
          /\ Len(samples') = Len(samples) + 1 /\ Len(samples) \in Nat
          /\ \A i \in DOMAIN samples' : samples'[i].used \in [Fields -> Series]
      <3>1. IsSeq(samples) /\ samples' = Append(samples, x)  BY <2>3
      <3> DEFINE n == Len(samples)
      <3>2. /\ IsSeq(samples') /\ Len(samples') = n + 1 /\ n \in Nat
            /\ DOMAIN samples' = 1 .. n + 1 /\ DOMAIN samples = 1 .. n
            /\ samples'[n + 1] = x
            /\ \A i \in DOMAIN samples : samples'[i] = samples[i]
            BY <3>1, Longer
      <3> QED  BY <2>5, <3>2
    <2>7. /\ got' = NoReading /\ at' = at + 1 /\ fpc' = "offset"
          /\ UNCHANGED <<due, started, restarts, ewma, corrected, cut>>
          BY <1>6 DEF ReadJitter, outVars, valueVars
    <2> QED  BY <2>6, <2>7, NoReadingType DEF Pc
  <1>7. CASE ReadFails
    <2>1. fpc' = "wait" /\ samples' = <<>> /\ got' = NoReading
          /\ UNCHANGED <<due, started, restarts, at, ewma, corrected, cut>>
          BY <1>7 DEF ReadFails, outVars, valueVars
    <2>2. Len(samples') < at  BY <2>1, Longer
    <2> QED  BY <2>1, <2>2, NoReadingType, Empty DEF Pc
  <1>8. CASE NothingToFuse
        BY <1>8 DEF NothingToFuse, outVars, valueVars, Pc
  <1>9. CASE PushEwma
    <2>1. PICK v : ewma' = {v}  BY <1>9 DEF PushEwma
    <2> QED  BY <1>9, <2>1 DEF PushEwma, Pc
  <1>10. CASE Publish
    <2>1. \A u, v \in corrected' : u = v  BY <1>10 DEF Publish
    <2> QED  BY <1>10, <2>1 DEF Publish, Pc
  <1>11. CASE ReadPhc
    <2>1. /\ fpc' \in {"summary", "wait"} /\ (samples' = samples \/ samples' = <<>>)
          /\ UNCHANGED <<due, started, restarts, at, got, ewma, corrected>> /\ cut' \in BOOLEAN
          BY <1>11 DEF ReadPhc, valueVars
    <2>3. Len(samples) \in Nat /\ Len(<<>>) = 0  BY Longer
    <2>2. Len(<<>>) < at  BY <2>3
    <2>4. IsSeq(samples')  BY <2>1, Empty
    <2> QED  BY <2>1, <2>2, <2>4 DEF Pc
  <1>12. CASE SummarizeSource
    <2>1. /\ samples # <<>> /\ samples' = Tail(samples)
          /\ UNCHANGED <<due, started, restarts, fpc, at, got, ewma, corrected, cut>>
          BY <1>12 DEF SummarizeSource, outVars, valueVars
    <2>2. /\ IsSeq(samples')
          /\ Len(samples') < at
          /\ \A i \in DOMAIN samples' : samples'[i].used \in [Fields -> Series]
          BY <2>1, Shorter
    <2> QED  BY <2>1, <2>2
  <1>13. CASE SummarizeFused
        BY <1>13 DEF SummarizeFused, Pc
  <1>14. UNCHANGED loopVars \/ Restart \/ Iterate
        BY DEF Next, Advance, Measure, Write, WriteField, WriteSummary, vars, outVars, valueVars
  <1> QED  BY <1>1, <1>2, <1>3, <1>4, <1>5, <1>6, <1>7, <1>8, <1>9, <1>10, <1>11, <1>12,
            <1>13, <1>14 DEF Iterate

\* The types, of every behaviour.
LEMMA Typed == Spec => []TypeInv
  <1>1. TypeInv /\ [Next]_vars => TypeInv'
        BY StoreStep, LoopStep DEF TypeInv
  <1> QED  BY <1>1, TypeInit, PTL DEF Spec

\* A set of which any two elements are equal.
LEMMA AtMostOne ==
    ASSUME NEW S, \A u, v \in S : u = v
    PROVE  Cardinality(S) <= 1
  <1>1. CASE S = {}  BY <1>1, FS_EmptySet
  <1>2. ASSUME NEW u \in S PROVE Cardinality(S) = 1
    <2>1. S = {u}  OBVIOUS
    <2> QED  BY <2>1, FS_Singleton
  <1> QED  BY <1>1, <1>2

\* The types, for every configuration: what an iteration reads of a series never
\* exceeds the limit, and it never looks at a source that is not there.
THEOREM TypeCorrect == Spec => []TypeOK
  <1>1. TypeInv => TypeOK
    <2> SUFFICES ASSUME TypeInv PROVE TypeOK  OBVIOUS
    <2> USE DEF TypeInv, StoreInv, LoopInv
    <2>1. \A k \in Keys, f \in Fields : series[k][f] \subseteq Entry
      <3>1. \A k \in Keys, f \in Fields : series[k][f] \in Series  OBVIOUS
      <3> QED  BY <3>1 DEF Series
    <2>2. \A w \in Writers : \A x \in writing[w] :
             /\ x.key \in KeysOf(w)
             /\ x.next \in Fields \cup {"summary"}
          BY DEF Writing
    <2>3. \A k \in HashKeys : Cardinality(summary[k]) <= 1  BY AtMostOne
    <2>4. \A f \in Fields : got[f] \subseteq Entry /\ Cardinality(got[f]) <= Limit
          BY DEF Series
    <2>5. Cardinality(ewma) <= 1 /\ Cardinality(corrected) <= 1  BY AtMostOne
    <2> QED  BY <2>1, <2>2, <2>3, <2>4, <2>5 DEF TypeOK, Pc
  <1> QED  BY <1>1, Typed, PTL
-----------------------------------------------------------------------------
\* What an iteration has read is no older than its window, against the clock it is
\* stamped with.
InWindow(used) == \A f \in Fields : \A e \in used[f] : started - e.ts <= Window
Recent ==
    /\ InWindow(got)
    /\ \A i \in DOMAIN samples : InWindow(samples[i].used)

\* Every step keeps what is read within the window.
LEMMA RecentStep == TypeInv /\ Recent /\ [Next]_vars => Recent'
  <1> SUFFICES ASSUME TypeInv, Recent, [Next]_vars PROVE Recent'  OBVIOUS
  <1> USE DEF Recent, InWindow
  <1>0. /\ StoreInv /\ started \in Nat /\ IsSeq(samples)
        /\ fpc \in {"delay", "jitter"} => at \in DOMAIN Sources
        /\ got \in [Fields -> Series]
        /\ \A i \in DOMAIN samples : samples[i].used \in [Fields -> Series]
        BY DEF TypeInv, LoopInv
  <1>1. \A f \in Fields : NoReading[f] = {}  BY NoReadingType
  <1>2. CASE UNCHANGED <<started, got, samples>>
        BY <1>2
  <1>3. CASE got' = NoReading /\ samples' = <<>>
        BY <1>1, <1>3
  <1>4. CASE ReadOffset
    <2>1. PICK R \in Reading("offset") :
             got' = got \/ got' = [NoReading EXCEPT !.offset = R]
          BY <1>4 DEF ReadOffset
    <2>2. \A e \in R : started - e.ts <= Window
          BY <1>0, <1>4, ReadingType DEF ReadOffset, Fields
    <2>3. \A f \in Fields : \A e \in got'[f] : started - e.ts <= Window
      <3>1. CASE got' = got  BY <3>1
      <3>2. CASE got' = [NoReading EXCEPT !.offset = R]
            BY <1>1, <2>2, <3>2, NoReadingType DEF Fields
      <3> QED  BY <2>1, <3>1, <3>2
    <2> QED  BY <1>4, <2>3 DEF ReadOffset
  <1>5. CASE ReadDelay
    <2>1. PICK R \in Reading("delay") : got' = [got EXCEPT !.delay = R]
          BY <1>5 DEF ReadDelay
    <2>2. \A e \in R : started - e.ts <= Window
          BY <1>0, <1>5, ReadingType DEF ReadDelay, Fields
    <2>3. \A f \in Fields : \A e \in got'[f] : started - e.ts <= Window
          BY <1>0, <2>1, <2>2 DEF Fields
    <2> QED  BY <1>5, <2>3 DEF ReadDelay
  <1>6. CASE ReadJitter
    <2>1. PICK R \in Reading("jitter") :
             \E stats : samples' = Append(samples,
                           [stats |-> stats, used |-> [got EXCEPT !.jitter = R]])
          BY <1>6 DEF ReadJitter
    <2>2. PICK x : samples' = Append(samples, x) /\ x.used = [got EXCEPT !.jitter = R]
          BY <2>1
    <2>3. \A e \in R : started - e.ts <= Window
          BY <1>0, <1>6, ReadingType DEF ReadJitter, Fields
    <2>4. \A f \in Fields : \A e \in x.used[f] : started - e.ts <= Window
          BY <1>0, <2>2, <2>3 DEF Fields
    <2> DEFINE n == Len(samples)
    <2>5. /\ n \in Nat /\ DOMAIN samples' = 1 .. n + 1 /\ DOMAIN samples = 1 .. n
          /\ samples'[n + 1] = x
          /\ \A i \in DOMAIN samples : samples'[i] = samples[i]
          BY <1>0, <2>2, Longer
    <2> HIDE DEF n
    <2>6. \A i \in DOMAIN samples' : \A f \in Fields : \A e \in samples'[i].used[f] :
             started - e.ts <= Window
          BY <2>4, <2>5
    <2>7. got' = NoReading /\ UNCHANGED started  BY <1>6 DEF ReadJitter
    <2> QED  BY <1>1, <2>6, <2>7
  <1>7. CASE ReadPhc
    <2>1. UNCHANGED <<started, got>> /\ (samples' = samples \/ samples' = <<>>)
          BY <1>7 DEF ReadPhc
    <2> QED  BY <2>1
  <1>8. CASE SummarizeSource
    <2>1. samples # <<>> /\ samples' = Tail(samples) /\ UNCHANGED <<started, got>>
          BY <1>8 DEF SummarizeSource
    <2>2. \A i \in DOMAIN samples' :
             i + 1 \in DOMAIN samples /\ samples'[i] = samples[i + 1]
          BY <1>0, <2>1, Shorter
    <2> QED  BY <2>1, <2>2
  <1>9. \/ UNCHANGED <<started, got, samples>>
        \/ got' = NoReading /\ samples' = <<>>
        \/ ReadOffset \/ ReadDelay \/ ReadJitter \/ ReadPhc \/ SummarizeSource
        BY DEF Next, Iterate, Advance, Restart, Measure, Write, WriteField, WriteSummary,
            Tick, ReadFails, NothingToFuse, PushEwma, Publish, SummarizeFused, vars
  <1> QED  BY <1>2, <1>3, <1>4, <1>5, <1>6, <1>7, <1>8, <1>9

\* The window, of every behaviour.
LEMMA RecentInvariant == Spec => [](TypeInv /\ Recent)
  <1>1. Init => Recent
    <2> SUFFICES ASSUME Init PROVE Recent  OBVIOUS
    <2> QED  BY NoReadingType DEF Init, Recent, InWindow
  <1> QED  BY <1>1, RecentStep, Typed, PTL DEF Spec

\* run_fusion_iteration: nothing older than the window is fused, for every window and
\* loss, as long as the clock of the samples is not ahead of the loop's (of a PHC
\* or CLOCK_TAI, which are, the stale run shows the opposite).
THEOREM WindowIsHonoured ==
    ASSUME Lead <= 0
    PROVE  Spec => []WindowHonoured
  <1>1. TypeInv /\ Recent => WindowHonoured
    <2> SUFFICES ASSUME TypeInv, Recent, NEW i \in DOMAIN samples, NEW f \in Fields,
                        NEW e \in samples[i].used[f]
                 PROVE  started - (e.ts - Lead) <= Window
        BY DEF WindowHonoured, Gathered, UsedOf
    <2>1. started - e.ts <= Window  BY DEF Recent, InWindow
    <2>2. e.ts \in Int /\ started \in Nat
          BY DEF TypeInv, LoopInv, Series, Entry
    <2> QED  BY <2>1, <2>2, Constants
  <1> QED  BY <1>1, RecentInvariant, PTL
-----------------------------------------------------------------------------
\* The ring: short, in order of time, and not ahead of the clock.
RingInv ==
    /\ ring \in Seq([t: Nat, o: Int]) /\ Len(ring) <= RingMax
    /\ \A i \in DOMAIN ring : ring[i].t <= now
    /\ \A i, j \in DOMAIN ring : i < j => ring[i].t <= ring[j].t

\* What OutputsAgree says of the ring, and what of the summary, which is written later;
\* each holds but for the time between the update of the state and its own.
RingAgrees ==
    /\ ring = <<>> <=> ewma = {}
    /\ \A v \in ewma : ring[Len(ring)].o = Whole(v)
    /\ \A e \in fusedEwma : ewma # {} => e.ts <= ring[Len(ring)].t
    /\ ~ StoreFails /\ ewma # {} => {e.val : e \in fusedEwma} = ewma
SummaryAgrees == ~ StoreFails /\ ~ cut /\ ewma # {} => fusedSummary = ewma

OutInv ==
    /\ RingInv
    /\ ewma \subseteq Int /\ \A u, v \in ewma : u = v
    /\ \A e \in fusedEwma : e.ts \in Nat /\ e.ts <= now
    /\ fpc = "publish" => ewma # {}
    /\ fpc # "publish" => RingAgrees
    /\ fpc \notin {"publish", "phc", "summary"} => SummaryAgrees

\* Pushed: the ring with one more entry, cut at its old end.
LEMMA PushedType ==
    ASSUME RingInv, now \in Nat, NEW v \in Int
    PROVE  LET r == Pushed(v) IN
           /\ r \in Seq([t: Nat, o: Int]) /\ Len(r) \in 1 .. RingMax
           /\ \A i \in DOMAIN r : r[i].t <= now
           /\ \A i, j \in DOMAIN r : i < j => r[i].t <= r[j].t
           /\ r[Len(r)] = [t |-> now, o |-> Whole(v)]
           /\ \A i \in DOMAIN r : r[i].o = Whole(v) \/ \E j \in DOMAIN ring : r[i] = ring[j]
  <1> DEFINE E == [t: Nat, o: Int]
             x == [t |-> now, o |-> Whole(v)]
             long == Append(ring, x)
             n == Len(ring)
             k == AtLeast((n + 1) - RingMax, 0)
             r == SubSeq(long, k + 1, n + 1)
  <1>1. x \in E  BY DEF Whole
  <1>2. ring \in Seq(E) /\ n \in Nat /\ n <= RingMax /\ RingMax \in Nat \ {0}
        BY Constants DEF RingInv
  <1>3. x.t = now /\ x.o = Whole(v)  OBVIOUS
  <1>14. Pushed(v) = SubSeq(long, AtLeast(Len(long) - RingMax, 0) + 1, Len(long))
         BY DEF Pushed
  <1> HIDE DEF E, x
  <1>4. /\ long \in Seq(E) /\ Len(long) = n + 1 /\ long[n + 1] = x
        /\ \A i \in 1 .. n : long[i] = ring[i]
        BY <1>1, <1>2
  <1>5. \A i \in 1 .. n + 1 : long[i].t <= now
        BY <1>2, <1>3, <1>4 DEF RingInv
  <1>6. \A i, j \in 1 .. n + 1 : i < j => long[i].t <= long[j].t
    <2> SUFFICES ASSUME NEW i \in 1 .. n + 1, NEW j \in 1 .. n + 1, i < j
                 PROVE  long[i].t <= long[j].t
        OBVIOUS
    <2>1. CASE j = n + 1  BY <1>2, <1>3, <1>4, <1>5, <2>1
    <2>2. CASE j # n + 1
      <3>1. i \in 1 .. n /\ j \in 1 .. n /\ DOMAIN ring = 1 .. n  BY <1>2, <2>2
      <3> QED  BY <1>4, <3>1 DEF RingInv
    <2> QED  BY <2>1, <2>2
  <1>15. \A i \in 1 .. n + 1 : long[i].o = Whole(v) \/ \E j \in DOMAIN ring : long[i] = ring[j]
    <2> TAKE i \in 1 .. n + 1
    <2>1. CASE i = n + 1  BY <1>3, <1>4, <2>1
    <2>2. CASE i # n + 1
      <3>1. i \in 1 .. n /\ DOMAIN ring = 1 .. n  BY <1>2, <2>2
      <3> QED  BY <1>4, <3>1
    <2> QED  BY <2>1, <2>2
  <1> HIDE DEF long, n
  <1>7. k \in 0 .. n /\ (n + 1) - k \in 1 .. RingMax
        BY <1>2 DEF AtLeast
  <1>8. Pushed(v) = r
        BY <1>4, <1>14
  <1> HIDE DEF k
  <1>9. /\ r \in Seq(E) /\ Len(r) = (n + 1) - k
        /\ \A i \in 1 .. (n + 1) - k : r[i] = long[k + i]
        BY <1>2, <1>4, <1>7
  <1> HIDE DEF r
  <1>10. \A i \in DOMAIN r : i \in 1 .. (n + 1) - k /\ k + i \in 1 .. n + 1 /\ r[i] = long[k + i]
         BY <1>2, <1>7, <1>9
  <1>11. \A i, j \in DOMAIN r : i < j => r[i].t <= r[j].t
         BY <1>2, <1>6, <1>7, <1>10
  <1>12. r[Len(r)] = x  BY <1>2, <1>4, <1>7, <1>9
  <1>13. \A i \in DOMAIN r : r[i].t <= now  BY <1>5, <1>10
  <1>16. \A i \in DOMAIN r : r[i].o = Whole(v) \/ \E j \in DOMAIN ring : r[i] = ring[j]
         BY <1>10, <1>15
  <1> QED  BY <1>7, <1>8, <1>9, <1>11, <1>12, <1>13, <1>16 DEF E, x

\* Every step keeps the outputs in agreement.
LEMMA OutStep == TypeInv /\ OutInv /\ [Next]_vars => OutInv'
  <1> SUFFICES ASSUME TypeInv, OutInv, [Next]_vars PROVE OutInv'  OBVIOUS
  <1> DEFINE Busy == {"publish", "phc", "summary"}
  <1>0. now \in Nat /\ fpc \in Pc  BY DEF TypeInv, StoreInv, LoopInv
  <1>1. CASE UNCHANGED <<now, outVars>> /\ (fpc' = fpc \/ (fpc \notin Busy /\ fpc' \notin Busy))
        BY <1>1 DEF OutInv, RingInv, RingAgrees, SummaryAgrees, outVars, valueVars
  <1>2. CASE Advance
    <2>1. UNCHANGED <<fpc, outVars>> /\ now' \in Nat /\ now <= now'
          BY <1>0, <1>2 DEF Advance
    <2>2. RingInv'
      <3>1. \A i \in DOMAIN ring : ring[i].t \in Nat
        <4> DEFINE E == [t: Nat, o: Int]
        <4>1. ring \in Seq(E)  BY DEF OutInv, RingInv
        <4> HIDE DEF E
        <4>2. \A i \in DOMAIN ring : ring[i] \in E  BY <4>1
        <4> QED  BY <4>2 DEF E
      <3> QED  BY <1>0, <2>1, <3>1 DEF OutInv, RingInv, outVars, valueVars
    <2> QED  BY <1>0, <2>1, <2>2 DEF OutInv, RingAgrees, SummaryAgrees, outVars, valueVars
  <1>3. CASE Restart
    <2>1. /\ ewma' = {} /\ ring' = <<>> /\ fpc' = "wait"
          /\ UNCHANGED <<now, fusedEwma, fusedSummary>>
          BY <1>3 DEF Restart
    <2>2. RingInv'  BY <2>1, Constants DEF RingInv
    <2> QED  BY <2>1, <2>2 DEF OutInv, RingAgrees, SummaryAgrees
  <1>4. CASE PushEwma
    <2>1. PICK a, b : \E v \in a .. b : ewma' = {v}  BY <1>4 DEF PushEwma
    <2>2. PICK v \in Int : ewma' = {v}  BY <2>1
    <2>3. fpc' = "publish" /\ UNCHANGED <<now, ring, fusedEwma, fusedSummary>>
          BY <1>4 DEF PushEwma
    <2> QED  BY <2>2, <2>3 DEF OutInv, RingInv
  <1>5. CASE Publish
    <2>1. PICK v \in ewma, outcome \in Outcomes :
             /\ fusedEwma' = hm_set(fusedEwma, Published(v), outcome)
             /\ ring' = Pushed(v)
          BY <1>5 DEF Publish
    <2>2. /\ ewma = {v} /\ v \in Int /\ fpc' = "phc"
          /\ UNCHANGED <<now, ewma, fusedSummary>>
          BY <1>5, <2>1 DEF Publish, OutInv
    <2>3. RingInv /\ ring \in Seq([t: Nat, o: Int])  BY DEF OutInv, RingInv
    <2>4. /\ ring' \in Seq([t: Nat, o: Int]) /\ Len(ring') \in 1 .. RingMax
          /\ \A i \in DOMAIN ring' : ring'[i].t <= now
          /\ \A i, j \in DOMAIN ring' : i < j => ring'[i].t <= ring'[j].t
          /\ ring'[Len(ring')] = [t |-> now, o |-> Whole(v)]
          BY <1>0, <2>1, <2>2, <2>3, PushedType
    <2>5. RingInv'
          BY <2>2, <2>4, Constants DEF RingInv
    <2>6. Published(v).ts = now /\ Published(v).val = v  BY DEF Published
    <2>7. /\ fusedEwma' \in {fusedEwma, {Published(v)}}
          /\ ~ StoreFails => fusedEwma' = {Published(v)}
          BY <2>1 DEF hm_set, Outcomes
    <2>8. \A e \in fusedEwma' : e.ts \in Nat /\ e.ts <= now
          BY <1>0, <2>6, <2>7 DEF OutInv
    <2>9. RingAgrees'
      <3>1. ring' # <<>>  BY <2>4
      <3>2. ring'[Len(ring')].o = Whole(v) /\ ring'[Len(ring')].t = now  BY <2>4
      <3>3. ~ StoreFails => {e.val : e \in fusedEwma'} = {v}  BY <2>6, <2>7
      <3> QED  BY <2>2, <2>8, <3>1, <3>2, <3>3 DEF RingAgrees
    <2> QED  BY <2>2, <2>5, <2>8, <2>9 DEF OutInv
  <1>6. CASE ReadPhc
    <2>1. /\ fpc = "phc" /\ UNCHANGED <<now, valueVars>>
          /\ fpc' = "summary" \/ (fpc' = "wait" /\ cut' = TRUE)
          BY <1>6 DEF ReadPhc
    <2> QED  BY <2>1 DEF OutInv, RingInv, RingAgrees, SummaryAgrees, valueVars
  <1>7. CASE SummarizeFused
    <2>1. PICK v \in ewma, outcome \in Outcomes :
             fusedSummary' = hm_set(fusedSummary, v, outcome)
          BY <1>7 DEF SummarizeFused
    <2>2. /\ fpc = "summary" /\ fpc' = "wait"
          /\ UNCHANGED <<now, ewma, ring, fusedEwma>>
          BY <1>7 DEF SummarizeFused
    <2>3. ewma = {v}  BY <2>1 DEF OutInv
    <2>4. ~ StoreFails => fusedSummary' = {v}  BY <2>1 DEF hm_set, Outcomes
    <2> QED  BY <2>2, <2>3, <2>4 DEF OutInv, RingInv, RingAgrees, SummaryAgrees
  <1>8. \/ UNCHANGED <<now, outVars>> /\ (fpc' = fpc \/ (fpc \notin Busy /\ fpc' \notin Busy))
        \/ Advance \/ Restart \/ PushEwma \/ Publish \/ ReadPhc \/ SummarizeFused
    <2>1. CASE Tick \/ ReadOffset \/ ReadDelay \/ ReadJitter \/ ReadFails \/ NothingToFuse
          BY <2>1 DEF Tick, ReadOffset, ReadDelay, ReadJitter, ReadFails, NothingToFuse
    <2>2. CASE SummarizeSource
          BY <2>2 DEF SummarizeSource
    <2>3. CASE UNCHANGED vars  BY <2>3 DEF vars
    <2>4. ASSUME NEW w \in Writers, Measure(w) \/ Write(w)
          PROVE  UNCHANGED <<now, outVars>> /\ fpc' = fpc
          BY <2>4 DEF Measure, Write, WriteField, WriteSummary
    <2> QED  BY <2>1, <2>2, <2>3, <2>4 DEF Next, Iterate
  <1> QED  BY <1>1, <1>2, <1>3, <1>4, <1>5, <1>6, <1>7, <1>8

\* run_fusion_iteration: the outputs agree whenever the loop waits, for every size of
\* the ring, wherever iterations end early, writes are lost or the process begins
\* anew.
THEOREM OutputsDoAgree == Spec => []OutputsAgree
  <1>1. Init => OutInv
    <2> SUFFICES ASSUME Init PROVE OutInv  OBVIOUS
    <2>1. RingInv  BY Constants DEF Init, RingInv
    <2> QED  BY <2>1 DEF Init, OutInv, RingAgrees, SummaryAgrees
  <1>2. OutInv => OutputsAgree
        BY DEF OutInv, OutputsAgree, RingInv, RingAgrees, SummaryAgrees
  <1> QED  BY <1>1, <1>2, OutStep, Typed, PTL DEF Spec
-----------------------------------------------------------------------------
\* cfg.peers without the node itself is a sequence of sources.
LEMMA OthersType == Others \in Seq([id: Nat, weight: Nat \ {0}])
  <1> DEFINE S == [id: Nat, weight: Nat \ {0}]
             N == Len(Peers)
             Step(F, i) == IF Peers[i].id = Self THEN F[i - 1] ELSE Append(F[i - 1], Peers[i])
             Rec(F, n) == F = [i \in 0 .. n |-> IF i = 0 THEN <<>> ELSE Step(F, i)]
             P == {n \in Nat : \E F : Rec(F, n)}
  <1>1. Peers \in Seq(S)  BY FusionAssumption
  <1>2. N \in Nat  BY <1>1
  <1>3. Rec([i \in 0 .. 0 |-> <<>>], 0)  OBVIOUS
  <1>4. ASSUME NEW n \in Nat, NEW F, Rec(F, n)
        PROVE  \E G : Rec(G, n + 1)
    <2> DEFINE G == [i \in 0 .. n + 1 |-> IF i = n + 1 THEN Step(F, n + 1) ELSE F[i]]
    <2>1. \A i \in 0 .. n : F[i] = IF i = 0 THEN <<>> ELSE Step(F, i)
          BY <1>4
    <2>2. \A i \in 0 .. n : G[i] = F[i]  OBVIOUS
    <2>3. G[n + 1] = Step(F, n + 1) /\ (n + 1) - 1 = n /\ n \in 0 .. n  OBVIOUS
    <2>4. G = [i \in 0 .. n + 1 |-> G[i]]  OBVIOUS
    <2>5. \A i \in 0 .. n + 1 : G[i] = IF i = 0 THEN <<>> ELSE Step(G, i)
      <3> TAKE i \in 0 .. n + 1
      <3> HIDE DEF G
      <3>1. CASE i = 0  BY <2>1, <2>2, <3>1
      <3>2. CASE i \in 1 .. n
        <4>1. i - 1 \in 0 .. n /\ i \in 0 .. n /\ i # 0  BY <3>2
        <4> QED  BY <2>1, <2>2, <4>1
      <3>3. CASE i = n + 1  BY <2>2, <2>3, <3>3
      <3> QED  BY <3>1, <3>2, <3>3
    <2> HIDE DEF G, Step
    <2>6. G = [i \in 0 .. n + 1 |-> IF i = 0 THEN <<>> ELSE Step(G, i)]  BY <2>4, <2>5
    <2> QED  BY <2>6
  <1>5. \A n \in Nat : n \in P
    <2>1. 0 \in P  BY <1>3
    <2> HIDE DEF Rec
    <2>2. \A n \in Nat : n \in P => n + 1 \in P  BY <1>4
    <2> HIDE DEF P
    <2> QED  BY <2>1, <2>2, Induction
  <1> DEFINE W == CHOOSE F : Rec(F, N)
  <1>6. Rec(W, N)
    <2> HIDE DEF Rec
    <2> QED  BY <1>2, <1>5
  <1>7. Others = W[N]  BY DEF Others
  <1> HIDE DEF W, N
  <1> DEFINE Q == {i \in 0 .. N : W[i] \in Seq(S)}
  <1>8. 0 \in Q
    <2>1. W[0] = <<>>  BY <1>2, <1>6
    <2>2. <<>> \in Seq(S)  OBVIOUS
    <2>3. 0 \in 0 .. N /\ W[0] \in Seq(S)
      <3> HIDE DEF S
      <3> QED  BY <1>2, <2>1, <2>2
    <2> HIDE DEF S
    <2> QED  BY <2>3
  <1>9. \A i \in 0 .. N - 1 : i \in Q => i + 1 \in Q
    <2> SUFFICES ASSUME NEW i \in 0 .. N - 1, i \in Q PROVE i + 1 \in Q  OBVIOUS
    <2>1. i + 1 \in 0 .. N /\ i + 1 # 0 /\ (i + 1) - 1 = i  BY <1>2
    <2>2. W[i + 1] = Step(W, i + 1)
      <3> HIDE DEF Step
      <3> QED  BY <1>6, <2>1
    <2>3. Peers[i + 1] \in S
      <3>1. i + 1 \in 1 .. Len(Peers)  BY <1>2 DEF N
      <3> HIDE DEF S
      <3> QED  BY <1>1, <3>1
    <2> HIDE DEF S
    <2>4. W[i] \in Seq(S)  OBVIOUS
    <2>5. W[i + 1] \in Seq(S)  BY <2>1, <2>2, <2>3, <2>4
    <2> QED  BY <2>1, <2>5
  <1> HIDE DEF Q, S
  <1>10. \A i \in 0 .. N : i \in Q  BY <1>2, <1>8, <1>9, BoundedInduction
  <1>11. N \in 0 .. N  BY <1>2
  <1> QED  BY <1>7, <1>10, <1>11 DEF Q, S

\* The sources of an iteration, and who writes which: the peers all but one task, the
\* servers a poller each.
LEMMA SourceKeys ==
    /\ \A i \in DOMAIN Sources : /\ Sources[i].key \in Keys
                                 /\ Sources[i].key.id \in Nat
                                 /\ Sources[i].weight \in Nat \ {0}
    /\ \A w \in Writers : \A k \in KeysOf(w) :
          /\ k \in Keys
          /\ IF w = 0 THEN k.kind = "peer" ELSE k.kind = "ntp"
    /\ IsFiniteSet(Writers)
  <1> DEFINE S == [id: Nat, weight: Nat \ {0}]
             A == [i \in DOMAIN Others |-> [key |-> Key("peer", Others[i]),
                                            weight |-> Others[i].weight]]
             B == [i \in DOMAIN Ntps |-> [key |-> Key("ntp", Ntps[i]),
                                          weight |-> Ntps[i].weight]]
             m == Len(Others)
             n == Len(Ntps)
             Good(r) == r.key.id \in Nat /\ r.weight \in Nat \ {0}
             T == {r \in {A[i] : i \in 1 .. m} \cup {B[i] : i \in 1 .. n} : TRUE}
  <1>1. Others \in Seq(S) /\ Ntps \in Seq(S)  BY OthersType, FusionAssumption
  <1> HIDE DEF S
  <1>2. /\ DOMAIN Others = 1 .. m /\ m \in Nat /\ \A i \in 1 .. m : Others[i] \in S
        /\ DOMAIN Ntps = 1 .. n /\ n \in Nat /\ \A i \in 1 .. n : Ntps[i] \in S
        BY <1>1
  <1> HIDE DEF m, n
  <1>3. /\ \A i \in 1 .. m : /\ A[i].key = Key("peer", Others[i])
                             /\ A[i].key.id \in Nat /\ A[i].weight \in Nat \ {0}
        /\ \A i \in 1 .. n : /\ B[i].key = Key("ntp", Ntps[i])
                             /\ B[i].key.id \in Nat /\ B[i].weight \in Nat \ {0}
        BY <1>2 DEF S, Key
  <1>4. A \in Seq(T) /\ Len(A) = m /\ B \in Seq(T) /\ Len(B) = n
    <2>1. DOMAIN A = 1 .. m /\ DOMAIN B = 1 .. n  BY <1>2
    <2>2. A \in [1 .. m -> T] /\ B \in [1 .. n -> T]  BY <2>1
    <2> HIDE DEF A, B, T
    <2>3. m \in Nat /\ n \in Nat  BY <1>2
    <2> QED  BY ONLY <2>2, <2>3
  <1>5. Sources = A \o B  BY DEF Sources
  <1> HIDE DEF A, B, T
  <1>6. /\ DOMAIN Sources = 1 .. m + n
        /\ \A i \in 1 .. m : Sources[i] = A[i]
        /\ \A i \in 1 .. n : Sources[m + i] = B[i]
        BY <1>2, <1>4, <1>5
  <1>7. ASSUME NEW i \in DOMAIN Sources
        PROVE  Sources[i].key.id \in Nat /\ Sources[i].weight \in Nat \ {0}
    <2>1. CASE i \in 1 .. m  BY <1>3, <1>6, <2>1
    <2>2. CASE i \notin 1 .. m
      <3>1. i - m \in 1 .. n /\ m + (i - m) = i  BY <1>2, <1>6, <2>2
      <3>2. Sources[i] = B[i - m]  BY <1>6, <3>1
      <3> QED  BY <1>3, <3>1, <3>2
    <2> QED  BY <2>1, <2>2
  <1>8. \A i \in 1 .. m : Key("peer", Others[i]) \in Keys
    <2> TAKE i \in 1 .. m
    <2>1. i \in DOMAIN Sources /\ Sources[i].key = Key("peer", Others[i])
          BY <1>2, <1>3, <1>6
    <2> QED  BY <2>1 DEF Keys
  <1>9. \A i \in 1 .. n : Key("ntp", Ntps[i]) \in Keys
    <2> TAKE i \in 1 .. n
    <2>1. m + i \in DOMAIN Sources /\ Sources[m + i].key = Key("ntp", Ntps[i])
          BY <1>2, <1>3, <1>6, SMTT(30)
    <2> QED  BY <2>1 DEF Keys
  <1>10. \A w \in Writers : \A k \in KeysOf(w) :
            /\ k \in Keys
            /\ IF w = 0 THEN k.kind = "peer" ELSE k.kind = "ntp"
         BY <1>2, <1>8, <1>9 DEF Writers, KeysOf, Key
  <1>11. IsFiniteSet(Writers)
    <2>1. n \in Int /\ 0 \in Int  BY <1>2
    <2>2. IsFiniteSet(1 .. n)  BY <2>1, FS_Interval
    <2>3. Writers = (1 .. n) \cup {0}  BY <1>2 DEF Writers
    <2> QED  BY <2>2, <2>3, FS_AddElement
  <1>12. \A i \in DOMAIN Sources : Sources[i].key \in Keys  BY DEF Keys
  <1> QED  BY <1>7, <1>10, <1>11, <1>12

\* The values of a reading: as many as it has entries, each of one of them.
LEMMA ValsType ==
    ASSUME NEW R \in Series
    PROVE  /\ Vals(R) \in Seq(Int)
           /\ \A i \in DOMAIN Vals(R) : \E r \in R : Vals(R)[i] = r.val
           /\ R # {} => Vals(R) # <<>>
  <1> DEFINE c == Cardinality(R)
             Lists == [1 .. c -> R]
             Covers(f) == \A r \in R : \E i \in DOMAIN f : f[i] = r
             seq == CHOOSE f \in Lists : Covers(f)
  <1>1. IsFiniteSet(R) /\ R \subseteq Entry /\ c \in Nat
        BY FS_CardinalityType DEF Series
  <1>2. \E f \in Lists : Covers(f)
    <2>1. PICK n \in Nat : ExistsBijection(1 .. n, R)  BY <1>1, FS_NatBijection
    <2>2. c = n  BY <2>1, FS_CountingElements
    <2>3. PICK f : f \in Bijection(1 .. n, R)  BY <2>1 DEF ExistsBijection
    <2>4. f \in [1 .. n -> R] /\ \A r \in R : \E i \in 1 .. n : f[i] = r
          BY <2>3 DEF Bijection, Injection, Surjection
    <2>5. Covers(f)  BY <2>4
    <2>6. f \in Lists  BY <2>2, <2>4
    <2> QED  BY <2>5, <2>6
  <1>3. Vals(R) = [i \in DOMAIN seq |-> seq[i].val]  BY DEF Vals
  <1>4. seq \in Lists
    <2> HIDE DEF Lists, Covers
    <2> QED  BY <1>2
  <1> HIDE DEF seq, c
  <1>5. DOMAIN seq = 1 .. c /\ \A i \in 1 .. c : seq[i] \in R  BY <1>4
  <1>6. \A i \in 1 .. c : seq[i].val \in Int  BY <1>1, <1>5 DEF Entry
  <1>7. /\ Vals(R) \in [1 .. c -> Int] /\ DOMAIN Vals(R) = 1 .. c
        /\ \A i \in 1 .. c : Vals(R)[i] = seq[i].val
        BY <1>3, <1>5, <1>6
  <1>8. Vals(R) \in Seq(Int)  BY ONLY <1>1, <1>7
  <1>9. R # {} => Vals(R) # <<>>
    <2> SUFFICES ASSUME R # {}, Vals(R) = <<>> PROVE FALSE  OBVIOUS
    <2>1. DOMAIN Vals(R) = {}  OBVIOUS
    <2>2. c = 0  BY <1>1, <1>7, <2>1
    <2>3. c # 0  BY <1>1, FS_EmptySet DEF c
    <2> QED  BY <2>2, <2>3
  <1> QED  BY <1>5, <1>7, <1>8, <1>9
-----------------------------------------------------------------------------
\* What from_series makes.
PeerSample == [peer_id: Nat, peer_weight: Nat \ {0},
               offset: Int, delay: Int, jitter: Nat]
\* A doubled value between two of a set of offsets.
Within(v, S) == v \in Int /\ \E a, b \in S : 2 * a <= v /\ v <= 2 * b
\* Everything ever measured.
Everything == UNION {measured[k] : k \in Keys}

\* A summary rests on offsets measured of one source that has its id.
Truthful(s) ==
    /\ s \in PeerSample
    /\ \E k \in Keys : k.id = s.peer_id /\ Within(s.offset, measured[k])

\* Every offset on its way from a measurement to a summary is one measured of its
\* source, and no reading of offsets is empty.
WritingTrue == \A w \in Writers : \A x \in writing[w] : x.offset \in measured[x.key]
SeriesTrue == \A k \in Keys : \A e \in series[k].offset : e.val \in measured[k]
GotTrue ==
    fpc \in {"delay", "jitter"} =>
        got.offset # {} /\ \A e \in got.offset : e.val \in measured[Sources[at].key]
SamplesTrue == \A i \in DOMAIN samples : Truthful(samples[i].stats)
DataInv ==
    /\ measured \in [Keys -> SUBSET Int]
    /\ WritingTrue /\ SeriesTrue /\ GotTrue /\ SamplesTrue

\* What was measured of a source stays so.
LEMMA MeasuredGrows ==
    ASSUME measured \in [Keys -> SUBSET Int], [Next]_vars
    PROVE  /\ measured' \in [Keys -> SUBSET Int]
           /\ \A k \in Keys : measured[k] \subseteq measured'[k]
  <1>1. ASSUME NEW w \in Writers, Measure(w)
        PROVE  /\ measured' \in [Keys -> SUBSET Int]
               /\ \A k \in Keys : measured[k] \subseteq measured'[k]
    <2>1. PICK k \in KeysOf(w), o \in Offsets :
              measured' = [measured EXCEPT ![k] = measured[k] \cup {o}]
          BY <1>1 DEF Measure
    <2>2. k \in Keys /\ o \in Int  BY SourceKeys, Constants
    <2> QED  BY <2>1, <2>2
  <1>2. measured' = measured \/ \E w \in Writers : Measure(w)
        BY DEF Next, Iterate, Advance, Restart, Write, WriteField, WriteSummary,
            Tick, ReadOffset, ReadDelay, ReadJitter, ReadFails, NothingToFuse, PushEwma,
            Publish, ReadPhc, SummarizeSource, SummarizeFused, vars, storeVars
  <1> QED  BY <1>1, <1>2

\* A value stays between the offsets of its source, and of all.
LEMMA WithinMore ==
    ASSUME NEW v, NEW S, NEW T, Within(v, S), S \subseteq T
    PROVE  Within(v, T)
    BY DEF Within

\* The measuring tasks write what was measured.
LEMMA WritingStep ==
    ASSUME TypeInv, DataInv, [Next]_vars
    PROVE  WritingTrue' /\ SeriesTrue'
  <1> USE DEF WritingTrue, SeriesTrue
  <1>0. /\ measured \in [Keys -> SUBSET Int] /\ WritingTrue /\ SeriesTrue
        /\ series \in [Keys -> [Fields -> Series]]
        /\ DOMAIN writing = Writers /\ \A w \in Writers : writing[w] \subseteq Writing(w)
        BY DEF DataInv, TypeInv, StoreInv
  <1>1. /\ measured' \in [Keys -> SUBSET Int]
        /\ \A k \in Keys : measured[k] \subseteq measured'[k]
        BY <1>0, MeasuredGrows
  <1>2. \A w \in Writers : \A x \in writing[w] : x.key \in Keys /\ x.key \in KeysOf(w)
        BY <1>0, SourceKeys DEF Writing
  <1>3. CASE UNCHANGED <<writing, series>>
        BY <1>0, <1>1, <1>2, <1>3
  <1>4. ASSUME NEW w \in Writers, Measure(w)
        PROVE  WritingTrue' /\ SeriesTrue'
    <2>1. PICK k \in KeysOf(w), o \in Offsets, d \in Delays, j \in Jitters :
             /\ writing' = [writing EXCEPT ![w] =
                   {[key |-> k, next |-> "offset", ts |-> now + Lead, n |-> stored,
                     offset |-> o, delay |-> d, jitter |-> j]}]
             /\ measured' = [measured EXCEPT ![k] = measured[k] \cup {o}]
          BY <1>4 DEF Measure
    <2> DEFINE x == [key |-> k, next |-> "offset", ts |-> now + Lead, n |-> stored,
                     offset |-> o, delay |-> d, jitter |-> j]
    <2>2. x.offset = o /\ x.key = k /\ k \in Keys  BY SourceKeys
    <2>3. writing' = [writing EXCEPT ![w] = {x}]  BY <2>1
    <2> HIDE DEF x
    <2>4. x.offset \in measured'[x.key]  BY <1>0, <2>1, <2>2
    <2>5. UNCHANGED series  BY <1>4 DEF Measure
    <2>6. \A u \in Writers : \A y \in writing'[u] : y = x \/ y \in writing[u]
          BY <1>0, <2>3
    <2> QED  BY <1>0, <1>1, <1>2, <2>4, <2>5, <2>6
  <1>5. ASSUME NEW w \in Writers, WriteField(w)
        PROVE  WritingTrue' /\ SeriesTrue'
    <2>1. PICK x \in writing[w], outcome \in Outcomes :
             /\ x.next \in Fields
             /\ series' = [series EXCEPT ![x.key] = [series[x.key] EXCEPT ![x.next] =
                   ts_add(series[x.key][x.next], [ts |-> x.ts, val |-> x[x.next], n |-> x.n],
                          WindowOf(w), outcome)]]
             /\ writing' = [writing EXCEPT ![w] = NextField(x)]
          BY <1>5 DEF WriteField
    <2> DEFINE e == [ts |-> x.ts, val |-> x[x.next], n |-> x.n]
    <2>2. x.key \in Keys /\ x \in Writing(w) /\ x.offset \in measured[x.key]
          BY <1>0, <1>2
    <2>3. UNCHANGED measured  BY <1>5 DEF WriteField
    <2>4. \A y \in NextField(x) : y.key = x.key /\ y.offset = x.offset
      <3>1. x \in Writing(w)  BY <2>2
      <3> QED  BY <3>1 DEF Writing, NextField
    <2>5. WritingTrue'
      <3>1. \A u \in Writers : \A y \in writing'[u] : y \in NextField(x) \/ y \in writing[u]
            BY <1>0, <2>1
      <3> QED  BY <1>0, <2>2, <2>3, <2>4, <3>1
    <2>6. e \in Entry /\ (x.next = "offset" => e.val = x.offset)
      <3>1. x[x.next] \in Int  BY <2>1, <2>2 DEF Writing, Fields
      <3> QED  BY <2>2, <3>1 DEF Writing, Entry
    <2> HIDE DEF e
    <2>7. SeriesTrue'
      <3> SUFFICES ASSUME NEW k \in Keys, NEW y \in series'[k].offset
                   PROVE  y.val \in measured[k]
          BY <2>3
      <3> DEFINE new == ts_add(series[x.key][x.next], e, WindowOf(w), outcome)
      <3>1. series' = [series EXCEPT ![x.key] = [series[x.key] EXCEPT ![x.next] = new]]
            BY <2>1 DEF e
      <3>2. series[x.key][x.next] \in Series  BY <1>0, <2>1, <2>2
      <3>3. new \subseteq series[x.key][x.next] \cup {e}  BY <2>6, <3>2, AddType
      <3> HIDE DEF new
      <3>4. CASE k = x.key /\ x.next = "offset"
        <4>1. series'[k].offset = new
              BY <1>0, <2>2, <3>1, <3>4 DEF Fields
        <4>2. y = e \/ y \in series[k].offset  BY <3>3, <3>4, <4>1
        <4> QED  BY <1>0, <2>2, <2>6, <3>4, <4>2
      <3>5. CASE ~ (k = x.key /\ x.next = "offset")
        <4>1. series'[k].offset = series[k].offset
              BY <1>0, <2>1, <2>2, <3>1, <3>5 DEF Fields
        <4> QED  BY <1>0, <4>1
      <3> QED  BY <3>4, <3>5
    <2> QED  BY <2>5, <2>7
  <1>6. \/ UNCHANGED <<writing, series>>
        \/ UNCHANGED series /\ \A w \in Writers : writing'[w] \subseteq writing[w]
        \/ \E w \in Writers : Measure(w) \/ WriteField(w)
    <2>1. CASE Restart  BY <2>1 DEF Restart
    <2>2. ASSUME NEW w \in Writers, WriteSummary(w)
          PROVE  UNCHANGED series /\ \A u \in Writers : writing'[u] \subseteq writing[u]
          BY <1>0, <2>2 DEF WriteSummary
    <2>3. CASE Iterate \/ Advance \/ UNCHANGED vars
          BY <2>3 DEF Iterate, Advance, Tick, ReadOffset, ReadDelay, ReadJitter, ReadFails,
              NothingToFuse, PushEwma, Publish, ReadPhc, SummarizeSource, SummarizeFused,
              vars, storeVars
    <2> QED  BY <2>1, <2>2, <2>3 DEF Next, Write
  <1>7. CASE UNCHANGED series /\ \A w \in Writers : writing'[w] \subseteq writing[w]
        BY <1>0, <1>1, <1>2, <1>7
  <1> QED  BY <1>3, <1>4, <1>5, <1>6, <1>7

\* from_series: the summary of what was read of a source is a true one.
LEMMA SummaryTruthful ==
    ASSUME TypeInv, DataInv, fpc = "jitter", NEW R \in Series
    PROVE  Truthful(from_series(Sources[at].key.id, Sources[at].weight,
                                Vals(got.offset), Vals(got.delay), Vals(R)))
  <1> DEFINE key == Sources[at].key
             weight == Sources[at].weight
             offsets == Vals(got.offset)
             delays == Vals(got.delay)
             jitters == Vals(R)
             s == from_series(key.id, weight, offsets, delays, jitters)
  <1>1. at \in DOMAIN Sources /\ got.offset \in Series /\ got.delay \in Series
        BY DEF TypeInv, LoopInv, Fields
  <1>2. /\ got.offset # {}
        /\ \A e \in got.offset : e.val \in measured[key]
        BY DEF DataInv, GotTrue
  <1>3. key \in Keys /\ key.id \in Nat /\ weight \in Nat \ {0}  BY <1>1, SourceKeys
  <1>4. offsets \in Seq(Int) /\ delays \in Seq(Int) /\ jitters \in Seq(Int)
        BY <1>1, ValsType
  <1>5. offsets # <<>> /\ \A i \in DOMAIN offsets : offsets[i] \in measured[key]
    <2>1. /\ offsets # <<>>
          /\ \A i \in DOMAIN offsets : \E r \in got.offset : offsets[i] = r.val
          BY <1>1, <1>2, ValsType
    <2> QED  BY <1>2, <2>1
  <1> HIDE DEF key, weight, offsets, delays, jitters
  <1>6. Summaries({s})  BY <1>3, <1>4, SeriesSummary
  <1>7. s.peer_id = key.id /\ s.offset = TwiceMedian(offsets)  BY DEF from_series
  <1>8. s = [peer_id |-> s.peer_id, peer_weight |-> s.peer_weight,
             offset |-> s.offset, delay |-> s.delay, jitter |-> s.jitter]
        BY DEF from_series
  <1> HIDE DEF s
  <1>9. s \in PeerSample  BY <1>3, <1>6, <1>7, <1>8 DEF Summaries, PeerSample
  <1>10. Within(TwiceMedian(offsets), measured[key])
    <2>1. /\ TwiceMedian(offsets) \in Int
          /\ \E i \in DOMAIN offsets : 2 * offsets[i] <= TwiceMedian(offsets)
          /\ \E i \in DOMAIN offsets : TwiceMedian(offsets) <= 2 * offsets[i]
          BY <1>4, <1>5, MedianBetween
    <2> QED  BY <1>5, <2>1 DEF Within
  <1>11. Truthful(s)  BY <1>3, <1>7, <1>9, <1>10 DEF Truthful
  <1> QED  BY <1>11 DEF s, key, weight, offsets, delays, jitters

\* The loop reads and sums up what was measured.
LEMMA DataStep == TypeInv /\ DataInv /\ [Next]_vars => DataInv'
  <1> SUFFICES ASSUME TypeInv, DataInv, [Next]_vars PROVE DataInv'  OBVIOUS
  <1>1. WritingTrue' /\ SeriesTrue'  BY WritingStep
  <1>2. /\ measured' \in [Keys -> SUBSET Int]
        /\ \A k \in Keys : measured[k] \subseteq measured'[k]
        BY MeasuredGrows DEF DataInv
  <1>3. \A s : Truthful(s) => Truthful(s)'
    <2> TAKE s
    <2> SUFFICES ASSUME Truthful(s) PROVE Truthful(s)'  OBVIOUS
    <2>1. PICK k \in Keys : k.id = s.peer_id /\ Within(s.offset, measured[k])
          BY DEF Truthful
    <2>2. Within(s.offset, measured'[k])  BY <1>2, <2>1, WithinMore
    <2> QED  BY <2>1, <2>2 DEF Truthful
  <1>4. /\ StoreInv /\ IsSeq(samples) /\ started \in Nat /\ got \in [Fields -> Series]
        /\ fpc \in {"delay", "jitter"} => at \in DOMAIN Sources
        /\ SamplesTrue /\ SeriesTrue /\ GotTrue
        BY DEF TypeInv, LoopInv, DataInv
  <1>5. GotTrue'
    <2> USE DEF GotTrue
    <2>1. CASE UNCHANGED <<fpc, got, at>>
      <3> SUFFICES ASSUME fpc \in {"delay", "jitter"}
                   PROVE  /\ got.offset # {}
                          /\ \A e \in got.offset : e.val \in measured'[Sources[at].key]
          BY <2>1
      <3>1. Sources[at].key \in Keys  BY <1>4, SourceKeys
      <3> QED  BY <1>2, <1>4, <3>1
    <2>2. CASE fpc' \notin {"delay", "jitter"}  BY <2>2
    <2>3. CASE ReadOffset
      <3>1. PICK R \in Reading("offset") :
               IF Cardinality(R) < Limit
               THEN at' = at + 1 /\ UNCHANGED <<got, fpc>>
               ELSE got' = [NoReading EXCEPT !.offset = R] /\ fpc' = "delay" /\ at' = at
            BY <2>3 DEF ReadOffset
      <3>2. fpc = "offset" /\ at \in DOMAIN Sources  BY <2>3 DEF ReadOffset
      <3>3. CASE Cardinality(R) < Limit  BY <3>1, <3>2, <3>3
      <3>4. CASE ~ (Cardinality(R) < Limit)
        <4>1. /\ got'.offset = R /\ at' = at
              BY <3>1, <3>4 DEF NoReading
        <4>2. Sources[at].key \in Keys  BY <3>2, SourceKeys
        <4>3. R \subseteq series[Sources[at].key].offset
              BY <1>4, <3>2, ReadingType DEF Fields
        <4>4. R # {}
          <5>1. Cardinality({}) < Limit  BY FS_EmptySet, Constants
          <5> QED  BY <3>4, <5>1
        <4>5. \A e \in R : e.val \in measured[Sources[at].key]
              BY <1>4, <4>2, <4>3 DEF SeriesTrue
        <4> QED  BY <1>2, <4>1, <4>2, <4>4, <4>5
      <3> QED  BY <3>3, <3>4
    <2>4. CASE ReadDelay
      <3>1. fpc = "delay" /\ at' = at  BY <2>4 DEF ReadDelay
      <3>2. PICK R : got' = [got EXCEPT !.delay = R]  BY <2>4 DEF ReadDelay
      <3>3. got'.offset = got.offset  BY <1>4, <3>2 DEF Fields
      <3>4. Sources[at].key \in Keys  BY <1>4, <3>1, SourceKeys
      <3> QED  BY <1>2, <1>4, <3>1, <3>3, <3>4
    <2>5. \/ UNCHANGED <<fpc, got, at>> \/ fpc' \notin {"delay", "jitter"}
          \/ ReadOffset \/ ReadDelay
          BY DEF Next, Iterate, Advance, Restart, Measure, Write, WriteField, WriteSummary,
              Tick, ReadJitter, ReadFails, NothingToFuse, PushEwma, Publish, ReadPhc,
              SummarizeSource, SummarizeFused, vars
    <2> QED  BY <2>1, <2>2, <2>3, <2>4, <2>5
  <1>6. SamplesTrue'
    <2> USE DEF SamplesTrue
    <2>1. CASE UNCHANGED samples  BY <1>3, <1>4, <2>1
    <2>2. CASE samples' = <<>>  BY <2>2
    <2>3. CASE ReadJitter
      <3>1. fpc = "jitter" /\ at \in DOMAIN Sources  BY <1>4, <2>3 DEF ReadJitter
      <3>2. PICK R \in Reading("jitter") :
                samples' = Append(samples,
                    [stats |-> from_series(Sources[at].key.id, Sources[at].weight,
                                  Vals(got.offset), Vals(got.delay), Vals(R)),
                     used |-> [got EXCEPT !.jitter = R]])
            BY <2>3 DEF ReadJitter
      <3> DEFINE s == from_series(Sources[at].key.id, Sources[at].weight,
                                  Vals(got.offset), Vals(got.delay), Vals(R))
                 x == [stats |-> s, used |-> [got EXCEPT !.jitter = R]]
                 n == Len(samples)
      <3>3. R \in Series  BY <1>4, <3>1, ReadingType DEF Fields
      <3>4. Truthful(s)  BY <3>1, <3>3, SummaryTruthful
      <3> HIDE DEF s
      <3>5. x.stats = s /\ samples' = Append(samples, x)  BY <3>2 DEF s
      <3> HIDE DEF x
      <3>6. /\ n \in Nat /\ DOMAIN samples' = 1 .. n + 1 /\ DOMAIN samples = 1 .. n
            /\ samples'[n + 1] = x
            /\ \A i \in DOMAIN samples : samples'[i] = samples[i]
            BY <1>4, <3>5, Longer
      <3> HIDE DEF n
      <3> QED  BY <1>3, <1>4, <3>4, <3>5, <3>6
    <2>4. CASE SummarizeSource
      <3>1. samples # <<>> /\ samples' = Tail(samples)  BY <2>4 DEF SummarizeSource
      <3>2. \A i \in DOMAIN samples' :
               i + 1 \in DOMAIN samples /\ samples'[i] = samples[i + 1]
            BY <1>4, <3>1, Shorter
      <3> QED  BY <1>3, <1>4, <3>2
    <2>5. UNCHANGED samples \/ samples' = <<>> \/ ReadJitter \/ SummarizeSource
          BY DEF Next, Iterate, Advance, Restart, Measure, Write, WriteField, WriteSummary,
              Tick, ReadOffset, ReadDelay, ReadFails, NothingToFuse, PushEwma, Publish,
              ReadPhc, SummarizeFused, vars
    <2> QED  BY <2>1, <2>2, <2>3, <2>4, <2>5
  <1> QED  BY <1>1, <1>2, <1>5, <1>6 DEF DataInv

\* The data, of every behaviour.
LEMMA DataInvariant == Spec => [](TypeInv /\ DataInv)
  <1>1. Init => DataInv
    <2> SUFFICES ASSUME Init PROVE DataInv  OBVIOUS
    <2>1. measured \in [Keys -> SUBSET Int]  BY DEF Init
    <2>2. WritingTrue /\ SeriesTrue /\ GotTrue /\ SamplesTrue
          BY DEF Init, WritingTrue, SeriesTrue, GotTrue, SamplesTrue, Fields
    <2> QED  BY <2>1, <2>2 DEF DataInv
  <1> QED  BY <1>1, DataStep, Typed, PTL DEF Spec
-----------------------------------------------------------------------------
\* What the loop makes of the samples stays between the offsets measured, also beyond
\* a restart.
HullInv ==
    /\ \A v \in ewma : Within(v, Everything)
    /\ \A e \in fusedEwma : Within(e.val, Everything)
    /\ \A v \in fusedSummary : Within(v, Everything)
    /\ \A i \in DOMAIN ring : Within(ring[i].o, Everything)

\* The samples of an iteration, as fused.
LEMMA StatsType ==
    ASSUME TypeInv, DataInv
    PROVE  LET Sample == {s \in PeerSample : Truthful(s)}
           IN  /\ Summaries(Sample) /\ Stats \in Seq(Sample)
               /\ samples # <<>> => Stats # <<>>
  <1> DEFINE Sample == {s \in PeerSample : Truthful(s)}
             n == Len(samples)
  <1>1. Summaries(Sample)  BY DEF Summaries, PeerSample
  <1>2. n \in Nat /\ DOMAIN samples = 1 .. n
    <2>1. IsSeq(samples)  BY DEF TypeInv, LoopInv
    <2> QED  BY <2>1, Longer
  <1>3. Stats = [i \in 1 .. n |-> samples[i].stats]  BY <1>2 DEF Stats
  <1>4. \A i \in 1 .. n : samples[i].stats \in Sample
        BY <1>2 DEF DataInv, SamplesTrue, Truthful
  <1>5. samples # <<>> => n # 0
    <2>1. PICK S : samples \in Seq(S)  BY DEF TypeInv, LoopInv, IsSeq
    <2> QED  BY <2>1
  <1> HIDE DEF Sample, n
  <1>6. Stats \in [1 .. n -> Sample]  BY <1>3, <1>4
  <1>7. Stats \in Seq(Sample) /\ Len(Stats) = n  BY ONLY <1>2, <1>6
  <1>8. samples # <<>> => Stats # <<>>
    <2>1. Len(<<>>) = 0  OBVIOUS
    <2> QED  BY <1>5, <1>7, <2>1
  <1> QED  BY <1>1, <1>7, <1>8 DEF Sample

\* TrimmedStats: the fused offset is between two offsets measured.
LEMMA FusedWithin ==
    ASSUME TrimRatio[1] < TrimRatio[2], TypeInv, DataInv, samples # <<>>,
           NEW raw \in FusedOffsets
    PROVE  Within(raw, Everything)
  <1> DEFINE Sample == {s \in PeerSample : Truthful(s)}
             mean == mean_offset(Kept(select_best_peers(Stats)))
  <1>1. Summaries(Sample) /\ Stats \in Seq(Sample) /\ Stats # <<>>  BY StatsType
  <1>2. raw = mean.num \div mean.den  BY DEF FusedOffsets, MeanOf
  <1> HIDE DEF Sample
  <1>3. /\ raw \in Int
        /\ \E s \in Sample : s.offset <= raw
        /\ \E s \in Sample : raw <= s.offset
        BY <1>1, <1>2, FusedMeanBetween
  <1>4. \A s \in Sample : Within(s.offset, Everything)
    <2> TAKE s \in Sample
    <2>1. PICK k \in Keys : Within(s.offset, measured[k])  BY DEF Sample, Truthful
    <2>2. measured[k] \subseteq Everything  BY DEF Everything
    <2> QED  BY <2>1, <2>2, WithinMore
  <1>5. Everything \subseteq Int  BY DEF Everything, DataInv
  <1>6. \E a \in Everything : 2 * a <= raw
    <2>1. PICK s \in Sample : s.offset <= raw  BY <1>3
    <2>2. PICK a \in Everything : 2 * a <= s.offset /\ s.offset \in Int  BY <1>4 DEF Within
    <2>3. a \in Int  BY <1>5
    <2> QED  BY <1>3, <2>1, <2>2, <2>3
  <1>7. \E b \in Everything : raw <= 2 * b
    <2>1. PICK s \in Sample : raw <= s.offset  BY <1>3
    <2>2. PICK b \in Everything : s.offset <= 2 * b /\ s.offset \in Int  BY <1>4 DEF Within
    <2>3. b \in Int  BY <1>5
    <2> QED  BY <1>3, <2>1, <2>2, <2>3
  <1> QED  BY <1>3, <1>6, <1>7 DEF Within

\* Cutting off a doubled value towards zero does not leave the range.
LEMMA WholeWithin ==
    ASSUME NEW S \in SUBSET Int, NEW v, Within(v, S)
    PROVE  Within(Whole(v), S)
  <1>1. PICK a \in S, b \in S : 2 * a <= v /\ v <= 2 * b  BY DEF Within
  <1>2. a \in Int /\ b \in Int /\ v \in Int  BY DEF Within
  <1>3. Whole(v) \in Int /\ 2 * a <= Whole(v) /\ Whole(v) <= 2 * b
        BY <1>1, <1>2 DEF Whole
  <1> QED  BY <1>1, <1>3 DEF Within

\* WeightedEwma: a mean of two values in the range is in it.
LEMMA BetweenWithin ==
    ASSUME NEW S \in SUBSET Int, NEW u, NEW w, Within(u, S), Within(w, S),
           NEW v \in AtMost(u, w) .. AtLeast(u, w)
    PROVE  Within(v, S)
  <1>1. u \in Int /\ w \in Int  BY DEF Within
  <1>2. v \in Int /\ (u <= v \/ w <= v) /\ (v <= u \/ v <= w)
        BY <1>1 DEF AtMost, AtLeast
  <1>3. \E a \in S : 2 * a <= v
    <2>1. PICK a \in S, b \in S : 2 * a <= u /\ 2 * b <= w  BY DEF Within
    <2>2. a \in Int /\ b \in Int  OBVIOUS
    <2> QED  BY <1>1, <1>2, <2>1, <2>2
  <1>4. \E b \in S : v <= 2 * b
    <2>1. PICK a \in S, b \in S : u <= 2 * a /\ w <= 2 * b  BY DEF Within
    <2>2. a \in Int /\ b \in Int  OBVIOUS
    <2> QED  BY <1>1, <1>2, <2>1, <2>2
  <1> QED  BY <1>2, <1>3, <1>4 DEF Within

\* Everything ever measured only grows.
LEMMA EverythingGrows ==
    ASSUME DataInv, [Next]_vars
    PROVE  Everything \subseteq Everything' /\ Everything' \subseteq Int
  <1>1. /\ measured' \in [Keys -> SUBSET Int]
        /\ \A k \in Keys : measured[k] \subseteq measured'[k]
        BY MeasuredGrows DEF DataInv
  <1> QED  BY <1>1 DEF Everything

\* Every step keeps the outputs in the range.
LEMMA HullStep ==
    ASSUME TrimRatio[1] < TrimRatio[2], TypeInv, DataInv, OutInv, HullInv, [Next]_vars
    PROVE  HullInv'
  <1> USE DEF HullInv
  <1>1. Everything \subseteq Everything' /\ Everything' \subseteq Int
        BY EverythingGrows
  <1>2. \A v : Within(v, Everything) => Within(v, Everything')  BY <1>1, WithinMore
  <1>3. CASE UNCHANGED valueVars  BY <1>2, <1>3 DEF valueVars
  <1>4. CASE Restart
    <2>1. ewma' = {} /\ ring' = <<>> /\ UNCHANGED <<fusedEwma, fusedSummary>>
          BY <1>4 DEF Restart
    <2> QED  BY <1>2, <2>1
  <1>5. CASE PushEwma
    <2>1. samples # <<>> /\ UNCHANGED <<ring, fusedEwma, fusedSummary>>
          BY <1>5 DEF PushEwma
    <2>2. PICK raw \in FusedOffsets :
             \E old \in (IF ewma = {} THEN {raw} ELSE ewma) :
             \E v \in AtMost(old, raw) .. AtLeast(old, raw) : ewma' = {v}
          BY <1>5 DEF PushEwma
    <2>3. PICK old \in (IF ewma = {} THEN {raw} ELSE ewma) :
             \E v \in AtMost(old, raw) .. AtLeast(old, raw) : ewma' = {v}
          BY <2>2
    <2>4. PICK v \in AtMost(old, raw) .. AtLeast(old, raw) : ewma' = {v}
          BY <2>3
    <2>5. Within(raw, Everything)  BY <2>1, FusedWithin
    <2>6. Within(old, Everything)
      <3>1. CASE ewma = {}  BY <2>5, <3>1
      <3>2. CASE ewma # {}  BY <3>2
      <3> QED  BY <3>1, <3>2
    <2>7. Everything \in SUBSET Int  BY <1>1
    <2>8. Within(v, Everything)  BY <2>5, <2>6, <2>7, BetweenWithin
    <2> QED  BY <1>2, <2>1, <2>4, <2>8
  <1>6. CASE Publish
    <2>1. PICK v \in ewma, outcome \in Outcomes :
             /\ fusedEwma' = hm_set(fusedEwma, Published(v), outcome)
             /\ ring' = Pushed(v)
          BY <1>6 DEF Publish
    <2>2. UNCHANGED <<ewma, fusedSummary>>  BY <1>6 DEF Publish
    <2>3. Within(v, Everything) /\ v \in Int  BY DEF Within
    <2>4. \A e \in fusedEwma' : e \in fusedEwma \/ e.val = v
          BY <2>1 DEF hm_set, Published
    <2>5. now \in Nat /\ RingInv  BY DEF TypeInv, StoreInv, OutInv
    <2>6. \A i \in DOMAIN ring' :
             ring'[i].o = Whole(v) \/ \E j \in DOMAIN ring : ring'[i] = ring[j]
          BY <2>1, <2>3, <2>5, PushedType
    <2>7. Everything \in SUBSET Int  BY <1>1
    <2>8. Within(Whole(v), Everything)  BY <2>3, <2>7, WholeWithin
    <2> QED  BY <1>2, <2>2, <2>3, <2>4, <2>6, <2>8
  <1>7. CASE SummarizeFused
    <2>1. PICK v \in ewma, outcome \in Outcomes :
             fusedSummary' = hm_set(fusedSummary, v, outcome)
          BY <1>7 DEF SummarizeFused
    <2>2. UNCHANGED <<ewma, ring, fusedEwma>>  BY <1>7 DEF SummarizeFused
    <2>3. \A u \in fusedSummary' : u \in fusedSummary \/ u = v  BY <2>1 DEF hm_set
    <2> QED  BY <1>2, <2>2, <2>3
  <1>8. UNCHANGED valueVars \/ Restart \/ PushEwma \/ Publish \/ SummarizeFused
    <2>1. CASE Tick \/ ReadOffset \/ ReadDelay \/ ReadJitter \/ ReadFails \/ NothingToFuse
               \/ ReadPhc \/ SummarizeSource
          BY <2>1 DEF outVars, Tick, ReadOffset, ReadDelay, ReadJitter, ReadFails, NothingToFuse,
              ReadPhc, SummarizeSource
    <2>2. CASE UNCHANGED vars  BY <2>2 DEF vars, outVars
    <2>3. ASSUME NEW w \in Writers, Measure(w) \/ Write(w)
          PROVE  UNCHANGED valueVars
          BY <2>3 DEF Measure, Write, WriteField, WriteSummary, outVars
    <2>4. CASE Advance  BY <2>4 DEF Advance, outVars
    <2> QED  BY <2>1, <2>2, <2>3, <2>4 DEF Next, Iterate
  <1> QED  BY <1>3, <1>4, <1>5, <1>6, <1>7, <1>8

\* The outputs, of every behaviour.
LEMMA OutInvariant == Spec => [](TypeInv /\ DataInv /\ OutInv)
  <1>1. Init => OutInv
    <2> SUFFICES ASSUME Init PROVE OutInv  OBVIOUS
    <2>1. RingInv  BY Constants DEF Init, RingInv
    <2> QED  BY <2>1 DEF Init, OutInv, RingAgrees, SummaryAgrees
  <1> QED  BY <1>1, OutStep, DataInvariant, PTL DEF Spec

\* The range, of every behaviour.
LEMMA HullInvariant ==
    ASSUME TrimRatio[1] < TrimRatio[2]
    PROVE  Spec => [](TypeInv /\ DataInv /\ OutInv /\ HullInv)
  <1>1. Init => HullInv  BY DEF Init, HullInv
  <1> QED  BY <1>1, HullStep, OutInvariant, PTL DEF Spec

\* WeightedEwma, TrimmedStats, PeerSample: for every configuration that trims less than
\* all, whatever is lost, late or torn, and across restarts, the smoothed offset, what
\* is published of it and the ring stay between the smallest and the largest offset
\* ever measured.
THEOREM SmoothedAlwaysInHull ==
    ASSUME TrimRatio[1] < TrimRatio[2]
    PROVE  Spec => []SmoothedInHull
  <1>1. DataInv /\ HullInv => SmoothedInHull
    <2> SUFFICES ASSUME DataInv, HullInv PROVE SmoothedInHull  OBVIOUS
    <2> DEFINE all == {2 * o : o \in Everything}
    <2>1. \A v : Within(v, Everything) => \E a, b \in all : a <= v /\ v <= b
          BY DEF Within
    <2>2. \A v \in ewma \cup {e.val : e \in fusedEwma} \cup fusedSummary :
             Within(v, Everything)
          BY DEF HullInv
    <2>3. \A i \in DOMAIN ring : Within(ring[i].o, Everything)  BY DEF HullInv
    <2>4. all = {2 * o : o \in UNION {measured[k] : k \in Keys}}  BY DEF Everything
    <2> HIDE DEF all
    <2> QED  BY <2>1, <2>2, <2>3, <2>4 DEF SmoothedInHull
  <1> QED  BY <1>1, HullInvariant, PTL
-----------------------------------------------------------------------------
\* slew::apply: microseconds of a doubled offset are no more than the offset, and of
\* its sign.
LEMMA AppliedWithin ==
    ASSUME NEW S \in SUBSET Int, NEW v, Within(v, S),
           NEW x, x = Clamp(Truncated(v, 2 * NsPerUs), MaxOffset)
    PROVE  /\ \E o \in S : x * NsPerUs <= AtLeast(o, 0)
           /\ \E o \in S : AtMost(o, 0) <= x * NsPerUs
  <1> DEFINE t == Truncated(v, 2 * NsPerUs)
  <1>1. NsPerUs \in Nat \ {0} /\ MaxOffset \in Nat /\ 2 * NsPerUs \in Nat \ {0}
        BY SlewAssumption
  <1>2. PICK a \in S, b \in S : 2 * a <= v /\ v <= 2 * b  BY DEF Within
  <1>3. a \in Int /\ b \in Int /\ v \in Int  BY DEF Within
  <1>4. /\ t \in Int
        /\ v >= 0 => 0 <= t /\ t * (2 * NsPerUs) <= v
        /\ v <= 0 => t <= 0 /\ v <= t * (2 * NsPerUs)
    <2> DEFINE d == 2 * NsPerUs
    <2>1. d \in Nat \ {0} /\ t = Truncated(v, d)  BY <1>1
    <2> HIDE DEF d, t
    <2>2. /\ t \in Int
          /\ v >= 0 => 0 <= t /\ t * d <= v /\ v < (t + 1) * d
          /\ v <= 0 => t <= 0 /\ v <= t * d /\ (t - 1) * d < v
          BY <1>3, <2>1, TruncatedBounds
    <2> QED  BY <2>2 DEF d
  <1> HIDE DEF t
  <1>5. /\ x \in Int
        /\ 0 <= t => 0 <= x /\ x <= t
        /\ t <= 0 => x <= 0 /\ t <= x
        BY <1>1, <1>4 DEF Clamp, t
  <1>6. t * (2 * NsPerUs) = 2 * (t * NsPerUs) /\ t * NsPerUs \in Int /\ x * NsPerUs \in Int
        BY <1>1, <1>4, <1>5
  <1>7. 0 * NsPerUs = 0 /\ 0 \in Int  BY <1>1
  <1>8. CASE v >= 0
    <2>1. 0 <= x /\ x <= t  BY <1>4, <1>5, <1>8
    <2>2. x * NsPerUs <= t * NsPerUs /\ 0 * NsPerUs <= x * NsPerUs
          BY <1>1, <1>4, <1>5, <1>7, <2>1, Scaled
    <2>3. 2 * (t * NsPerUs) <= 2 * b  BY <1>2, <1>3, <1>4, <1>6, <1>8
    <2>4. x * NsPerUs <= b /\ 0 <= x * NsPerUs  BY <1>3, <1>6, <1>7, <2>2, <2>3
    <2> HIDE DEF t
    <2>5. x * NsPerUs <= AtLeast(b, 0) /\ AtMost(a, 0) <= x * NsPerUs
          BY <1>3, <1>6, <2>4 DEF AtLeast, AtMost
    <2> QED  BY <2>5
  <1>9. CASE v < 0
    <2>1. x <= 0 /\ t <= x  BY <1>3, <1>4, <1>5, <1>9
    <2>2. t * NsPerUs <= x * NsPerUs /\ x * NsPerUs <= 0 * NsPerUs
          BY <1>1, <1>4, <1>5, <1>7, <2>1, Scaled
    <2>3. 2 * a <= 2 * (t * NsPerUs)  BY <1>2, <1>3, <1>4, <1>6, <1>9
    <2>4. a <= x * NsPerUs /\ x * NsPerUs <= 0  BY <1>3, <1>6, <1>7, <2>2, <2>3
    <2>5. x * NsPerUs <= AtLeast(b, 0) /\ AtMost(a, 0) <= x * NsPerUs
          BY <1>3, <1>6, <2>4 DEF AtLeast, AtMost
    <2> QED  BY <2>5
  <1> QED  BY <1>3, <1>8, <1>9

\* Every step keeps the last correction in the range: a new one is of the smoothed
\* offset, and what was measured only grows.
LEMMA CorrectionStep ==
    ASSUME DataInv, HullInv, CorrectionInHull, [Next]_vars
    PROVE  CorrectionInHull'
  <1>1. Everything \subseteq Everything' /\ Everything' \subseteq Int
        BY EverythingGrows
  <1> DEFINE Fits(c, S) == /\ \E o \in S : c.offset * NsPerUs <= AtLeast(o, 0)
                           /\ \E o \in S : AtMost(o, 0) <= c.offset * NsPerUs
  <1>2. CorrectionInHull = \A c \in corrected : Fits(c, Everything)
        BY DEF CorrectionInHull, Everything
  <1>3. CorrectionInHull' = \A c \in corrected' : Fits(c, Everything')
        BY DEF CorrectionInHull, Everything
  <1>4. \A c : Fits(c, Everything) => Fits(c, Everything')  BY <1>1
  <1>5. ASSUME NEW c \in corrected', c \notin corrected
        PROVE  Fits(c, Everything)
    <2>1. Publish
      <3>1. UNCHANGED corrected \/ Publish
            BY DEF Next, Iterate, Advance, Restart, Measure, Write, WriteField, WriteSummary,
                Tick, ReadOffset, ReadDelay, ReadJitter, ReadFails, NothingToFuse, PushEwma,
                ReadPhc, SummarizeSource, SummarizeFused, vars, outVars, valueVars
      <3> QED  BY <1>5, <3>1
    <2>2. PICK v \in ewma : corrected' = {Correction(v, ring')} \/ corrected' = corrected
          BY <2>1 DEF Publish
    <2>3. c = Correction(v, ring')  BY <1>5, <2>2
    <2>4. c.offset = Clamp(Truncated(v, 2 * NsPerUs), MaxOffset)
          BY <2>3 DEF Correction, apply
    <2>5. Within(v, Everything)  BY DEF HullInv
    <2>6. Everything \in SUBSET Int  BY <1>1
    <2> QED  BY <2>4, <2>5, <2>6, AppliedWithin
  <1> HIDE DEF Fits
  <1> QED  BY <1>2, <1>3, <1>4, <1>5

\* slew::apply in run_fusion_iteration: for every configuration that trims less than
\* all, and whatever was torn, lost or restarted, a correction is never farther than
\* the farthest offset measured, nor against the sign of all of them.
THEOREM CorrectionAlwaysInHull ==
    ASSUME TrimRatio[1] < TrimRatio[2]
    PROVE  Spec => []CorrectionInHull
  <1>1. Init => CorrectionInHull  BY DEF Init, CorrectionInHull
  <1> QED  BY <1>1, CorrectionStep, HullInvariant, PTL DEF Spec
-----------------------------------------------------------------------------
\* Every step keeps the summaries with their sources.
LEMMA SummaryStep ==
    ASSUME TypeInv, DataInv, SummaryOfItsSource, [Next]_vars
    PROVE  SummaryOfItsSource'
  <1> DEFINE Own(h, S) == /\ \E a, b \in S : 2 * a <= h.offset /\ h.offset <= 2 * b
                          /\ h.score = Magnitude(h.delay) + h.jitter
  <1> SUFFICES ASSUME \A k, m \in Keys : k.id = m.id => k = m,
                      NEW k \in Keys, NEW h \in summary'[k]
               PROVE  Own(h, measured'[k])
      BY DEF SummaryOfItsSource
  <1>1. \A g \in summary[k] : Own(g, measured[k])
        BY DEF SummaryOfItsSource
  <1>2. /\ measured' \in [Keys -> SUBSET Int]
        /\ measured[k] \subseteq measured'[k]
        BY MeasuredGrows DEF DataInv
  <1>3. \A g : Own(g, measured[k]) => Own(g, measured'[k])  BY <1>2
  <1>4. /\ DOMAIN summary = HashKeys /\ k \in HashKeys
        /\ \A w \in Writers : writing[w] \subseteq Writing(w)
        BY DEF TypeInv, StoreInv, HashKeys
  <1>5. CASE h \in summary[k]
    <2> HIDE DEF Own
    <2> QED  BY <1>1, <1>3, <1>5
  <1>6. ASSUME NEW w \in Writers, WriteSummary(w), h \notin summary[k]
        PROVE  Own(h, measured'[k])
    <2>1. PICK x \in writing[w], outcome \in Outcomes :
             summary' = [summary EXCEPT ![x.key] =
                hm_set(summary[x.key],
                       [offset |-> 2 * x.offset, delay |-> 2 * x.delay,
                        jitter |-> 2 * x.jitter, score |-> ScoreOf(x)], outcome)]
          BY <1>6 DEF WriteSummary
    <2> DEFINE g == [offset |-> 2 * x.offset, delay |-> 2 * x.delay,
                     jitter |-> 2 * x.jitter, score |-> ScoreOf(x)]
    <2>2. /\ x.offset \in Int /\ x.delay \in Int /\ x.jitter \in Int
          /\ x.offset \in measured[x.key]
          BY <1>4 DEF Writing, DataInv, WritingTrue
    <2>3. Own(g, measured[x.key])
      <3>1. ScoreOf(x) = Magnitude(2 * x.delay) + 2 * x.jitter
            BY <2>2 DEF ScoreOf, Magnitude
      <3> QED  BY <2>2, <3>1
    <2> HIDE DEF g, Own
    <2>4. summary' = [summary EXCEPT ![x.key] = hm_set(summary[x.key], g, outcome)]
          BY <2>1 DEF g
    <2>5. x.key = k /\ h = g  BY <1>4, <1>6, <2>4 DEF hm_set
    <2> QED  BY <1>3, <2>3, <2>5
  <1>7. ASSUME SummarizeSource, h \notin summary[k]
        PROVE  Own(h, measured'[k])
    <2> DEFINE s == Head(samples).stats
               key == SummaryKey(s.peer_id)
               g == [offset |-> s.offset, delay |-> s.delay,
                     jitter |-> s.jitter, score |-> peer_score(s)]
    <2>1. /\ samples # <<>>
          /\ \E outcome \in Outcomes :
                summary' = [summary EXCEPT ![key] = hm_set(summary[key], g, outcome)]
          BY <1>7 DEF SummarizeSource
    <2>2. PICK S : samples \in Seq(S)  BY DEF TypeInv, LoopInv, IsSeq
    <2>3. 1 \in DOMAIN samples /\ Head(samples) = samples[1]  BY <2>1, <2>2
    <2>4. Truthful(s)  BY <2>3 DEF DataInv, SamplesTrue
    <2>5. key.id = s.peer_id  BY DEF SummaryKey
    <2>6. g.score = Magnitude(g.delay) + g.jitter
      <3>1. s \in PeerSample  BY <2>4 DEF Truthful
      <3> HIDE DEF s
      <3>2. s.delay \in Int /\ s.jitter \in Nat  BY <3>1 DEF PeerSample
      <3> QED  BY <3>2 DEF peer_score, Magnitude
    <2>7. PICK m \in Keys : m.id = s.peer_id /\ Within(s.offset, measured[m])
          BY <2>4 DEF Truthful
    <2>8. Own(g, measured[m])  BY <2>6, <2>7 DEF Within
    <2> HIDE DEF g, Own, key, s
    <2>9. key = k /\ h = g  BY <1>4, <1>7, <2>1 DEF hm_set
    <2>10. m = k  BY <2>5, <2>7, <2>9
    <2> QED  BY <1>3, <2>8, <2>9, <2>10
  <1>8. \/ UNCHANGED summary \/ SummarizeSource
        \/ \E w \in Writers : WriteSummary(w)
        BY DEF Next, Iterate, Advance, Restart, Measure, Write, WriteField,
            Tick, ReadOffset, ReadDelay, ReadJitter, ReadFails, NothingToFuse, PushEwma,
            Publish, ReadPhc, SummarizeFused, vars, storeVars
  <1> HIDE DEF Own
  <1> QED  BY <1>5, <1>6, <1>7, <1>8

\* hm_set by the pollers and by run_fusion_iteration: with distinct ids a summary holds
\* offsets of its own source and the score of its delay and jitter, however the
\* two writers interleave and whatever is lost.
THEOREM SummaryAlwaysOfItsSource == Spec => []SummaryOfItsSource
  <1>1. Init => SummaryOfItsSource
    <2> SUFFICES ASSUME Init PROVE SummaryOfItsSource  OBVIOUS
    <2>1. \A k \in Keys : summary[k] = {}  BY DEF Init, HashKeys
    <2> QED  BY <2>1 DEF SummaryOfItsSource
  <1> QED  BY <1>1, SummaryStep, DataInvariant, PTL DEF Spec
-----------------------------------------------------------------------------
\* What a published entry says it rests on.
UsedInv ==
    /\ \A i \in DOMAIN samples : samples[i].used.offset # {}
    /\ fpc = "publish" => samples # <<>>
NewestInv ==
    \A e \in fusedEwma : e.from \in Int /\ e.newest \in Int /\ e.from - e.newest <= Window

\* Every step gathers samples that rest on offsets.
LEMMA UsedStep ==
    ASSUME TypeInv, DataInv, UsedInv, [Next]_vars
    PROVE  UsedInv'
  <1> USE DEF UsedInv
  <1>1. CASE UNCHANGED <<samples, fpc>>  BY <1>1
  <1>2. CASE samples' = <<>> /\ fpc' # "publish"  BY <1>2
  <1>3. CASE UNCHANGED samples /\ fpc' # "publish"  BY <1>3
  <1>4. CASE PushEwma  BY <1>4 DEF PushEwma
  <1>5. CASE ReadJitter
    <2>1. fpc = "jitter" /\ fpc' = "offset"  BY <1>5 DEF ReadJitter
    <2>2. PICK x : samples' = Append(samples, x) /\ \E R : x.used = [got EXCEPT !.jitter = R]
      <3>1. \E R, stats :
               samples' = Append(samples, [stats |-> stats, used |-> [got EXCEPT !.jitter = R]])
            BY <1>5 DEF ReadJitter
      <3>2. PICK R, stats :
               samples' = Append(samples, [stats |-> stats, used |-> [got EXCEPT !.jitter = R]])
            BY <3>1
      <3> DEFINE both == [stats |-> stats, used |-> [got EXCEPT !.jitter = R]]
      <3>3. both.used = [got EXCEPT !.jitter = R]  OBVIOUS
      <3>4. samples' = Append(samples, both)  BY <3>2
      <3> HIDE DEF both
      <3> QED  BY <3>3, <3>4
    <2>3. x.used.offset # {}
      <3>1. got \in [Fields -> Series] /\ got.offset # {}
            BY <2>1 DEF TypeInv, LoopInv, DataInv, GotTrue
      <3> QED  BY <2>2, <3>1 DEF Fields
    <2> DEFINE n == Len(samples)
    <2>4. /\ n \in Nat /\ DOMAIN samples' = 1 .. n + 1 /\ DOMAIN samples = 1 .. n
          /\ samples'[n + 1] = x
          /\ \A i \in DOMAIN samples : samples'[i] = samples[i]
          BY <2>2, Longer DEF TypeInv, LoopInv
    <2> HIDE DEF n
    <2> QED  BY <2>1, <2>3, <2>4
  <1>6. CASE SummarizeSource
    <2>1. samples # <<>> /\ samples' = Tail(samples) /\ fpc' = "summary"
          BY <1>6 DEF SummarizeSource
    <2>2. \A i \in DOMAIN samples' :
             i + 1 \in DOMAIN samples /\ samples'[i] = samples[i + 1]
          BY <2>1, Shorter DEF TypeInv, LoopInv
    <2> QED  BY <2>1, <2>2
  <1>7. \/ UNCHANGED <<samples, fpc>>
        \/ samples' = <<>> /\ fpc' # "publish"
        \/ UNCHANGED samples /\ fpc' # "publish"
        \/ PushEwma \/ ReadJitter \/ SummarizeSource
    <2>1. CASE Tick \/ ReadOffset \/ ReadDelay \/ ReadFails \/ NothingToFuse \/ Publish
               \/ ReadPhc \/ SummarizeFused
          BY <2>1 DEF Tick, ReadOffset, ReadDelay, ReadFails, NothingToFuse, Publish,
              ReadPhc, SummarizeFused
    <2>2. CASE Restart  BY <2>2 DEF Restart
    <2>3. CASE Advance \/ UNCHANGED vars \/ \E w \in Writers : Measure(w) \/ Write(w)
          BY <2>3 DEF Advance, vars, Measure, Write, WriteField, WriteSummary
    <2> QED  BY <2>1, <2>2, <2>3 DEF Next, Iterate
  <1> QED  BY <1>1, <1>2, <1>3, <1>4, <1>5, <1>6, <1>7

\* The image of a finite set.
LEMMA ImageFinite ==
    ASSUME NEW S, IsFiniteSet(S), NEW f
    PROVE  IsFiniteSet({f[x] : x \in S})
  <1> DEFINE T == {f[x] : x \in S}
             g == [x \in S |-> f[x]]
  <1>1. g \in Surjection(S, T)  BY DEF Surjection
  <1> HIDE DEF g, T
  <1>2. IsFiniteSet(T)  BY <1>1, FS_Surjection
  <1> QED  BY <1>2 DEF T

\* A finite set of numbers has a largest one.
LEMMA HasLargest ==
    ASSUME NEW S \in SUBSET Int, IsFiniteSet(S), S # {}
    PROVE  \E t \in S : \A u \in S : u <= t
  <1>1. PICK n \in Nat : ExistsBijection(1 .. n, S)  BY FS_NatBijection
  <1>2. PICK f : f \in Bijection(1 .. n, S)  BY <1>1 DEF ExistsBijection
  <1>3. f \in [1 .. n -> S] /\ \A u \in S : \E i \in 1 .. n : f[i] = u
        BY <1>2 DEF Bijection, Injection, Surjection
  <1> DEFINE D == 1 .. n
  <1>4. f \in [1 .. n -> Int] /\ D \in SUBSET (1 .. n) /\ D # {}  BY <1>3
  <1> HIDE DEF D
  <1>5. PICK m \in D : \A i \in D : f[i] <= f[m]  BY <1>4, LargestIn
  <1>6. f[m] \in S  BY <1>3, <1>5 DEF D
  <1>7. \A u \in S : u <= f[m]  BY <1>3, <1>5 DEF D
  <1> QED  BY <1>6, <1>7

\* Published: the newest measurement of an entry is one of those it rests on, and so
\* no older than the window.
LEMMA NewestRead ==
    ASSUME Lead <= 0, TypeInv, Recent, UsedInv, fpc = "publish", NEW v
    PROVE  /\ Published(v).from \in Int /\ Published(v).newest \in Int
           /\ Published(v).from - Published(v).newest <= Window
  <1> DEFINE n == Len(samples)
             read == [i \in 1 .. n |-> samples[i].used.offset]
             U == UNION {read[i] : i \in 1 .. n}
             back == [e \in U |-> e.ts - Lead]
             times == {back[e] : e \in U}
  <1>1. n \in Nat /\ DOMAIN samples = 1 .. n
    <2>1. IsSeq(samples)  BY DEF TypeInv, LoopInv
    <2> QED  BY <2>1, Longer
  <1>2. 1 \in 1 .. n
    <2>1. PICK S : samples \in Seq(S)  BY DEF TypeInv, LoopInv, IsSeq
    <2>2. samples # <<>>  BY DEF UsedInv
    <2> QED  BY <2>1, <2>2
  <1>3. \A i \in 1 .. n : read[i] \in Series /\ read[i] # {}
        BY <1>1 DEF TypeInv, LoopInv, UsedInv, Fields
  <1>4. \A i \in 1 .. n : \A e \in read[i] : started - e.ts <= Window
        BY <1>1 DEF Recent, InWindow, Fields
  <1>5. {e.ts - Lead : e \in UNION {s.used.offset : s \in Gathered}} = times
    <2>1. {s.used.offset : s \in Gathered} = {read[i] : i \in 1 .. n}
          BY <1>1 DEF Gathered
    <2>2. UNION {s.used.offset : s \in Gathered} = U  BY <2>1
    <2> HIDE DEF U
    <2> QED  BY <2>2
  <1>6. started \in Nat  BY DEF TypeInv, LoopInv
  <1> HIDE DEF n, read
  <1>7. IsFiniteSet(U)
    <2>1. n \in Int /\ 1 \in Int  BY <1>1
    <2>2. IsFiniteSet(1 .. n)  BY <2>1, FS_Interval
    <2>3. IsFiniteSet({read[i] : i \in 1 .. n})  BY <2>2, ImageFinite
    <2>4. \A S \in {read[i] : i \in 1 .. n} : IsFiniteSet(S)  BY <1>3 DEF Series
    <2> QED  BY <2>3, <2>4, FS_UNION
  <1>8. U # {} /\ \A e \in U : e.ts \in Int /\ started - e.ts <= Window
        BY <1>2, <1>3, <1>4 DEF Series, Entry
  <1> HIDE DEF U
  <1>9. \A e \in U : back[e] \in Int /\ started - back[e] <= Window
        BY <1>6, <1>8, Constants
  <1>10. IsFiniteSet(times)  BY <1>7, ImageFinite
  <1>11. /\ times \in SUBSET Int /\ times # {}
         /\ \A t \in times : started - t <= Window
         BY <1>8, <1>9
  <1> HIDE DEF times
  <1>12. \E t \in times : \A u \in times : u <= t  BY <1>10, <1>11, HasLargest
  <1> DEFINE newest == CHOOSE t \in times : \A u \in times : u <= t
  <1>13. newest \in times  BY <1>12
  <1>14. Published(v).from = started /\ Published(v).newest = newest
         BY <1>5 DEF Published
  <1> HIDE DEF newest
  <1> QED  BY <1>6, <1>11, <1>13, <1>14

\* Every step keeps what is published of the window.
LEMMA NewestStep ==
    ASSUME Lead <= 0, TypeInv, Recent, UsedInv, NewestInv, [Next]_vars
    PROVE  NewestInv'
  <1> USE DEF NewestInv
  <1>1. CASE UNCHANGED fusedEwma  BY <1>1
  <1>2. CASE Publish
    <2>1. PICK v \in ewma, outcome \in Outcomes :
             fusedEwma' = hm_set(fusedEwma, Published(v), outcome)
          BY <1>2 DEF Publish
    <2> DEFINE p == Published(v)
    <2>2. p.from \in Int /\ p.newest \in Int /\ p.from - p.newest <= Window
          BY <1>2, NewestRead DEF Publish
    <2> HIDE DEF p
    <2>3. fusedEwma' = hm_set(fusedEwma, p, outcome)  BY <2>1 DEF p
    <2> QED  BY <2>2, <2>3 DEF hm_set
  <1>3. UNCHANGED fusedEwma \/ Publish
        BY DEF Next, Iterate, Advance, Restart, Measure, Write, WriteField, WriteSummary,
            Tick, ReadOffset, ReadDelay, ReadJitter, ReadFails, NothingToFuse, PushEwma,
            ReadPhc, SummarizeSource, SummarizeFused, vars, outVars, valueVars
  <1> QED  BY <1>1, <1>2, <1>3

\* health: with the clock of the samples not ahead of the loop's, "ok" means that some
\* source was measured within the window, the duration of an iteration and the
\* freshness limit, whatever fails and also of an entry of the run before.
THEOREM HealthyAlwaysRecent ==
    ASSUME Lead <= 0
    PROVE  Spec => []HealthyIsRecent
  <1>1. Init => UsedInv /\ NewestInv  BY DEF Init, UsedInv, NewestInv
  <1>2. TypeInv /\ OutInv /\ NewestInv => HealthyIsRecent
    <2> SUFFICES ASSUME TypeInv, OutInv, NewestInv,
                        health(now, {e.ts : e \in fusedEwma}, FALSE, Fresh) = "ok"
                 PROVE  \E e \in fusedEwma : now - e.newest < Fresh + Window + (e.ts - e.from)
        BY DEF HealthyIsRecent
    <2>1. \E ts \in {e.ts : e \in fusedEwma} : now - ts < Fresh
      <3> SUFFICES ASSUME ~ \E ts \in {e.ts : e \in fusedEwma} : now - ts < Fresh
                   PROVE  FALSE
          OBVIOUS
      <3>1. health(now, {e.ts : e \in fusedEwma}, FALSE, Fresh) = "stale"
            BY DEF health
      <3> QED  BY <3>1
    <2>2. PICK e \in fusedEwma : now - e.ts < Fresh  BY <2>1
    <2>3. /\ e.from \in Int /\ e.newest \in Int /\ e.from - e.newest <= Window
          /\ e.ts \in Nat /\ now \in Nat
          BY DEF NewestInv, OutInv, TypeInv, StoreInv
    <2> QED  BY <2>2, <2>3, Constants
  <1> QED  BY <1>1, <1>2, UsedStep, NewestStep, RecentInvariant, OutInvariant, PTL DEF Spec
-----------------------------------------------------------------------------
\* The entry of the offset series a sample becomes.
OffsetEntry(x) == [ts |-> x.ts, val |-> x.offset, n |-> x.n]
\* Its sample is still being stored, and one of the fields `before` comes next.
OnItsWay(k, e, before) ==
    \E w \in WritersOf(k) : \E x \in writing[w] :
        x.key = k /\ x.next \in before /\ e = OffsetEntry(x)
\* A series has an entry as new as t.
Reached(k, field, t) == \E d \in series[k][field] : d.ts >= t

\* A source whose series are trimmed on writing, and one that fewer tasks write than
\* values are required of it.
Trimmed(k) == k.kind = "ntp" \/ Window > 0
Enough(k) == Cardinality(WritersOf(k)) < Limit

OneEach == \A w \in Writers : \A x, y \in writing[w] : x = y
Stamped ==
    \A k \in Keys, f \in Fields : \A e \in series[k][f] : Trimmed(k) => e.ts > 0
\* The delay and the jitter follow every offset.
Follow ==
    \A k \in Keys : \A e \in series[k].offset :
        /\ OnItsWay(k, e, {"delay"}) \/ Reached(k, "delay", e.ts)
        /\ OnItsWay(k, e, {"delay", "jitter"}) \/ Reached(k, "jitter", e.ts)
\* What is still to be read of a source is there.
ReadOn ==
    fpc \in {"delay", "jitter"} /\ Enough(Sources[at].key) =>
        /\ Reached(Sources[at].key, "jitter", since)
        /\ fpc = "delay" => Reached(Sources[at].key, "delay", since)
        /\ fpc = "jitter" => got.delay # {}
Complete(s) ==
    \E k \in Keys : /\ k.id = s.stats.peer_id
                    /\ Enough(k) => s.used.delay # {} /\ s.used.jitter # {}

LossInv ==
    /\ OneEach
    /\ ~ StoreFails => Stamped
    /\ ~ StoreFails /\ restarts = 0 =>
          Follow /\ ReadOn /\ \A i \in DOMAIN samples : Complete(samples[i])

\* ts_add, undisturbed: the newest entries stay, or make room for newer ones.
LEMMA NewestStays ==
    ASSUME NEW set \in Series, NEW e \in Entry, NEW window \in Nat
    PROVE  LET new == ts_add(set, e, window, "done")
           IN  /\ \A d \in set : (window > 0 => d.ts > 0) => \E c \in new : c.ts >= d.ts
               /\ (window > 0 => e.ts > 0) => \E c \in new : c.ts >= e.ts
               /\ window > 0 => \A c \in new : c.ts > 0
               /\ new \subseteq set \cup {e}
  <1> DEFINE new == ts_add(set, e, window, "done")
             cutoff == AtLeast(e.ts - window, 0)
  <1>1. e.ts \in Int /\ \A d \in set : d.ts \in Int  BY DEF Series, Entry
  <1>2. /\ cutoff \in Int /\ cutoff >= 0 /\ cutoff >= e.ts - window
        /\ window > 0 /\ e.ts > 0 => cutoff < e.ts
        BY <1>1 DEF AtLeast
  <1>3. CASE window > 0
    <2>1. new = {x \in set \cup {e} : x.ts > cutoff}  BY <1>3 DEF ts_add
    <2>2. (e.ts > 0) => e \in new  BY <1>2, <1>3, <2>1
    <2>3. \A c \in new : c.ts > 0 /\ c \in set \cup {e}  BY <1>1, <1>2, <2>1
    <2>4. ASSUME NEW d \in set, d.ts > 0
          PROVE  \E c \in new : c.ts >= d.ts
      <3>1. CASE d.ts > cutoff  BY <1>1, <2>1, <3>1
      <3>2. CASE ~ (d.ts > cutoff)
        <4>1. cutoff = e.ts - window  BY <1>1, <1>2, <2>4, <3>2 DEF AtLeast
        <4>2. e.ts >= d.ts /\ e.ts > 0  BY <1>1, <1>3, <2>4, <3>2, <4>1
        <4> QED  BY <2>2, <4>2
      <3> QED  BY <3>1, <3>2
    <2>5. e.ts > 0 => \E c \in new : c.ts >= e.ts  BY <1>1, <2>2
    <2> HIDE DEF new
    <2> QED  BY <1>3, <2>3, <2>4, <2>5 DEF new
  <1>4. CASE ~ (window > 0)
    <2>1. new = set \cup {e}  BY <1>4 DEF ts_add
    <2> QED  BY <1>1, <1>4, <2>1
  <1> QED  BY <1>3, <1>4

\* Who changes the store.
LEMMA StoreMoves ==
    ASSUME [Next]_vars
    PROVE  \/ UNCHANGED <<series, writing, restarts>>
           \/ Restart
           \/ \E w \in Writers : Measure(w) \/ WriteField(w) \/ WriteSummary(w)
    BY DEF Next, Iterate, Advance, Write, Tick, ReadOffset, ReadDelay, ReadJitter, ReadFails,
        NothingToFuse, PushEwma, Publish, ReadPhc, SummarizeSource, SummarizeFused, vars,
        storeVars

\* One write that is not lost.
LEMMA WriteParts ==
    ASSUME StoreInv, ~ StoreFails, NEW w \in Writers, WriteField(w)
    PROVE  \E x \in writing[w], e \in Entry :
              /\ x \in Writing(w) /\ x.next \in Fields /\ x.key \in Keys /\ w \in WritersOf(x.key)
              /\ e.ts = x.ts /\ (x.next = "offset" => e = OffsetEntry(x))
              /\ series'[x.key][x.next] = ts_add(series[x.key][x.next], e, WindowOf(w), "done")
              /\ \A k \in Keys, f \in Fields :
                    k # x.key \/ f # x.next => series'[k][f] = series[k][f]
              /\ writing' = [writing EXCEPT ![w] = NextField(x)]
              /\ UNCHANGED restarts
              /\ WindowOf(w) \in Nat /\ (WindowOf(w) > 0 <=> Trimmed(x.key))
  <1>1. PICK x \in writing[w], outcome \in Outcomes :
           /\ x.next \in Fields
           /\ series' = [series EXCEPT ![x.key] = [series[x.key] EXCEPT ![x.next] =
                 ts_add(series[x.key][x.next], [ts |-> x.ts, val |-> x[x.next], n |-> x.n],
                        WindowOf(w), outcome)]]
           /\ writing' = [writing EXCEPT ![w] = NextField(x)]
           /\ UNCHANGED restarts
        BY DEF WriteField
  <1>2. outcome = "done"  BY DEF Outcomes
  <1> DEFINE e == [ts |-> x.ts, val |-> x[x.next], n |-> x.n]
             new == ts_add(series[x.key][x.next], e, WindowOf(w), "done")
  <1>3. x \in Writing(w) /\ x.key \in KeysOf(w)  BY DEF StoreInv, Writing
  <1>4. /\ x.key \in Keys
        /\ IF w = 0 THEN x.key.kind = "peer" ELSE x.key.kind = "ntp"
        BY <1>3, SourceKeys
  <1>5. w \in WritersOf(x.key)  BY <1>3 DEF WritersOf
  <1>6. e \in Entry /\ e.ts = x.ts /\ (x.next = "offset" => e = OffsetEntry(x))
    <2>1. x[x.next] \in Int  BY <1>1, <1>3 DEF Writing, Fields
    <2> QED  BY <1>3, <2>1 DEF Writing, Entry, OffsetEntry
  <1>7. WindowOf(w) \in Nat /\ (WindowOf(w) > 0 <=> Trimmed(x.key))
        BY <1>4, Constants DEF WindowOf, AtLeast, Trimmed
  <1>8. series' = [series EXCEPT ![x.key] = [series[x.key] EXCEPT ![x.next] = new]]
        BY <1>1, <1>2
  <1> HIDE DEF e, new
  <1>9. /\ series'[x.key][x.next] = new
        /\ \A k \in Keys, f \in Fields :
              k # x.key \/ f # x.next => series'[k][f] = series[k][f]
    <2>1. series \in [Keys -> [Fields -> Series]]  BY DEF StoreInv
    <2> QED  BY <1>1, <1>4, <1>8, <2>1
  <1> QED  BY <1>1, <1>3, <1>4, <1>5, <1>6, <1>7, <1>9 DEF new

\* A task stores one sample at a time.
LEMMA OneEachStep ==
    ASSUME StoreInv, OneEach, [Next]_vars
    PROVE  OneEach'
  <1> USE DEF OneEach
  <1>0. DOMAIN writing = Writers  BY DEF StoreInv
  <1>1. CASE UNCHANGED writing  BY <1>1
  <1>2. CASE Restart  BY <1>2 DEF Restart
  <1>3. ASSUME NEW w \in Writers, Measure(w) \/ WriteField(w) \/ WriteSummary(w)
        PROVE  OneEach'
    <2>1. /\ \A u \in Writers \ {w} : writing'[u] = writing[u]
          /\ \A x, y \in writing'[w] : x = y
      <3>1. CASE Measure(w)
        <4>1. \E x : writing' = [writing EXCEPT ![w] = {x}]  BY <3>1 DEF Measure
        <4> QED  BY <1>0, <4>1
      <3>2. CASE WriteField(w)
        <4>1. PICK x : writing' = [writing EXCEPT ![w] = NextField(x)]
              BY <3>2 DEF WriteField
        <4>2. \A a, b \in NextField(x) : a = b  BY DEF NextField
        <4> QED  BY <1>0, <4>1, <4>2
      <3>3. CASE WriteSummary(w)  BY <1>0, <3>3 DEF WriteSummary
      <3> QED  BY <1>3, <3>1, <3>2, <3>3
    <2> QED  BY <2>1
  <1> QED  BY <1>1, <1>2, <1>3, StoreMoves

\* Without losses, entries of series that are trimmed have positive stamps, and what
\* a series has reached it never loses.
LEMMA StampedStep ==
    ASSUME StoreInv, Stamped, ~ StoreFails, [Next]_vars
    PROVE  /\ Stamped'
           /\ \A k \in Keys, f \in Fields : \A t \in Int :
                 Reached(k, f, t) => Reached(k, f, t)'
  <1>0. \A k \in Keys, f \in Fields : series[k][f] \in Series  BY DEF StoreInv
  <1>1. CASE UNCHANGED series
        BY <1>1 DEF Stamped, Reached
  <1>2. ASSUME NEW w \in Writers, WriteField(w)
        PROVE  /\ Stamped'
               /\ \A k \in Keys, f \in Fields : \A t \in Int :
                     Reached(k, f, t) => Reached(k, f, t)'
    <2>1. PICK x \in writing[w], e \in Entry :
             /\ x.next \in Fields /\ x.key \in Keys
             /\ series'[x.key][x.next] = ts_add(series[x.key][x.next], e, WindowOf(w), "done")
             /\ \A k \in Keys, f \in Fields :
                   k # x.key \/ f # x.next => series'[k][f] = series[k][f]
             /\ WindowOf(w) \in Nat /\ (WindowOf(w) > 0 <=> Trimmed(x.key))
          BY <1>2, WriteParts
    <2> DEFINE set == series[x.key][x.next]
               new == series'[x.key][x.next]
    <2>2. set \in Series  BY <1>0, <2>1
    <2>3. \A d \in set : Trimmed(x.key) => d.ts > 0  BY <2>1 DEF Stamped
    <2>4. /\ \A d \in set : \E c \in new : c.ts >= d.ts
          /\ Trimmed(x.key) => \A c \in new : c.ts > 0
          /\ new \subseteq set \cup {e}
      <3> DEFINE window == WindowOf(w)
      <3>1. window \in Nat /\ (window > 0 <=> Trimmed(x.key)) /\ new = ts_add(set, e, window, "done")
            BY <2>1
      <3> HIDE DEF set, new, window
      <3> QED  BY <2>2, <2>3, <3>1, NewestStays
    <2>5. Stamped'
      <3> SUFFICES ASSUME NEW k \in Keys, NEW f \in Fields, NEW y \in series'[k][f], Trimmed(k)
                   PROVE  y.ts > 0
          BY DEF Stamped, Trimmed
      <3>1. CASE k = x.key /\ f = x.next  BY <2>4, <3>1
      <3>2. CASE k # x.key \/ f # x.next  BY <2>1, <3>2 DEF Stamped
      <3> QED  BY <3>1, <3>2
    <2>6. ASSUME NEW k \in Keys, NEW f \in Fields, NEW t \in Int, Reached(k, f, t)
          PROVE  Reached(k, f, t)'
      <3>1. PICK d \in series[k][f] : d.ts >= t  BY <2>6 DEF Reached
      <3>2. CASE k = x.key /\ f = x.next
        <4>1. PICK c \in series'[k][f] : c.ts >= d.ts  BY <2>4, <3>1, <3>2
        <4>2. c.ts \in Int /\ d.ts \in Int
              BY <1>0, <2>2, <2>4, <3>1, <3>2, <4>1 DEF Series, Entry
        <4>3. c.ts >= t  BY <3>1, <4>1, <4>2
        <4> QED  BY <4>1, <4>3 DEF Reached
      <3>3. CASE k # x.key \/ f # x.next  BY <2>1, <3>1, <3>3 DEF Reached
      <3> QED  BY <3>2, <3>3
    <2> QED  BY <2>5, <2>6
  <1>3. UNCHANGED series \/ \E w \in Writers : WriteField(w)
        BY StoreMoves DEF Restart, Measure, WriteSummary
  <1> QED  BY <1>1, <1>2, <1>3

\* Offsets are entered while their sample is being stored, and it is stored to the end.
LEMMA FollowStep ==
    ASSUME StoreInv, OneEach, Stamped, Follow, ~ StoreFails, restarts = 0, [Next]_vars,
           restarts' = 0
    PROVE  Follow'
  <1>0. /\ DOMAIN writing = Writers
        /\ \A k \in Keys, f \in Fields : series[k][f] \in Series
        /\ \A k \in Keys, f \in Fields : \A t \in Int : Reached(k, f, t) => Reached(k, f, t)'
        BY StampedStep DEF StoreInv
  <1>1. \A k \in Keys : \A e \in series[k].offset : e.ts \in Int
        BY <1>0 DEF Series, Entry, Fields
  <1>2. CASE UNCHANGED <<series, writing>>
        BY <1>2 DEF Follow, OnItsWay, Reached
  <1>3. ~ Restart  BY Constants DEF Restart
  <1>4. ASSUME NEW w \in Writers, Measure(w) \/ WriteSummary(w)
        PROVE  Follow'
    <2>1. /\ series' = series
          /\ \A u \in Writers \ {w} : writing'[u] = writing[u]
          /\ \A x \in writing[w] : x.next = "summary"
      <3>1. CASE Measure(w)
        <4>1. /\ writing[w] = {} /\ series' = series
              /\ \E x : writing' = [writing EXCEPT ![w] = {x}]
              BY <3>1 DEF Measure
        <4> QED  BY <1>0, <4>1
      <3>2. CASE WriteSummary(w)
        <4>1. series' = series /\ \E x \in writing[w] : x.next = "summary"
              BY <3>2 DEF WriteSummary
        <4>2. writing' = [writing EXCEPT ![w] = {}]  BY <3>2 DEF WriteSummary
        <4> QED  BY <1>0, <4>1, <4>2 DEF OneEach
      <3> QED  BY <1>4, <3>1, <3>2
    <2>2. ASSUME NEW k \in Keys, NEW e, NEW before \in {{"delay"}, {"delay", "jitter"}},
                 OnItsWay(k, e, before)
          PROVE  OnItsWay(k, e, before)'
      <3>1. PICK u \in WritersOf(k) : \E x \in writing[u] :
                x.key = k /\ x.next \in before /\ e = OffsetEntry(x)
            BY <2>2 DEF OnItsWay
      <3>2. u \in Writers  BY DEF WritersOf
      <3>3. u # w  BY <2>1, <3>1
      <3>4. writing'[u] = writing[u]  BY <2>1, <3>2, <3>3
      <3> QED  BY <3>1, <3>4 DEF OnItsWay, WritersOf
    <2>3. \A k \in Keys, f \in Fields : \A t : Reached(k, f, t) => Reached(k, f, t)'
          BY <2>1 DEF Reached
    <2> QED  BY <2>1, <2>2, <2>3 DEF Follow, Fields
  <1>5. ASSUME NEW w \in Writers, WriteField(w)
        PROVE  Follow'
    <2>1. PICK x \in writing[w], d \in Entry :
             /\ x \in Writing(w) /\ x.next \in Fields /\ x.key \in Keys /\ w \in WritersOf(x.key)
             /\ d.ts = x.ts /\ (x.next = "offset" => d = OffsetEntry(x))
             /\ series'[x.key][x.next] = ts_add(series[x.key][x.next], d, WindowOf(w), "done")
             /\ \A k \in Keys, f \in Fields :
                   k # x.key \/ f # x.next => series'[k][f] = series[k][f]
             /\ writing' = [writing EXCEPT ![w] = NextField(x)]
             /\ WindowOf(w) \in Nat /\ (WindowOf(w) > 0 <=> Trimmed(x.key))
          BY <1>5, WriteParts
    <2>2. /\ writing'[w] = NextField(x)
          /\ \A u \in Writers \ {w} : writing'[u] = writing[u]
          BY <1>0, <2>1
    <2>3. \A k \in Keys : \A e \in series'[k].offset :
             \/ e \in series[k].offset
             \/ k = x.key /\ x.next = "offset" /\ e = OffsetEntry(x)
      <3> SUFFICES ASSUME NEW k \in Keys, NEW e \in series'[k].offset, e \notin series[k].offset
                   PROVE  k = x.key /\ x.next = "offset" /\ e = OffsetEntry(x)
          OBVIOUS
      <3>1. k = x.key /\ x.next = "offset"  BY <2>1 DEF Fields
      <3> DEFINE set == series[x.key][x.next]
                 window == WindowOf(w)
                 new == series'[x.key][x.next]
      <3>2. new = ts_add(set, d, window, "done") /\ window \in Nat /\ set \in Series
            BY <1>0, <2>1
      <3>3. e \in new  BY <3>1
      <3> HIDE DEF set, window, new
      <3>4. e \in set \cup {d}  BY <3>2, <3>3, NewestStays
      <3> QED  BY <2>1, <3>1, <3>4 DEF set
    <2>4. ASSUME x.next = "offset"
          PROVE  /\ OnItsWay(x.key, OffsetEntry(x), {"delay"})'
                 /\ OnItsWay(x.key, OffsetEntry(x), {"delay", "jitter"})'
      <3> DEFINE y == [x EXCEPT !.next = "delay"]
      <3>1. NextField(x) = {y}  BY <2>4 DEF NextField
      <3>2. y.next = "delay" /\ y.key = x.key /\ OffsetEntry(y) = OffsetEntry(x)
            BY <2>1 DEF Writing, OffsetEntry
      <3> HIDE DEF y
      <3>3. y \in writing'[w]  BY <2>2, <3>1
      <3> QED  BY <2>1, <3>2, <3>3 DEF OnItsWay, WritersOf
    <2>5. ASSUME NEW k \in Keys, NEW e \in series[k].offset, NEW f \in {"delay", "jitter"},
                 NEW before, before = (IF f = "delay" THEN {"delay"} ELSE {"delay", "jitter"}),
                 OnItsWay(k, e, before)
          PROVE  OnItsWay(k, e, before)' \/ Reached(k, f, e.ts)'
      <3>0. PICK u \in WritersOf(k) : \E y \in writing[u] :
                y.key = k /\ y.next \in before /\ e = OffsetEntry(y)
            BY <2>5 DEF OnItsWay
      <3>1. PICK y \in writing[u] : y.key = k /\ y.next \in before /\ e = OffsetEntry(y)
            BY <3>0
      <3>2. u \in Writers  BY DEF WritersOf
      <3>3. CASE u # w
        <4>1. y \in writing'[u]  BY <2>2, <3>2, <3>3
        <4> QED  BY <3>1, <4>1 DEF OnItsWay
      <3>4. CASE u = w
        <4>1. y = x /\ e = OffsetEntry(x) /\ e.ts = x.ts
              BY <3>1, <3>2, <3>4 DEF OneEach, OffsetEntry
        <4>2. CASE x.next = f
          <5> DEFINE set == series[k][f]
                     window == WindowOf(w)
                     new == series'[k][f]
          <5>1. f \in Fields /\ k = x.key  BY <3>1, <4>1 DEF Fields
          <5>2. new = ts_add(set, d, window, "done") /\ window \in Nat /\ set \in Series
                BY <1>0, <2>1, <4>2, <5>1
          <5>3. window > 0 => d.ts > 0
                BY <2>1, <4>1, <5>1 DEF Stamped, Fields
          <5> HIDE DEF set, window, new
          <5>4. \E c \in new : c.ts >= d.ts  BY <5>2, <5>3, NewestStays
          <5> QED  BY <2>1, <4>1, <5>4 DEF Reached, new
        <4>3. CASE x.next # f
          <5>1. x.next = "delay" /\ "jitter" \in before
                BY <2>5, <3>1, <4>1, <4>3
          <5> DEFINE z == [x EXCEPT !.next = "jitter"]
          <5>2. NextField(x) = {z}  BY <5>1 DEF NextField
          <5>3. z.next = "jitter" /\ z.key = x.key /\ OffsetEntry(z) = OffsetEntry(x)
                BY <2>1 DEF Writing, OffsetEntry
          <5> HIDE DEF z
          <5>4. z \in writing'[w]  BY <2>2, <5>2
          <5>5. w \in WritersOf(k)  BY <3>4
          <5> QED  BY <3>1, <4>1, <5>1, <5>3, <5>4, <5>5 DEF OnItsWay, WritersOf
        <4> QED  BY <4>2, <4>3
      <3> QED  BY <3>3, <3>4
    <2>6. ASSUME NEW k \in Keys, NEW e \in series'[k].offset
          PROVE  /\ OnItsWay(k, e, {"delay"})' \/ Reached(k, "delay", e.ts)'
                 /\ OnItsWay(k, e, {"delay", "jitter"})' \/ Reached(k, "jitter", e.ts)'
      <3>1. CASE e \in series[k].offset
        <4>1. /\ Reached(k, "delay", e.ts) => Reached(k, "delay", e.ts)'
              /\ Reached(k, "jitter", e.ts) => Reached(k, "jitter", e.ts)'
              BY <1>0, <1>1, <3>1 DEF Fields
        <4>2. /\ OnItsWay(k, e, {"delay"}) \/ Reached(k, "delay", e.ts)
              /\ OnItsWay(k, e, {"delay", "jitter"}) \/ Reached(k, "jitter", e.ts)
              BY <3>1 DEF Follow
        <4>3. OnItsWay(k, e, {"delay"}) =>
                  OnItsWay(k, e, {"delay"})' \/ Reached(k, "delay", e.ts)'
              BY <2>5, <3>1
        <4>4. OnItsWay(k, e, {"delay", "jitter"}) =>
                  OnItsWay(k, e, {"delay", "jitter"})' \/ Reached(k, "jitter", e.ts)'
              BY <2>5, <3>1
        <4> QED  BY <4>1, <4>2, <4>3, <4>4
      <3>2. CASE e \notin series[k].offset
        <4>1. k = x.key /\ x.next = "offset" /\ e = OffsetEntry(x)  BY <2>3, <3>2
        <4> QED  BY <2>4, <4>1
      <3> QED  BY <3>1, <3>2
    <2> QED  BY <2>6 DEF Follow
  <1> QED  BY <1>2, <1>3, <1>4, <1>5, StoreMoves

\* Of more entries than tasks write the source, one is not being stored any more.
LEMMA SomeArrived ==
    ASSUME StoreInv, OneEach, Follow, NEW k \in Keys, NEW R \in SUBSET series[k].offset,
           IsFiniteSet(R), Cardinality(WritersOf(k)) < Cardinality(R)
    PROVE  \E e \in R : Reached(k, "delay", e.ts) /\ Reached(k, "jitter", e.ts)
  <1> SUFFICES ASSUME \A e \in R : ~ (Reached(k, "delay", e.ts) /\ Reached(k, "jitter", e.ts))
               PROVE  FALSE
      OBVIOUS
  <1> DEFINE Sample(w, e) == \E x \in writing[w] : e = OffsetEntry(x)
             f == [e \in R |-> CHOOSE w \in WritersOf(k) : Sample(w, e)]
  <1>1. \A e \in R : \E w \in WritersOf(k) : Sample(w, e)
    <2> SUFFICES ASSUME NEW e \in R
                 PROVE  \E w \in WritersOf(k) : Sample(w, e)
        OBVIOUS
    <2>1. OnItsWay(k, e, {"delay"}) \/ OnItsWay(k, e, {"delay", "jitter"})
          BY DEF Follow
    <2> QED  BY <2>1 DEF OnItsWay
  <1>2. IsFiniteSet(WritersOf(k))
    <2>1. WritersOf(k) \in SUBSET Writers  BY DEF WritersOf
    <2> QED  BY <2>1, SourceKeys, FS_Subset
  <1>3. f \in [R -> WritersOf(k)] /\ \A e \in R : Sample(f[e], e)
    <2> HIDE DEF Sample
    <2> QED  BY <1>1
  <1> HIDE DEF f
  <1>4. PICK d, e \in R : d # e /\ f[d] = f[e]
        BY <1>2, <1>3, FS_PigeonHole
  <1>5. f[d] \in Writers  BY <1>3 DEF WritersOf
  <1>6. PICK x \in writing[f[d]] : d = OffsetEntry(x)  BY <1>3
  <1>7. PICK y \in writing[f[d]] : e = OffsetEntry(y)  BY <1>3, <1>4
  <1>8. x = y  BY <1>5, <1>6, <1>7 DEF OneEach
  <1> QED  BY <1>4, <1>6, <1>7, <1>8

\* ts_recent: what a series has reached is read.
LEMMA ReachedIsRead ==
    ASSUME StoreInv, started \in Nat, at \in DOMAIN Sources, NEW f \in Fields,
           Reached(Sources[at].key, f, since), NEW R \in Reading(f)
    PROVE  R # {}
  <1> DEFINE set == series[Sources[at].key][f]
             E == {x \in set : x.ts >= since}
  <1>1. Sources[at].key \in Keys  BY DEF Keys
  <1>2. set \in Series  BY <1>1 DEF StoreInv
  <1>3. E \in SUBSET set /\ E # {}  BY DEF Reached
  <1>4. Cardinality(R) = AtMost(Limit, Cardinality(E))
        BY DEF Reading, ts_recent
  <1>5. IsFiniteSet(E)  BY <1>2, <1>3, FS_Subset DEF Series
  <1> HIDE DEF E
  <1>6. Cardinality(E) \in Nat /\ Cardinality(E) # 0
        BY <1>3, <1>5, FS_CardinalityType, FS_EmptySet
  <1>7. Cardinality(R) # 0  BY <1>4, <1>6, Constants DEF AtMost
  <1> QED  BY <1>7, FS_EmptySet

\* Once a source's offsets are read, its delays and jitters are there to be read.
LEMMA ReadOnStep ==
    ASSUME TypeInv, OneEach, Stamped, Follow, ReadOn, ~ StoreFails, restarts = 0, [Next]_vars
    PROVE  ReadOn'
  <1>0. /\ StoreInv /\ started \in Nat /\ got \in [Fields -> Series]
        /\ fpc \in {"delay", "jitter"} => at \in DOMAIN Sources
        BY DEF TypeInv, LoopInv
  <1>1. \A k \in Keys, f \in Fields : \A t \in Int : Reached(k, f, t) => Reached(k, f, t)'
        BY <1>0, StampedStep
  <1>2. since \in Int  BY <1>0, Constants DEF since, AtLeast
  <1>3. \A i \in DOMAIN Sources : Sources[i].key \in Keys  BY SourceKeys
  <1>4. CASE UNCHANGED <<fpc, at, got, started>>
    <2>1. since' = since  BY <1>4 DEF since
    <2> QED  BY <1>0, <1>1, <1>2, <1>3, <1>4, <2>1 DEF ReadOn, Fields
  <1>5. CASE fpc' \notin {"delay", "jitter"}  BY <1>5 DEF ReadOn
  <1>6. CASE ReadOffset
    <2>1. PICK R \in Reading("offset") :
             IF Cardinality(R) < Limit
             THEN at' = at + 1 /\ UNCHANGED <<got, fpc>>
             ELSE got' = [NoReading EXCEPT !.offset = R] /\ fpc' = "delay" /\ at' = at
          BY <1>6 DEF ReadOffset
    <2>2. fpc = "offset" /\ at \in DOMAIN Sources /\ UNCHANGED <<series, started>>
          BY <1>6 DEF ReadOffset, storeVars
    <2>3. CASE Cardinality(R) < Limit  BY <2>1, <2>2, <2>3 DEF ReadOn
    <2>4. CASE ~ (Cardinality(R) < Limit)
      <3> DEFINE k == Sources[at].key
      <3>1. k \in Keys /\ since' = since /\ at' = at /\ fpc' = "delay"
            BY <1>3, <2>1, <2>2, <2>4 DEF since
      <3> SUFFICES ASSUME Enough(k)
                   PROVE  Reached(k, "delay", since) /\ Reached(k, "jitter", since)
          BY <2>2, <3>1 DEF ReadOn, Reached, Enough, WritersOf
      <3>2. /\ R \in Series /\ R \subseteq series[k].offset
            /\ \A e \in R : e.ts \in Int
            BY <1>0, <2>2, ReadingType DEF Fields
      <3>3. \A e \in R : e.ts >= since
        <4> DEFINE set == series[k].offset
        <4>1. R \in ts_recent(set, since, Limit) /\ set \in Series /\ Limit \in Nat
              BY <1>0, <3>1, Constants DEF Reading, StoreInv, Fields
        <4> HIDE DEF set
        <4> QED  BY <1>2, <4>1, RecentType
      <3>4. Cardinality(WritersOf(k)) < Cardinality(R)
        <4>1. IsFiniteSet(R)  BY <3>2 DEF Series
        <4>2. WritersOf(k) \in SUBSET Writers  BY DEF WritersOf
        <4>3. IsFiniteSet(WritersOf(k))  BY <4>2, SourceKeys, FS_Subset
        <4>4. Cardinality(R) \in Nat /\ Cardinality(WritersOf(k)) \in Nat
              BY <4>1, <4>3, FS_CardinalityType
        <4> HIDE DEF k
        <4> QED  BY <2>4, <4>4, Constants DEF Enough
      <3>5. PICK e \in R : Reached(k, "delay", e.ts) /\ Reached(k, "jitter", e.ts)
        <4>1. IsFiniteSet(R)  BY <3>2 DEF Series
        <4> HIDE DEF k
        <4> QED  BY <1>0, <3>1, <3>2, <3>4, <4>1, SomeArrived
      <3>6. \A f \in {"delay", "jitter"} : \A d \in series[k][f] : d.ts \in Int
            BY <1>0, <3>1 DEF StoreInv, Series, Entry, Fields
      <3>7. e.ts >= since /\ e.ts \in Int  BY <3>2, <3>3
      <3> HIDE DEF k
      <3> QED  BY <1>2, <3>5, <3>6, <3>7 DEF Reached
    <2> QED  BY <2>3, <2>4
  <1>7. CASE ReadDelay
    <2>1. PICK R \in Reading("delay") : got' = [got EXCEPT !.delay = R]
          BY <1>7 DEF ReadDelay
    <2>2. fpc = "delay" /\ fpc' = "jitter" /\ UNCHANGED <<series, started, at>>
          BY <1>7 DEF ReadDelay, storeVars
    <2>3. since' = since  BY <2>2 DEF since
    <2>4. got'.delay = R  BY <1>0, <2>1 DEF Fields
    <2>5. Reached(Sources[at].key, "delay", since) => R # {}
          BY <1>0, <2>1, <2>2, ReachedIsRead DEF Fields
    <2> QED  BY <2>2, <2>3, <2>4, <2>5 DEF ReadOn, Reached, Enough, WritersOf
  <1>8. UNCHANGED <<fpc, at, got, started>> \/ fpc' \notin {"delay", "jitter"} \/ ReadOffset
        \/ ReadDelay
        BY DEF Next, Iterate, Advance, Restart, Write, Measure, WriteField, WriteSummary,
            Tick, ReadJitter, ReadFails, NothingToFuse, PushEwma, Publish, ReadPhc,
            SummarizeSource, SummarizeFused, vars
  <1> QED  BY <1>4, <1>5, <1>6, <1>7, <1>8

\* What is fused of a source that was read to the end is complete.
LEMMA CompleteStep ==
    ASSUME TypeInv, ReadOn, \A i \in DOMAIN samples : Complete(samples[i]), [Next]_vars
    PROVE  \A i \in DOMAIN samples' : Complete(samples'[i])
  <1>0. IsSeq(samples)  BY DEF TypeInv, LoopInv
  <1>1. CASE UNCHANGED samples  BY <1>1
  <1>2. CASE samples' = <<>>  BY <1>2
  <1>3. CASE SummarizeSource
    <2>1. samples # <<>> /\ samples' = Tail(samples)  BY <1>3 DEF SummarizeSource
    <2> QED  BY <1>0, <2>1, Shorter
  <1>4. CASE ReadJitter
    <2>1. PICK R \in Reading("jitter") :
             samples' = Append(samples,
                   [stats |-> from_series(Sources[at].key.id, Sources[at].weight,
                                 Vals(got.offset), Vals(got.delay), Vals(R)),
                    used |-> [got EXCEPT !.jitter = R]])
          BY <1>4 DEF ReadJitter
    <2> DEFINE stats == from_series(Sources[at].key.id, Sources[at].weight,
                                    Vals(got.offset), Vals(got.delay), Vals(R))
               x == [stats |-> stats, used |-> [got EXCEPT !.jitter = R]]
               n == Len(samples)
    <2>2. /\ fpc = "jitter" /\ StoreInv /\ started \in Nat /\ at \in DOMAIN Sources
          /\ got \in [Fields -> Series]
          BY <1>4 DEF TypeInv, LoopInv, ReadJitter
    <2>3. Complete(x)
      <3>1. stats.peer_id = Sources[at].key.id  BY DEF from_series
      <3> HIDE DEF stats
      <3>2. x.stats.peer_id = Sources[at].key.id  BY <3>1
      <3>3. x.used.delay = got.delay /\ x.used.jitter = R  BY <2>2 DEF Fields
      <3> HIDE DEF x
      <3>4. Sources[at].key \in Keys  BY <2>2, SourceKeys
      <3>5. Reached(Sources[at].key, "jitter", since) => R # {}
            BY <2>2, ReachedIsRead DEF Fields
      <3> QED  BY <2>2, <3>2, <3>3, <3>4, <3>5 DEF Complete, ReadOn
    <2>4. samples' = Append(samples, x)  BY <2>1
    <2> HIDE DEF x
    <2>5. /\ n \in Nat /\ DOMAIN samples' = 1 .. n + 1 /\ DOMAIN samples = 1 .. n
          /\ samples'[n + 1] = x
          /\ \A i \in DOMAIN samples : samples'[i] = samples[i]
          BY <1>0, <2>4, Longer
    <2> HIDE DEF n
    <2>6. ASSUME NEW i \in DOMAIN samples'
          PROVE  Complete(samples'[i])
      <3>1. CASE i = n + 1  BY <2>3, <2>5, <3>1
      <3>2. CASE i # n + 1
        <4>1. i \in DOMAIN samples  BY <2>5, <3>2
        <4> QED  BY <2>5, <4>1
      <3> QED  BY <3>1, <3>2
    <2> QED  BY <2>6
  <1>5. UNCHANGED samples \/ samples' = <<>> \/ SummarizeSource \/ ReadJitter
        BY DEF Next, Iterate, Advance, Restart, Write, Measure, WriteField, WriteSummary,
            Tick, ReadOffset, ReadDelay, ReadFails, NothingToFuse, PushEwma, Publish, ReadPhc,
            SummarizeFused, vars
  <1> QED  BY <1>1, <1>2, <1>3, <1>4, <1>5

\* Nothing is lost while nothing fails and nothing is started again.
LEMMA LossStep == TypeInv /\ LossInv /\ [Next]_vars => LossInv'
  <1> SUFFICES ASSUME TypeInv, LossInv, [Next]_vars PROVE LossInv'  OBVIOUS
  <1>0. StoreInv /\ restarts \in Nat  BY DEF TypeInv, LoopInv
  <1>1. OneEach'  BY <1>0, OneEachStep DEF LossInv
  <1>2. ~ StoreFails => Stamped'  BY <1>0, StampedStep DEF LossInv
  <1>3. ASSUME ~ StoreFails, restarts' = 0
        PROVE  /\ Follow' /\ ReadOn'
               /\ \A i \in DOMAIN samples' : Complete(samples'[i])
    <2>1. restarts = 0
      <3>1. restarts' = restarts \/ restarts' = restarts + 1
            BY StoreMoves DEF Restart, Measure, WriteField, WriteSummary
      <3> QED  BY <1>0, <1>3, <3>1
    <2>2. OneEach /\ Stamped /\ Follow /\ ReadOn /\ \A i \in DOMAIN samples : Complete(samples[i])
          BY <1>3, <2>1 DEF LossInv
    <2> QED  BY <1>0, <1>3, <2>1, <2>2, FollowStep, ReadOnStep, CompleteStep
  <1> QED  BY <1>1, <1>2, <1>3 DEF LossInv, Complete, Enough, WritersOf

\* No median of an empty series gets into the statistics of a source that fewer tasks
\* write than values are required of it, for every number of sources and samples:
\* an offset that is read early has been followed by its delay and jitter, or a
\* task is still storing it, and there are fewer tasks than offsets.
THEOREM DelaysAlwaysKnown == Spec => []DelaysKnown
  <1>1. Init => LossInv
    <2> SUFFICES ASSUME Init PROVE LossInv  OBVIOUS
    <2>1. \A k \in Keys, f \in Fields : series[k][f] = {}  BY DEF Init
    <2>2. \A w \in Writers : writing[w] = {}  BY DEF Init
    <2>3. fpc = "wait" /\ DOMAIN samples = {}  BY DEF Init
    <2> QED  BY <2>1, <2>2, <2>3 DEF LossInv, OneEach, Stamped, Follow, ReadOn, Fields
  <1>2. LossInv => DelaysKnown
    <2> SUFFICES ASSUME LossInv, ~ StoreFails, restarts = 0, NEW s \in Gathered, NEW key \in Keys,
                        key.id = s.stats.peer_id,
                        \A other \in Keys : other.id = key.id => other = key,
                        Cardinality(WritersOf(key)) < Limit
                 PROVE  s.used.delay # {} /\ s.used.jitter # {}
        BY DEF DelaysKnown
    <2>1. Complete(s)  BY DEF LossInv, Gathered
    <2> QED  BY <2>1 DEF Complete, Enough
  <1> QED  BY <1>1, <1>2, LossStep, Typed, PTL DEF Spec
=============================================================================
