-------------------------- MODULE StatisticsProofs --------------------------
(***************************************************************************)
(* What src/time/fuse.rs, drift.rs, slew.rs and telemetry/metrics.rs       *)
(* promise of their statistics, for lists of any length.                   *)
(***************************************************************************)
EXTENDS Fuse, Drift, Slew, Telemetry, ArithmeticProofs

\* sort_by: i comes before j, by its key or by its place; the elements before j,
\* and the order of all of them.
Precedes(K, i, j) == K[i] < K[j] \/ (K[i] = K[j] /\ i < j)
Preceding(K, j) == {i \in DOMAIN K : Precedes(K, i, j)}
Order(K) ==
    [r \in DOMAIN K |-> CHOOSE j \in DOMAIN K : Cardinality(Preceding(K, j)) + 1 = r]

\* The order is one: every place is taken once and the keys never decrease.
LEMMA OrderIsSorted ==
    ASSUME NEW n \in Nat, NEW K \in [1 .. n -> Int]
    PROVE  /\ Order(K) \in [1 .. n -> 1 .. n]
           /\ \A r \in 1 .. n : Order(K)[r] \in 1 .. n
           /\ \A r, s \in 1 .. n : Order(K)[r] = Order(K)[s] => r = s
           /\ \A j \in 1 .. n : \E r \in 1 .. n : Order(K)[r] = j
           /\ \A r, s \in 1 .. n : r <= s => K[Order(K)[r]] <= K[Order(K)[s]]
  <1> DEFINE D == 1 .. n
             R == [j \in D |-> Cardinality(Preceding(K, j)) + 1]
  <1>1. DOMAIN K = D /\ IsFiniteSet(D) /\ Cardinality(D) = n  BY FS_Interval
  <1>2. ASSUME NEW j \in D
        PROVE  /\ IsFiniteSet(Preceding(K, j)) /\ Cardinality(Preceding(K, j)) \in Nat
               /\ R[j] \in D
    <2>1. Preceding(K, j) \in SUBSET D /\ Preceding(K, j) # D
          BY <1>1 DEF Preceding, Precedes
    <2>2. /\ IsFiniteSet(Preceding(K, j)) /\ Cardinality(Preceding(K, j)) <= n
          /\ Cardinality(Preceding(K, j)) # n
          BY <1>1, <2>1, FS_Subset
    <2>3. Cardinality(Preceding(K, j)) \in Nat  BY <2>2, FS_CardinalityType
    <2> QED  BY <2>2, <2>3
  <1>3. ASSUME NEW i \in D, NEW j \in D, Precedes(K, i, j)
        PROVE  R[i] < R[j]
    <2>1. Preceding(K, i) \in SUBSET Preceding(K, j)
          BY <1>1, <1>3 DEF Preceding, Precedes
    <2>2. i \in Preceding(K, j) /\ i \notin Preceding(K, i)
          BY <1>1, <1>3 DEF Preceding, Precedes
    <2>3. /\ Cardinality(Preceding(K, i)) <= Cardinality(Preceding(K, j))
          /\ Cardinality(Preceding(K, i)) # Cardinality(Preceding(K, j))
          BY <1>2, <2>1, <2>2, FS_Subset
    <2> QED  BY <1>2, <2>3
  <1>4. \A i, j \in D : i = j \/ Precedes(K, i, j) \/ Precedes(K, j, i)
        BY DEF Precedes
  <1>5. R \in [D -> D]  BY <1>2
  <1> HIDE DEF R
  <1>6. \A i, j \in D : R[i] = R[j] => i = j
    <2> SUFFICES ASSUME NEW i \in D, NEW j \in D, R[i] = R[j], i # j PROVE FALSE
        OBVIOUS
    <2>1. R[i] \in D /\ R[j] \in D  BY <1>5
    <2> QED  BY <1>3, <1>4, <2>1
  <1>7. R \in Injection(D, D)  BY <1>5, <1>6 DEF Injection, IsInjective
  <1>8. R \in Surjection(D, D)  BY <1>1, <1>7, FS_Injection
  <1>9. \A r \in D : \E j \in D : R[j] = r  BY <1>8 DEF Surjection
  <1> DEFINE O == Order(K)
  <1>10. O = [r \in D |-> CHOOSE j \in D : R[j] = r]
    <2>1. \A j \in D : R[j] = Cardinality(Preceding(K, j)) + 1  BY DEF R
    <2>2. O = [r \in D |-> CHOOSE j \in D : Cardinality(Preceding(K, j)) + 1 = r]
          BY <1>1 DEF Order
    <2>3. \A r \in D : (CHOOSE j \in D : Cardinality(Preceding(K, j)) + 1 = r)
                       = (CHOOSE j \in D : R[j] = r)
          BY <2>1, Zenon
    <2> QED  BY <2>2, <2>3
  <1>11. \A r \in D : O[r] \in D /\ R[O[r]] = r
    <2> HIDE DEF O
    <2> TAKE r \in D
    <2>1. O[r] = CHOOSE j \in D : R[j] = r  BY ONLY <1>10
    <2>2. \E j \in D : R[j] = r  BY <1>9
    <2> QED  BY ONLY <2>1, <2>2
  <1>12. O \in [D -> D]  BY <1>10, <1>11
  <1> HIDE DEF O
  <1>13. \A j \in D : R[j] \in D /\ O[R[j]] = j
    <2> TAKE j \in D
    <2>1. R[j] \in D  BY <1>5
    <2>2. R[O[R[j]]] = R[j] /\ O[R[j]] \in D  BY <1>11, <2>1
    <2> QED  BY <1>6, <2>1, <2>2
  <1>14. ASSUME NEW r \in D, NEW s \in D, r <= s PROVE K[O[r]] <= K[O[s]]
    <2>1. O[r] \in D /\ O[s] \in D /\ R[O[r]] = r /\ R[O[s]] = s  BY <1>11
    <2>2. ~ Precedes(K, O[s], O[r])  BY <1>3, <1>14, <2>1
    <2>3. K[O[r]] \in Int /\ K[O[s]] \in Int  BY <2>1
    <2> QED  BY <2>2, <2>3 DEF Precedes
  <1> QED  BY <1>11, <1>12, <1>13, <1>14 DEF O

\* Among more places than there are elements to avoid, one holds another element.
LEMMA OneOutside ==
    ASSUME NEW n \in Nat, NEW O \in [1 .. n -> 1 .. n],
           \A r, s \in 1 .. n : O[r] = O[s] => r = s,
           NEW a \in 1 .. n, NEW b \in 1 .. n,
           NEW S \in SUBSET (1 .. n), Cardinality(S) < b - a + 1
    PROVE  \E r \in a .. b : O[r] \notin S
  <1>1. SUFFICES ASSUME \A r \in a .. b : O[r] \in S PROVE FALSE  OBVIOUS
  <1> DEFINE f == [r \in a .. b |-> O[r]]
  <1>2. f \in Injection(a .. b, S)
    <2>1. a .. b \subseteq 1 .. n  OBVIOUS
    <2>2. f \in [a .. b -> S]  BY <1>1, <2>1
    <2>3. \A r, s \in a .. b : f[r] = f[s] => r = s  BY <2>1
    <2> QED  BY <2>2, <2>3 DEF Injection, IsInjective
  <1>3. IsFiniteSet(S)
    <2>1. IsFiniteSet(1 .. n)  BY FS_Interval
    <2> QED  BY <2>1, FS_Subset
  <1>4. Cardinality(a .. b) <= Cardinality(S)
    <2> HIDE DEF f
    <2> QED  BY <1>2, <1>3, FS_Injection
  <1>5. Cardinality(S) \in Nat  BY <1>3, FS_CardinalityType
  <1>6. Cardinality(a .. b) = IF a > b THEN 0 ELSE b - a + 1  BY FS_Interval
  <1>7. Cardinality(a .. b) >= b - a + 1  BY <1>6
  <1>8. a \in Int /\ b \in Int /\ Cardinality(a .. b) \in Int  BY <1>6
  <1> QED  BY <1>4, <1>5, <1>7, <1>8

\* Of the places that hold elements of a set, there is a last one.
LEMMA LargestIn ==
    ASSUME NEW n \in Nat, NEW K \in [1 .. n -> Int], NEW S \in SUBSET (1 .. n), S # {}
    PROVE  \E m \in S : \A i \in S : K[i] <= K[m]
  <1> DEFINE O == Order(K)
             T == {n - r : r \in {s \in 1 .. n : O[s] \in S}}
  <1>1. /\ \A r \in 1 .. n : O[r] \in 1 .. n
        /\ \A j \in 1 .. n : \E r \in 1 .. n : O[r] = j
        /\ \A r, s \in 1 .. n : r <= s => K[O[r]] <= K[O[s]]
        BY OrderIsSorted
  <1> HIDE DEF O
  <1>2. T \in SUBSET Nat  OBVIOUS
  <1>3. T # {}
    <2>1. PICK j \in S : TRUE  OBVIOUS
    <2>2. PICK r \in 1 .. n : O[r] = j  BY <1>1, <2>1
    <2>3. n - r \in T  BY <2>1, <2>2
    <2> QED  BY <2>3
  <1>4. PICK t \in T : \A u \in T : t <= u
    <2> HIDE DEF T
    <2> QED  BY <1>2, <1>3, Least
  <1>5. PICK s \in 1 .. n : O[s] \in S /\ t = n - s  BY <1>4
  <1>6. ASSUME NEW i \in S PROVE K[i] <= K[O[s]]
    <2>1. PICK r \in 1 .. n : O[r] = i  BY <1>1
    <2>2. n - r \in T  BY <2>1
    <2>3. r <= s
      <3> HIDE DEF T
      <3>1. n - s <= n - r  BY <1>4, <1>5, <2>2
      <3> QED  BY <3>1
    <2> QED  BY <1>1, <2>1, <2>3
  <1> QED  BY <1>5, <1>6

\* And of the smallest ones.
LEMMA SmallestIn ==
    ASSUME NEW n \in Nat, NEW K \in [1 .. n -> Int], NEW S \in SUBSET (1 .. n), S # {}
    PROVE  \E m \in S : \A i \in S : K[m] <= K[i]
  <1> DEFINE N == [i \in 1 .. n |-> -K[i]]
  <1>1. N \in [1 .. n -> Int]  OBVIOUS
  <1>2. PICK m \in S : \A i \in S : N[i] <= N[m]
    <2> HIDE DEF N
    <2> QED  BY <1>1, LargestIn
  <1>3. ASSUME NEW i \in S PROVE K[m] <= K[i]
    <2>1. K[i] \in Int /\ K[m] \in Int /\ -K[i] <= -K[m]  BY <1>2
    <2> QED  BY <2>1
  <1> QED  BY <1>3
-----------------------------------------------------------------------------
\* robust_median: what its values look like sorted.
LEMMA SortedValues ==
    ASSUME NEW values \in Seq(Int)
    PROVE  LET n == Len(values)
               O == Order(values)
               sorted == SortedBy(values, LAMBDA v : v)
           IN  /\ n \in Nat /\ DOMAIN values = 1 .. n /\ values \in [1 .. n -> Int]
               /\ sorted = [r \in 1 .. n |-> values[O[r]]]
               /\ sorted \in Seq(Int) /\ Len(sorted) = n
               /\ \A r, s \in 1 .. n : r <= s => sorted[r] <= sorted[s]
  <1> DEFINE n == Len(values)
             O == Order(values)
             sorted == SortedBy(values, LAMBDA v : v)
  <1>1. n \in Nat /\ DOMAIN values = 1 .. n /\ values \in [1 .. n -> Int]  OBVIOUS
  <1>2. sorted = [r \in 1 .. n |-> values[O[r]]]
        BY <1>1 DEF SortedBy, Order, Preceding, Precedes
  <1> HIDE DEF O, sorted, n
  <1>3. /\ \A r \in 1 .. n : O[r] \in 1 .. n
        /\ \A r, s \in 1 .. n : r <= s => values[O[r]] <= values[O[s]]
        BY <1>1, OrderIsSorted DEF O
  <1>4. sorted \in [1 .. n -> Int]  BY <1>1, <1>2, <1>3
  <1>5. sorted \in Seq(Int) /\ Len(sorted) = n  BY <1>1, <1>4
  <1>6. \A r, s \in 1 .. n : r <= s => sorted[r] <= sorted[s]  BY <1>2, <1>3
  <1> QED  BY <1>1, <1>2, <1>5, <1>6 DEF n, O, sorted

\* robust_median of a series is a value between its others: the middle, doubled.
LEMMA MedianOfSorted ==
    ASSUME NEW values \in Seq(Int), values # <<>>
    PROVE  LET n == Len(values)
               mid == n \div 2
               sorted == SortedBy(values, LAMBDA v : v)
           IN  /\ mid \in Nat /\ n = 2 * mid + (n % 2) /\ n % 2 \in {0, 1}
               /\ TwiceMedian(values) =
                    IF n % 2 = 0 THEN sorted[mid] + sorted[mid + 1]
                                 ELSE 2 * sorted[mid + 1]
  <1>1. Len(SortedBy(values, LAMBDA v : v)) = Len(values) /\ Len(values) \in Nat
        BY SortedValues
  <1> DEFINE n == Len(values)
  <1>2. n \in Nat  BY <1>1
  <1> HIDE DEF n
  <1>3. n \div 2 \in Nat /\ n = 2 * (n \div 2) + (n % 2) /\ n % 2 \in {0, 1}
        BY <1>2
  <1> QED  BY <1>1, <1>3 DEF n, TwiceMedian

\* robust_median of integers, doubled, is an integer.
LEMMA MedianType ==
    ASSUME NEW values \in Seq(Int)
    PROVE  TwiceMedian(values) \in Int
  <1> DEFINE n == Len(values)
             sorted == SortedBy(values, LAMBDA v : v)
  <1>1. CASE values = <<>>  BY <1>1 DEF TwiceMedian
  <1>2. CASE values # <<>>
    <2>1. n \in Nat \ {0} /\ sorted \in Seq(Int) /\ Len(sorted) = n
      <3>1. n # 0  BY <1>2
      <3>2. n \in Nat /\ sorted \in Seq(Int) /\ Len(sorted) = n  BY SortedValues
      <3> QED  BY <3>1, <3>2
    <2>2. /\ n \div 2 \in Nat /\ n = 2 * (n \div 2) + (n % 2) /\ n % 2 \in {0, 1}
          /\ TwiceMedian(values) =
                IF n % 2 = 0 THEN sorted[n \div 2] + sorted[n \div 2 + 1]
                             ELSE 2 * sorted[n \div 2 + 1]
          BY <1>2, MedianOfSorted
    <2> DEFINE mid == n \div 2
    <2> HIDE DEF n, sorted, mid
    <2>3. mid + 1 \in 1 .. n /\ (n % 2 = 0 => mid \in 1 .. n)  BY <2>1, <2>2 DEF mid
    <2>4. sorted[mid + 1] \in Int /\ (n % 2 = 0 => sorted[mid] \in Int)
          BY <2>1, <2>3
    <2> QED  BY <2>2, <2>4 DEF mid
  <1> QED  BY <1>1, <1>2

\* robust_median: whatever a minority of the values is, and wherever it stands, the
\* median lies in the range of the others.
THEOREM EveryMedianRobust ==
    ASSUME NEW values \in Seq(Int)
    PROVE  MedianRobust(values)
  <1> SUFFICES ASSUME NEW liars \in SUBSET (DOMAIN values),
                      2 * Cardinality(liars) < Len(values)
               PROVE  LET honest == DOMAIN values \ liars
                      IN  /\ \E i \in honest : 2 * values[i] <= TwiceMedian(values)
                          /\ \E i \in honest : TwiceMedian(values) <= 2 * values[i]
      BY DEF MedianRobust
  <1> DEFINE n == Len(values)
             O == Order(values)
             sorted == SortedBy(values, LAMBDA v : v)
             mid == n \div 2
             median == TwiceMedian(values)
             honest == (1 .. n) \ liars
  <1>1. /\ n \in Nat /\ DOMAIN values = 1 .. n /\ values \in [1 .. n -> Int]
        /\ sorted = [r \in 1 .. n |-> values[O[r]]]
        /\ \A r, s \in 1 .. n : r <= s => sorted[r] <= sorted[s]
        BY SortedValues
  <1>2. /\ O \in [1 .. n -> 1 .. n]
        /\ \A r \in 1 .. n : O[r] \in 1 .. n
        /\ \A r, s \in 1 .. n : O[r] = O[s] => r = s
        BY <1>1, OrderIsSorted
  <1>3. Cardinality(liars) \in Nat
    <2>1. IsFiniteSet(1 .. n)
      <3>1. n \in Int  BY <1>1
      <3> HIDE DEF n
      <3> QED  BY <3>1, FS_Interval
    <2> QED  BY <1>1, <2>1, FS_Subset, FS_CardinalityType
  <1>4. values # <<>> /\ n > 0  BY <1>1, <1>3
  <1>5. /\ mid \in Nat /\ n = 2 * mid + (n % 2) /\ n % 2 \in {0, 1}
        /\ median = IF n % 2 = 0 THEN sorted[mid] + sorted[mid + 1]
                                 ELSE 2 * sorted[mid + 1]
        BY <1>4, MedianOfSorted
  <1>6. 2 * Cardinality(liars) < n /\ liars \in SUBSET (1 .. n)  BY <1>1
  <1> HIDE DEF n, O, sorted, mid, median
  <1>7. \A r \in 1 .. n : sorted[r] \in Int /\ sorted[r] = values[O[r]]
        BY <1>1, <1>2
  <1>8. \E i \in honest : 2 * values[i] <= median
    <2> DEFINE b == IF n % 2 = 0 THEN mid ELSE mid + 1
    <2>1. b \in 1 .. n /\ Cardinality(liars) < b - 1 + 1 /\ 1 \in 1 .. n
          BY <1>1, <1>3, <1>4, <1>5, <1>6
    <2>2. PICK r \in 1 .. b : O[r] \notin liars
      <3> HIDE DEF b
      <3> QED  BY <1>1, <1>2, <1>6, <2>1, OneOutside
    <2>3. r \in 1 .. n /\ mid + 1 \in 1 .. n /\ (n % 2 = 0 => mid \in 1 .. n)
          BY <1>1, <1>4, <1>5, <2>1
    <2>4. sorted[r] <= sorted[mid + 1] /\ (n % 2 = 0 => sorted[r] <= sorted[mid])
          BY <1>1, <1>5, <2>3
    <2>5. 2 * sorted[r] <= median  BY <1>5, <1>7, <2>3, <2>4
    <2>6. O[r] \in honest  BY <1>2, <2>2, <2>3
    <2> QED  BY <1>7, <2>3, <2>5, <2>6
  <1>9. \E i \in honest : median <= 2 * values[i]
    <2> DEFINE a == mid + 1
    <2>1. a \in 1 .. n /\ n \in 1 .. n /\ Cardinality(liars) < n - a + 1
          BY <1>1, <1>3, <1>4, <1>5, <1>6
    <2>2. PICK r \in a .. n : O[r] \notin liars
      <3> HIDE DEF a
      <3> QED  BY <1>1, <1>2, <1>6, <2>1, OneOutside
    <2>3. r \in 1 .. n /\ mid + 1 \in 1 .. n /\ (n % 2 = 0 => mid \in 1 .. n)
          BY <1>1, <1>4, <1>5, <2>1
    <2>4. sorted[mid + 1] <= sorted[r] /\ (n % 2 = 0 => sorted[mid] <= sorted[r])
          BY <1>1, <1>5, <2>3
    <2>5. median <= 2 * sorted[r]  BY <1>5, <1>7, <2>3, <2>4, SMTT(30)
    <2>6. O[r] \in honest  BY <1>2, <2>2, <2>3
    <2> QED  BY <1>7, <2>3, <2>5, <2>6
  <1> QED  BY <1>1, <1>8, <1>9 DEF median, n

\* robust_median lies between two of the values.
LEMMA MedianBetween ==
    ASSUME NEW values \in Seq(Int), values # <<>>
    PROVE  /\ TwiceMedian(values) \in Int
           /\ \E i \in DOMAIN values : 2 * values[i] <= TwiceMedian(values)
           /\ \E i \in DOMAIN values : TwiceMedian(values) <= 2 * values[i]
  <1> DEFINE liars == {}
  <1>1. Len(values) \in Nat /\ Len(values) > 0  OBVIOUS
  <1>2. Cardinality(liars) = 0  BY FS_EmptySet
  <1>3. liars \in SUBSET (DOMAIN values) /\ 2 * Cardinality(liars) < Len(values)
        BY <1>1, <1>2
  <1>4. DOMAIN values \ liars = DOMAIN values  OBVIOUS
  <1> HIDE DEF liars
  <1>5. MedianRobust(values)  BY EveryMedianRobust
  <1>6. /\ \E i \in DOMAIN values \ liars : 2 * values[i] <= TwiceMedian(values)
        /\ \E i \in DOMAIN values \ liars : TwiceMedian(values) <= 2 * values[i]
        BY <1>3, <1>5 DEF MedianRobust
  <1> QED  BY <1>4, <1>6, MedianType
-----------------------------------------------------------------------------
\* PeerSample: what a summary of a source is made of.
Summaries(Sample) ==
    \A s \in Sample : /\ s.peer_weight \in Nat \ {0} /\ s.jitter \in Nat
                      /\ s.offset \in Int /\ s.delay \in Int

\* from_series makes one of series of integers and a positive weight.
LEMMA SeriesSummary ==
    ASSUME NEW id, NEW weight \in Nat \ {0}, NEW offsets \in Seq(Int),
           NEW delays \in Seq(Int), NEW jitters \in Seq(Int)
    PROVE  Summaries({from_series(id, weight, offsets, delays, jitters)})
  <1>1. /\ TwiceMedian(offsets) \in Int /\ TwiceMedian(delays) \in Int
        /\ TwiceMedian(jitters) \in Int
        BY MedianType
  <1> QED  BY <1>1 DEF Summaries, from_series, Magnitude

\* select_best_peers: the first k samples by score, at least one if there is one.
LEMMA BestSamples ==
    ASSUME NEW Sample, Summaries(Sample), NEW samples \in Seq(Sample)
    PROVE  LET n == Len(samples)
               K == [i \in 1 .. n |-> peer_score(samples[i])]
               O == Order(K)
               sorted == [r \in 1 .. n |-> samples[O[r]]]
               k == AtMost(KeepCount(n), n)
           IN  /\ K \in [1 .. n -> Int]
               /\ SortedBy(samples, peer_score) = sorted
               /\ k \in 0 .. n /\ (n # 0 => k # 0)
               /\ select_best_peers(samples) = SubSeq(sorted, 1, k)
               /\ select_best_peers(samples) \in Seq(Sample)
               /\ Len(select_best_peers(samples)) = k
               /\ \A j \in 1 .. k : select_best_peers(samples)[j] = sorted[j]
  <1> DEFINE n == Len(samples)
             K == [i \in 1 .. n |-> peer_score(samples[i])]
             O == Order(K)
             sorted == [r \in 1 .. n |-> samples[O[r]]]
             k == AtMost(KeepCount(n), n)
  <1>1. n \in Nat /\ DOMAIN samples = 1 .. n /\ \A i \in 1 .. n : samples[i] \in Sample
        OBVIOUS
  <1>2. \A i \in 1 .. n : peer_score(samples[i]) \in Int
        BY <1>1 DEF Summaries, peer_score, Magnitude
  <1>3. K \in [1 .. n -> Int]  BY <1>2
  <1>4. SortedBy(samples, peer_score) = sorted
    <2> DEFINE Score(i) == peer_score(samples[i])
               Before(j) == {i \in 1 .. n : Score(i) < Score(j)
                                             \/ (Score(i) = Score(j) /\ i < j)}
    <2>1. SortedBy(samples, peer_score)
            = [r \in 1 .. n |-> samples[CHOOSE j \in 1 .. n :
                                            Cardinality(Before(j)) + 1 = r]]
          BY <1>1 DEF SortedBy
    <2>2. \A j \in 1 .. n : Preceding(K, j) = Before(j)
          BY DEF Preceding, Precedes
    <2> HIDE DEF Before, n
    <2>3. \A r \in 1 .. n : O[r] = CHOOSE j \in 1 .. n :
                                        Cardinality(Before(j)) + 1 = r
      <3>1. DOMAIN K = 1 .. n  OBVIOUS
      <3> HIDE DEF K
      <3>2. O = [r \in 1 .. n |-> CHOOSE j \in 1 .. n :
                                     Cardinality(Preceding(K, j)) + 1 = r]
            BY <3>1 DEF Order
      <3>3. \A r \in 1 .. n : (CHOOSE j \in 1 .. n : Cardinality(Preceding(K, j)) + 1 = r)
                           = (CHOOSE j \in 1 .. n : Cardinality(Before(j)) + 1 = r)
            BY <2>2, Zenon
      <3> QED  BY <3>2, <3>3
    <2> HIDE DEF O
    <2> QED  BY <2>1, <2>3
  <1>5. k \in 0 .. n /\ (n # 0 => k # 0)
    <2>1. BestQuantile[1] \in Nat /\ BestQuantile[2] \in Nat \ {0}  BY FuseAssumption
    <2> DEFINE a == n * BestQuantile[1]
    <2>2. a \in Nat  BY <1>1, <2>1
    <2> HIDE DEF a, n
    <2>3. (a + BestQuantile[2] - 1) \div BestQuantile[2] \in Int  BY <2>1, <2>2
    <2>4. CeilDiv(a, BestQuantile[2]) \in Int  BY <2>3 DEF CeilDiv
    <2>5. KeepCount(n) \in Int /\ KeepCount(n) >= 1
          BY <2>4 DEF KeepCount, AtLeast, a
    <2> QED  BY <1>1, <2>5 DEF AtMost
  <1> HIDE DEF K
  <1>6. sorted \in Seq(Sample) /\ Len(sorted) = n
    <2> HIDE DEF n
    <2>1. \A r \in 1 .. n : O[r] \in 1 .. n  BY <1>1, <1>3, OrderIsSorted
    <2> HIDE DEF O
    <2>2. sorted \in [1 .. n -> Sample]  BY <1>1, <2>1
    <2> HIDE DEF sorted
    <2> QED  BY <1>1, <2>2
  <1>7. select_best_peers(samples) = SubSeq(sorted, 1, k)
        BY <1>4 DEF select_best_peers
  <1> HIDE DEF n, O, sorted, k
  <1>8. /\ SubSeq(sorted, 1, k) \in Seq(Sample) /\ Len(SubSeq(sorted, 1, k)) = k
        /\ \A j \in 1 .. k : SubSeq(sorted, 1, k)[j] = sorted[j]
        BY <1>1, <1>5, <1>6
  <1> QED  BY <1>3, <1>4, <1>5, <1>7, <1>8 DEF n, K, O, sorted, k

\* select_best_peers: those kept are never fewer than one, and no dropped sample beats
\* a kept one.
THEOREM EveryBestIsKept ==
    ASSUME NEW Sample, Summaries(Sample), NEW samples \in Seq(Sample)
    PROVE  BestAreKept(samples)
  <1> DEFINE n == Len(samples)
             K == [i \in 1 .. n |-> peer_score(samples[i])]
             O == Order(K)
             sorted == [r \in 1 .. n |-> samples[O[r]]]
             k == AtMost(KeepCount(n), n)
             best == select_best_peers(samples)
             Among(x) == {j \in 1 .. n : samples[j] = x}
             Taken(x) == {r \in 1 .. k : best[r] = x}
  <1>1. n \in Nat /\ DOMAIN samples = 1 .. n  OBVIOUS
  <1>2. /\ K \in [1 .. n -> Int]
        /\ k \in 0 .. n /\ (n # 0 => k # 0)
        /\ best \in Seq(Sample) /\ Len(best) = k
        /\ \A j \in 1 .. k : best[j] = sorted[j]
        BY BestSamples
  <1>3. \A i \in 1 .. n : K[i] = peer_score(samples[i])  OBVIOUS
  <1>4. n = 0 <=> samples = <<>>  OBVIOUS
  <1>5. sorted = [r \in 1 .. n |-> samples[O[r]]]  OBVIOUS
  <1> HIDE DEF n, k, K
  <1>6. /\ \A r \in 1 .. n : O[r] \in 1 .. n
        /\ \A r, s \in 1 .. n : O[r] = O[s] => r = s
        /\ \A j \in 1 .. n : \E r \in 1 .. n : O[r] = j
        /\ \A r, s \in 1 .. n : r <= s => K[O[r]] <= K[O[s]]
        BY <1>1, <1>2, OrderIsSorted
  <1> HIDE DEF O, sorted, best
  <1>7. DOMAIN best = 1 .. k /\ \A j \in 1 .. k : j \in 1 .. n /\ best[j] = samples[O[j]]
    <2>1. DOMAIN best = 1 .. k  BY <1>2
    <2>2. \A j \in 1 .. k : j \in 1 .. n  BY <1>1, <1>2
    <2>3. \A j \in 1 .. n : sorted[j] = samples[O[j]]  BY <1>5
    <2> QED  BY <1>2, <2>1, <2>2, <2>3
  <1>8. \A x : IsFiniteSet(Among(x)) /\ IsFiniteSet(Taken(x))
    <2> TAKE x
    <2>1. k \in Int /\ n \in Int  BY <1>1, <1>2
    <2>2. IsFiniteSet(1 .. n) /\ IsFiniteSet(1 .. k)  BY <2>1, FS_Interval
    <2> QED  BY <2>2, FS_Subset
  <1>9. ASSUME NEW x
        PROVE  /\ Cardinality(Taken(x)) <= Cardinality(Among(x))
               /\ Cardinality(Taken(x)) = Cardinality(Among(x))
                    <=> \A m \in Among(x) : \E r \in Taken(x) : O[r] = m
    <2> DEFINE f == [r \in Taken(x) |-> O[r]]
    <2>1. f \in [Taken(x) -> Among(x)]  BY <1>6, <1>7
    <2>2. \A r, s \in Taken(x) : f[r] = f[s] => r = s  BY <1>6, <1>7
    <2>3. \A r \in Taken(x) : f[r] = O[r]  OBVIOUS
    <2> DEFINE A == Among(x)
               T == Taken(x)
    <2>4. IsFiniteSet(A)  BY <1>8
    <2> HIDE DEF f, A, T
    <2>5. f \in Injection(T, A)  BY <2>1, <2>2 DEF Injection, IsInjective, A, T
    <2>6. /\ Cardinality(T) <= Cardinality(A)
          /\ Cardinality(T) = Cardinality(A) <=> f \in Surjection(T, A)
          BY <2>4, <2>5, FS_Injection
    <2>7. f \in Surjection(T, A) <=> \A m \in A : \E r \in T : f[r] = m
          BY <2>1 DEF Surjection, A, T
    <2> QED  BY <2>3, <2>6, <2>7 DEF A, T
  <1>10. ASSUME NEW i \in 1 .. n, NEW j \in 1 .. k,
                peer_score(samples[i]) < peer_score(best[j])
         PROVE  Cardinality(Taken(samples[i])) = Cardinality(Among(samples[i]))
    <2>1. ASSUME NEW m \in Among(samples[i])
          PROVE  \E r \in Taken(samples[i]) : O[r] = m
      <3>1. m \in 1 .. n /\ samples[m] = samples[i]  OBVIOUS
      <3>2. PICK r \in 1 .. n : O[r] = m  BY <1>6, <3>1
      <3>3. j \in 1 .. n /\ O[j] \in 1 .. n  BY <1>6, <1>7
      <3>4. K[m] < K[O[j]] /\ K[m] \in Int /\ K[O[j]] \in Int
            BY <1>2, <1>3, <1>7, <1>10, <3>1, <3>3
      <3>5. ~ (j <= r)
        <4>1. SUFFICES ASSUME j <= r PROVE FALSE  OBVIOUS
        <4>2. K[O[j]] <= K[O[r]]  BY <1>6, <3>2, <3>3, <4>1
        <4> QED  BY <3>2, <3>4, <4>2
      <3>6. r \in 1 .. k  BY <1>1, <1>2, <3>3, <3>5
      <3> QED  BY <1>7, <3>1, <3>2, <3>6
    <2> QED  BY <1>9, <2>1
  <1>11. samples # <<>> => best # <<>>  BY <1>2, <1>4
  <1> DEFINE Count(x, list) == Cardinality({i \in DOMAIN list : list[i] = x})
  <1>12. \A x : Count(x, best) = Cardinality(Taken(x)) /\ Count(x, samples) = Cardinality(Among(x))
         BY <1>1, <1>7
  <1> HIDE DEF Taken, Among, Count
  <1>13. \A i \in DOMAIN best : Count(best[i], best) <= Count(best[i], samples)
         BY <1>9, <1>12
  <1>14. \A i \in DOMAIN samples, j \in DOMAIN best :
            peer_score(samples[i]) < peer_score(best[j]) =>
                Count(samples[i], best) = Count(samples[i], samples)
         BY <1>1, <1>7, <1>10, <1>12
  <1> QED  BY <1>11, <1>13, <1>14 DEF BestAreKept, Count, best
-----------------------------------------------------------------------------
\* A quotient below one: what floor((n as f64) * trim_ratio) is when the ratio is.
LEMMA QuotientBelow ==
    ASSUME NEW a \in Nat, NEW b \in Nat \ {0}, NEW n \in Nat \ {0}, a < b
    PROVE  /\ (n * a) \div b \in Nat
           /\ (n * a) \div b < n
  <1>1. n * a \in Nat /\ n * a < n * b  OBVIOUS
  <1> DEFINE q == (n * a) \div b
             r == (n * a) % b
  <1>2. q \in Int /\ r \in 0 .. b - 1 /\ n * a = b * q + r  BY <1>1
  <1> HIDE DEF q, r
  <1>3. q >= 0
    <2>1. SUFFICES ASSUME q <= -1 PROVE FALSE  BY <1>2
    <2>2. b * q <= -b  BY <1>2, <2>1
    <2> QED  BY <1>1, <1>2, <2>2
  <1>4. q < n
    <2>1. SUFFICES ASSUME q >= n PROVE FALSE  BY <1>2
    <2>2. b * q >= n * b  BY <1>2, <2>1
    <2> QED  BY <1>1, <1>2, <2>2
  <1> QED  BY <1>2, <1>3, <1>4 DEF q

\* TrimmedStats::from_samples never indexes past the end and always keeps a sample,
\* whatever the number of samples, as long as trim_ratio < 1 (a ratio of 1 or more
\* makes the start the length, and `&subset[start..end]` panics).
THEOREM SliceStaysInBounds ==
    ASSUME TrimRatio[1] < TrimRatio[2]
    PROVE  \A n \in Nat \ {0} : SliceInBounds(n)
  <1> TAKE n \in Nat \ {0}
  <1>1. TrimRatio[1] \in Nat /\ TrimRatio[2] \in Nat \ {0}
        BY FuseAssumption
  <1>2. TrimCount(n) \in Nat /\ TrimCount(n) < n
        BY <1>1, QuotientBelow DEF TrimCount
  <1> QED  BY <1>2 DEF SliceInBounds, SliceStart, SliceEnd, AtMost, AtLeast

\* TrimmedStats::from_samples: the samples kept are those of a slice of the order by
\* offset.
LEMMA KeptSamples ==
    ASSUME NEW Sample, Summaries(Sample), NEW samples \in Seq(Sample),
           SliceInBounds(Len(samples)),
           SliceStart(Len(samples)) \in Int, SliceEnd(Len(samples)) \in Int
    PROVE  LET n == Len(samples)
               K == [i \in 1 .. n |-> samples[i].offset]
               O == Order(K)
               a == SliceStart(n)
               b == SliceEnd(n)
           IN  /\ K \in [1 .. n -> Int]
               /\ Kept(samples) \in Seq(Sample)
               /\ Len(Kept(samples)) = b - a
               /\ \A j \in 1 .. b - a : /\ a + j \in 1 .. n
                                        /\ O[a + j] \in 1 .. n
                                        /\ Kept(samples)[j] = samples[O[a + j]]
  <1> DEFINE n == Len(samples)
             K == [i \in 1 .. n |-> samples[i].offset]
             O == Order(K)
             sorted == [r \in 1 .. n |-> samples[O[r]]]
             a == SliceStart(n)
             b == SliceEnd(n)
  <1>1. n \in Nat /\ DOMAIN samples = 1 .. n /\ \A i \in 1 .. n : samples[i] \in Sample
        OBVIOUS
  <1>2. \A i \in 1 .. n : samples[i].offset \in Int  BY <1>1 DEF Summaries
  <1>3. K \in [1 .. n -> Int]  BY <1>2
  <1>4. SortedBy(samples, LAMBDA s : s.offset) = sorted
    <2> DEFINE Key(i) == samples[i].offset
               Before(j) == {i \in 1 .. n : Key(i) < Key(j) \/ (Key(i) = Key(j) /\ i < j)}
    <2>1. SortedBy(samples, LAMBDA s : s.offset)
            = [r \in 1 .. n |-> samples[CHOOSE j \in 1 .. n :
                                            Cardinality(Before(j)) + 1 = r]]
          BY <1>1 DEF SortedBy
    <2>2. \A j \in 1 .. n : Preceding(K, j) = Before(j)
          BY DEF Preceding, Precedes
    <2> HIDE DEF Before, n
    <2>3. \A r \in 1 .. n : O[r] = CHOOSE j \in 1 .. n :
                                        Cardinality(Before(j)) + 1 = r
      <3>1. DOMAIN K = 1 .. n  OBVIOUS
      <3> HIDE DEF K
      <3>2. O = [r \in 1 .. n |-> CHOOSE j \in 1 .. n :
                                     Cardinality(Preceding(K, j)) + 1 = r]
            BY <3>1 DEF Order
      <3>3. \A r \in 1 .. n : (CHOOSE j \in 1 .. n : Cardinality(Preceding(K, j)) + 1 = r)
                           = (CHOOSE j \in 1 .. n : Cardinality(Before(j)) + 1 = r)
            BY <2>2, Zenon
      <3> QED  BY <3>2, <3>3
    <2> HIDE DEF O
    <2> QED  BY <2>1, <2>3
  <1>5. Kept(samples) = SubSeq(sorted, a + 1, b)  BY <1>4 DEF Kept
  <1>6. a \in Int /\ b \in Int /\ 0 <= a /\ a < b /\ b <= n  BY DEF SliceInBounds
  <1> HIDE DEF n, K, a, b
  <1>7. \A r \in 1 .. n : O[r] \in 1 .. n  BY <1>1, <1>3, OrderIsSorted
  <1> HIDE DEF O
  <1>8. sorted \in [1 .. n -> Sample]  BY <1>1, <1>7
  <1>9. \A r \in 1 .. n : sorted[r] = samples[O[r]]  OBVIOUS
  <1> HIDE DEF sorted
  <1>10. sorted \in Seq(Sample) /\ Len(sorted) = n  BY <1>1, <1>8
  <1>11. /\ SubSeq(sorted, a + 1, b) \in Seq(Sample)
         /\ Len(SubSeq(sorted, a + 1, b)) = b - a
         /\ \A j \in 1 .. b - a : SubSeq(sorted, a + 1, b)[j] = sorted[a + j]
         BY <1>1, <1>6, <1>10
  <1>12. \A j \in 1 .. b - a : a + j \in 1 .. n  BY <1>1, <1>6
  <1> QED  BY <1>3, <1>5, <1>7, <1>9, <1>11, <1>12 DEF n, K, O, a, b

\* A weighted sum of values above, and below, a bound.
LEMMA WeightedSum ==
    ASSUME NEW n \in Nat, NEW w \in [1 .. n -> Nat], NEW v \in [1 .. n -> Int],
           NEW wv, wv = [i \in 1 .. n |-> w[i] * v[i]], NEW x \in Int
    PROVE  /\ SumOf(w) \in Int /\ SumOf(wv) \in Int
           /\ (\A i \in 1 .. n : x <= v[i]) => x * SumOf(w) <= SumOf(wv)
           /\ (\A i \in 1 .. n : v[i] <= x) => SumOf(wv) <= x * SumOf(w)
  <1> DEFINE c == [i \in 1 .. n |-> x * w[i]]
  <1>1. /\ w \in Seq(Int) /\ Len(w) = n /\ c \in Seq(Int) /\ Len(c) = n
        /\ wv \in Seq(Int) /\ Len(wv) = n
        OBVIOUS
  <1>2. SumOf(w) \in Int /\ SumOf(wv) \in Int /\ SumOf(c) \in Int  BY <1>1, SumType
  <1>3. SumOf(c) = x * SumOf(w)
    <2>1. Len(w) = Len(c) /\ \A i \in 1 .. Len(c) : c[i] = x * w[i]  BY <1>1
    <2>2. w \in Seq(Int) /\ c \in Seq(Int)  BY <1>1
    <2> HIDE DEF c
    <2> QED  BY <2>1, <2>2, SumScaled
  <1>4. \A i \in 1 .. n : c[i] = w[i] * x /\ wv[i] = w[i] * v[i] /\ w[i] \in Nat /\ v[i] \in Int
        OBVIOUS
  <1> HIDE DEF c
  <1>5. ASSUME \A i \in 1 .. n : x <= v[i] PROVE SumOf(c) <= SumOf(wv)
    <2>1. \A i \in 1 .. n : c[i] <= wv[i]  BY <1>4, <1>5, Weigh
    <2> QED  BY <1>1, <2>1, SumMonotone
  <1>6. ASSUME \A i \in 1 .. n : v[i] <= x PROVE SumOf(wv) <= SumOf(c)
    <2>1. \A i \in 1 .. n : wv[i] <= c[i]  BY <1>4, <1>6, Weigh
    <2> QED  BY <1>1, <2>1, SumMonotone
  <1> QED  BY <1>2, <1>3, <1>5, <1>6

\* TrimmedStats: every weight is positive, whatever the jitters.
LEMMA WeightsPositive ==
    ASSUME NEW Sample, Summaries(Sample), NEW kept \in Seq(Sample)
    PROVE  \A i \in 1 .. Len(kept) : WeightOf(kept, i) \in Nat \ {0}
  <1> DEFINE n == Len(kept)
             f == [i \in DOMAIN kept |-> 2 * JitterUnit + kept[i].jitter]
             product == ProductOf(f)
  <1>1. /\ n \in Nat /\ DOMAIN kept = 1 .. n
        /\ \A i \in 1 .. n : kept[i].jitter \in Nat /\ kept[i].peer_weight \in Nat \ {0}
        BY DEF Summaries
  <1>2. JitterUnit \in Nat \ {0}  BY FuseAssumption
  <1>3. Len(f) = n /\ \A i \in 1 .. n : f[i] \in Nat \ {0} /\ f[i] = 2 * JitterUnit + kept[i].jitter
    <2>1. f \in Seq(Nat) /\ Len(f) = n  BY <1>1, <1>2
    <2> QED  BY <1>1, <1>2, <2>1
  <1>4. Scale(kept) = product  BY DEF Scale
  <1> HIDE DEF n, f
  <1>5. product \in Nat \ {0} /\ \A i \in 1 .. n : f[i] <= product
        BY <1>1, <1>3, ProductOfPositive
  <1> HIDE DEF product
  <1>6. ASSUME NEW i \in 1 .. n PROVE WeightOf(kept, i) \in Nat \ {0}
    <2> DEFINE q == product \div f[i]
    <2>1. f[i] \in Nat \ {0} /\ f[i] <= product  BY <1>3, <1>5
    <2>2. q \in Nat /\ product < f[i] * q + f[i]  BY <1>5, <2>1, Quotient
    <2>3. q # 0  BY <1>5, <2>1, <2>2
    <2>4. WeightOf(kept, i) = kept[i].peer_weight * (2 * JitterUnit * q)
          BY <1>3, <1>4 DEF WeightOf
    <2> HIDE DEF q
    <2>5. 2 * JitterUnit * q \in Nat \ {0}  BY <1>2, <2>2, <2>3
    <2> QED  BY <1>1, <2>4, <2>5
  <1> QED  BY <1>6 DEF n

\* The weighted mean of the kept samples, from above and below, for what is averaged.
LEMMA MeanOfKept ==
    ASSUME NEW Sample, Summaries(Sample), NEW kept \in Seq(Sample),
           NEW v \in [1 .. Len(kept) -> Int], NEW x \in Int
    PROVE  LET sum == SumOf([i \in 1 .. Len(kept) |-> WeightOf(kept, i) * v[i]])
           IN  /\ (\A i \in 1 .. Len(kept) : x <= v[i]) => x * TotalWeight(kept) <= sum
               /\ (\A i \in 1 .. Len(kept) : v[i] <= x) => sum <= x * TotalWeight(kept)
  <1> DEFINE n == Len(kept)
             w == [i \in 1 .. n |-> WeightOf(kept, i)]
             wv == [i \in 1 .. n |-> w[i] * v[i]]
  <1>1. n \in Nat /\ DOMAIN kept = 1 .. n  OBVIOUS
  <1>2. \A i \in 1 .. n : WeightOf(kept, i) \in Nat  BY WeightsPositive
  <1>3. TotalWeight(kept) = SumOf(w)  BY <1>1 DEF TotalWeight
  <1>4. wv = [i \in 1 .. n |-> WeightOf(kept, i) * v[i]]  OBVIOUS
  <1>5. w \in [1 .. n -> Nat] /\ v \in [1 .. n -> Int]  BY <1>2
  <1>6. wv = [i \in 1 .. n |-> w[i] * v[i]]  OBVIOUS
  <1> HIDE DEF n, w, wv
  <1>7. /\ (\A i \in 1 .. n : x <= v[i]) => x * SumOf(w) <= SumOf(wv)
        /\ (\A i \in 1 .. n : v[i] <= x) => SumOf(wv) <= x * SumOf(w)
        BY <1>1, <1>5, <1>6, WeightedSum
  <1> QED  BY <1>3, <1>4, <1>7 DEF n

\* TrimmedStats: the fused offset withstands as many liars as are trimmed at each end.
THEOREM EveryLiarTrimmed ==
    ASSUME NEW Sample, Summaries(Sample), NEW samples \in Seq(Sample),
           samples # <<>>
    PROVE  LiarsTrimmed(samples)
  <1> DEFINE n == Len(samples)
             c == TrimCount(n)
             kept == Kept(samples)
             K == [i \in 1 .. n |-> samples[i].offset]
             O == Order(K)
             v == [j \in 1 .. Len(kept) |-> kept[j].offset]
             honest(liars) == {samples[i].offset : i \in DOMAIN samples \ liars}
  <1> SUFFICES ASSUME 2 * c < n, NEW liars \in SUBSET (DOMAIN samples),
                      Cardinality(liars) <= c
               PROVE  Between(mean_offset(kept), honest(liars))
      BY DEF LiarsTrimmed
  <1>1. n \in Nat /\ n > 0 /\ DOMAIN samples = 1 .. n  OBVIOUS
  <1>2. c \in Nat
    <2>1. TrimRatio[1] \in Nat /\ TrimRatio[2] \in Nat \ {0}  BY FuseAssumption
    <2>2. n * TrimRatio[1] \in Nat  BY <1>1, <2>1
    <2> QED  BY <2>1, <2>2, Quotient DEF TrimCount
  <1>3. SliceStart(n) = c /\ SliceEnd(n) = n - c
    <2> HIDE DEF n
    <2>1. c = TrimCount(n)  OBVIOUS
    <2> HIDE DEF c
    <2> QED  BY <1>1, <1>2, <2>1 DEF SliceStart, SliceEnd, AtMost, AtLeast
  <1>4. SliceInBounds(n)
    <2> HIDE DEF n, c
    <2> QED  BY <1>1, <1>2, <1>3 DEF SliceInBounds
  <1>5. /\ K \in [1 .. n -> Int]
        /\ kept \in Seq(Sample) /\ Len(kept) = (n - c) - c
        /\ \A j \in 1 .. (n - c) - c : /\ c + j \in 1 .. n
                                       /\ O[c + j] \in 1 .. n
                                       /\ kept[j] = samples[O[c + j]]
    <2>1. SliceStart(n) \in Int /\ SliceEnd(n) \in Int  BY <1>1, <1>2, <1>3
    <2>2. /\ K \in [1 .. n -> Int]
          /\ kept \in Seq(Sample) /\ Len(kept) = SliceEnd(n) - SliceStart(n)
          /\ \A j \in 1 .. SliceEnd(n) - SliceStart(n) :
                /\ SliceStart(n) + j \in 1 .. n
                /\ O[SliceStart(n) + j] \in 1 .. n
                /\ kept[j] = samples[O[SliceStart(n) + j]]
          BY <1>4, <2>1, KeptSamples
    <2> HIDE DEF n, c, K, O, kept
    <2> QED  BY <1>3, <2>2
  <1>6. \A i \in 1 .. n : K[i] = samples[i].offset  OBVIOUS
  <1>7. \A j \in 1 .. Len(kept) : v[j] = kept[j].offset  OBVIOUS
  <1>8. mean_offset(kept) =
            [num |-> SumOf([i \in 1 .. Len(kept) |-> WeightOf(kept, i) * v[i]]),
             den |-> TotalWeight(kept)]
    <2>1. DOMAIN kept = 1 .. Len(kept)  BY <1>5
    <2>2. [i \in DOMAIN kept |-> WeightOf(kept, i) * kept[i].offset]
            = [i \in 1 .. Len(kept) |-> WeightOf(kept, i) * v[i]]
          BY <2>1, <1>7
    <2> QED  BY <2>2 DEF mean_offset
  <1>9. liars \in SUBSET (1 .. n) /\ Cardinality(liars) \in Nat /\ Cardinality(liars) < c + 1
    <2>1. liars \in SUBSET (1 .. n)  BY <1>1
    <2>2. n \in Int  BY <1>1
    <2>3. IsFiniteSet(1 .. n)
      <3> HIDE DEF n
      <3> QED  BY <2>2, FS_Interval
    <2>4. Cardinality(liars) \in Nat  BY <2>1, <2>3, FS_Subset, FS_CardinalityType
    <2> HIDE DEF n, c
    <2> QED  BY <1>2, <2>1, <2>4
  <1>10. 2 * c < n  OBVIOUS
  <1>11. \A j \in 1 .. Len(kept) : kept[j].offset \in Int
    <2>1. \A j \in 1 .. Len(kept) : kept[j] \in Sample  BY <1>5
    <2> QED  BY <2>1 DEF Summaries
  <1>12. v \in [1 .. Len(kept) -> Int]  BY <1>11
  <1> HIDE DEF n, c, kept, K, v
  <1>13. /\ O \in [1 .. n -> 1 .. n]
         /\ \A r \in 1 .. n : O[r] \in 1 .. n
         /\ \A r, s \in 1 .. n : O[r] = O[s] => r = s
         /\ \A r, s \in 1 .. n : r <= s => K[O[r]] <= K[O[s]]
         BY <1>1, <1>5, OrderIsSorted
  <1> HIDE DEF O
  <1>14. \A j \in 1 .. Len(kept) : v[j] = K[O[c + j]] /\ c + j \in 1 .. n
    <2> TAKE j \in 1 .. Len(kept)
    <2> QED  BY <1>5, <1>6, <1>7
  <1>15. \E x \in honest(liars) : x * TotalWeight(kept) <= mean_offset(kept).num
    <2> DEFINE b == c + 1
    <2>1. 1 \in 1 .. n /\ b \in 1 .. n /\ Cardinality(liars) < b - 1 + 1
          BY <1>1, <1>2, <1>9, <1>10
    <2>2. PICK r \in 1 .. b : O[r] \notin liars
      <3> HIDE DEF b
      <3> QED  BY <1>1, <1>9, <1>13, <2>1, OneOutside
    <2>3. r \in 1 .. n /\ O[r] \in 1 .. n  BY <1>1, <1>13, <2>1
    <2> DEFINE x == K[O[r]]
    <2>4. x \in honest(liars)  BY <1>1, <1>6, <2>2, <2>3
    <2>5. \A j \in 1 .. Len(kept) : x <= v[j]
      <3> TAKE j \in 1 .. Len(kept)
      <3>1. c + j \in 1 .. n /\ r <= c + j  BY <1>2, <1>14, <2>2
      <3> QED  BY <1>13, <1>14, <2>3, <3>1
    <2>6. x \in Int  BY <1>5, <2>3
    <2> HIDE DEF x
    <2>7. x * TotalWeight(kept)
            <= SumOf([i \in 1 .. Len(kept) |-> WeightOf(kept, i) * v[i]])
          BY <1>5, <1>12, <2>5, <2>6, MeanOfKept
    <2> QED  BY <1>8, <2>4, <2>7, SMTT(30)
  <1>16. \E x \in honest(liars) : mean_offset(kept).num <= x * TotalWeight(kept)
    <2> DEFINE a == n - c
    <2>1. n \in 1 .. n /\ a \in 1 .. n /\ Cardinality(liars) < n - a + 1
          BY <1>1, <1>2, <1>9, <1>10
    <2>2. PICK r \in a .. n : O[r] \notin liars
      <3> HIDE DEF a
      <3> QED  BY <1>1, <1>9, <1>13, <2>1, OneOutside
    <2>3. r \in 1 .. n /\ O[r] \in 1 .. n  BY <1>1, <1>13, <2>1
    <2> DEFINE x == K[O[r]]
    <2>4. x \in honest(liars)  BY <1>1, <1>6, <2>2, <2>3
    <2>5. \A j \in 1 .. Len(kept) : v[j] <= x
      <3> TAKE j \in 1 .. Len(kept)
      <3>1. c + j \in 1 .. n /\ c + j <= r  BY <1>1, <1>2, <1>5, <1>14, <2>2
      <3> QED  BY <1>13, <1>14, <2>3, <3>1
    <2>6. x \in Int  BY <1>5, <2>3
    <2> HIDE DEF x
    <2>7. SumOf([i \in 1 .. Len(kept) |-> WeightOf(kept, i) * v[i]])
            <= x * TotalWeight(kept)
          BY <1>5, <1>12, <2>5, <2>6, MeanOfKept
    <2> QED  BY <1>8, <2>4, <2>7
  <1>17. mean_offset(kept).den = TotalWeight(kept)  BY <1>8
  <1> HIDE DEF honest
  <1> QED  BY <1>15, <1>16, <1>17 DEF Between

\* TrimmedStats: the fused delay is a mean of the delays of the samples kept, and of
\* no others, whatever the trim ratio below one.
THEOREM EveryDelayOfKept ==
    ASSUME TrimRatio[1] < TrimRatio[2],
           NEW Sample, Summaries(Sample), NEW samples \in Seq(Sample)
    PROVE  DelayOfKept(samples)
  <1> DEFINE n == Len(samples)
             a == SliceStart(n)
             b == SliceEnd(n)
             kept == Kept(samples)
             k == Len(kept)
             v == [j \in 1 .. k |-> kept[j].delay]
             K == [i \in 1 .. n |-> samples[i].offset]
             O == Order(K)
             source == {j \in DOMAIN samples : \E m \in DOMAIN kept : kept[m] = samples[j]}
             delays == {samples[i].delay : i \in source}
  <1> SUFFICES ASSUME samples # <<>>
               PROVE  Between(mean_delay(kept), delays)
      BY DEF DelayOfKept
  <1>1. n \in Nat \ {0} /\ DOMAIN samples = 1 .. n  OBVIOUS
  <1>2. SliceInBounds(n)
    <2> HIDE DEF n
    <2> QED  BY <1>1, SliceStaysInBounds
  <1>3. a \in Int /\ b \in Int
    <2> HIDE DEF n
    <2>1. TrimRatio[1] \in Nat /\ TrimRatio[2] \in Nat \ {0}  BY FuseAssumption
    <2>2. TrimCount(n) \in Nat  BY <1>1, <2>1, QuotientBelow DEF TrimCount
    <2> QED  BY <1>1, <2>2 DEF SliceStart, SliceEnd, AtMost, AtLeast
  <1>4. /\ kept \in Seq(Sample) /\ k = b - a
        /\ \A j \in 1 .. b - a : O[a + j] \in 1 .. n /\ kept[j] = samples[O[a + j]]
        BY <1>2, <1>3, KeptSamples
  <1>5. k \in Nat /\ k > 0 /\ DOMAIN kept = 1 .. k
    <2>1. a < b  BY <1>2 DEF SliceInBounds
    <2>2. DOMAIN kept = 1 .. k  BY <1>4
    <2> HIDE DEF a, b, kept
    <2> QED  BY <1>3, <1>4, <2>1, <2>2
  <1>6. \A j \in 1 .. k : v[j] = kept[j].delay /\ v[j] \in Int
    <2>1. \A j \in 1 .. k : kept[j] \in Sample  BY <1>4
    <2> QED  BY <2>1 DEF Summaries
  <1>7. v \in [1 .. k -> Int]  BY <1>6
  <1>8. mean_delay(kept) =
            [num |-> SumOf([i \in 1 .. k |-> WeightOf(kept, i) * v[i]]),
             den |-> TotalWeight(kept)]
    <2>1. [i \in DOMAIN kept |-> WeightOf(kept, i) * kept[i].delay]
            = [i \in 1 .. k |-> WeightOf(kept, i) * v[i]]
          BY <1>5, <1>6
    <2> QED  BY <2>1 DEF mean_delay
  <1>9. \A j \in 1 .. k : v[j] \in delays
    <2> TAKE j \in 1 .. k
    <2> DEFINE i == O[a + j]
    <2>1. i \in 1 .. n /\ kept[j] = samples[i]  BY <1>4
    <2>2. i \in source  BY <1>1, <1>5, <2>1
    <2> HIDE DEF i, source
    <2> QED  BY <1>6, <2>1, <2>2
  <1> DEFINE D == 1 .. k
  <1>10. D \in SUBSET (1 .. k) /\ D # {}
    <2>1. 1 \in D
      <3> HIDE DEF k
      <3> QED  BY <1>5
    <2> QED  BY <2>1
  <1> HIDE DEF n, a, b, kept, K, O, v, delays, D
  <1>11. PICK low \in 1 .. k : \A j \in 1 .. k : v[low] <= v[j]
         BY <1>5, <1>7, <1>10, SmallestIn DEF D
  <1>12. PICK high \in 1 .. k : \A j \in 1 .. k : v[j] <= v[high]
         BY <1>5, <1>7, <1>10, LargestIn DEF D
  <1> DEFINE l == v[low]
             h == v[high]
  <1>13. l \in Int /\ h \in Int /\ l \in delays /\ h \in delays
         BY <1>6, <1>9
  <1>14. (\A j \in 1 .. k : l <= v[j]) /\ (\A j \in 1 .. k : v[j] <= h)
         BY <1>11, <1>12
  <1> HIDE DEF l, h
  <1>15. /\ l * TotalWeight(kept)
              <= SumOf([i \in 1 .. Len(kept) |-> WeightOf(kept, i) * v[i]])
         /\ SumOf([i \in 1 .. Len(kept) |-> WeightOf(kept, i) * v[i]])
              <= h * TotalWeight(kept)
    <2>1. kept \in Seq(Sample) /\ v \in [1 .. Len(kept) -> Int]  BY <1>4, <1>7
    <2> QED  BY <1>13, <1>14, <2>1, MeanOfKept
  <1>16. /\ l * TotalWeight(kept) <= mean_delay(kept).num
         /\ mean_delay(kept).num <= h * TotalWeight(kept)
         BY <1>8, <1>15
  <1>17. mean_delay(kept).den = TotalWeight(kept)  BY <1>8
  <1> QED  BY <1>13, <1>16, <1>17 DEF Between

\* TrimmedStats: the weights of samples, if there are any, add up to more than 0.
LEMMA TotalPositive ==
    ASSUME NEW Sample, Summaries(Sample), NEW kept \in Seq(Sample), Len(kept) > 0
    PROVE  TotalWeight(kept) \in Nat \ {0}
  <1> DEFINE n == Len(kept)
             w == [i \in 1 .. n |-> WeightOf(kept, i)]
             ones == [i \in 1 .. n |-> 1]
             one == 1
  <1>1. n \in Nat /\ n > 0 /\ DOMAIN kept = 1 .. n  OBVIOUS
  <1>2. \A i \in 1 .. n : WeightOf(kept, i) \in Nat \ {0}  BY WeightsPositive
  <1>3. TotalWeight(kept) = SumOf(w)  BY <1>1 DEF TotalWeight
  <1> HIDE DEF n
  <1>4. \A i \in 1 .. n : w[i] \in Int /\ ones[i] <= w[i] /\ ones[i] = 1  BY <1>2
  <1>5. w \in [1 .. n -> Int] /\ ones \in [1 .. n -> Int]  BY <1>4
  <1> HIDE DEF w, ones
  <1>6. w \in Seq(Int) /\ Len(w) = n /\ ones \in Seq(Int) /\ Len(ones) = n
        BY ONLY <1>1, <1>5
  <1>7. one \in Int /\ \A i \in 1 .. n : ones[i] = one  BY <1>4
  <1> HIDE DEF one
  <1>8. SumOf(ones) = n * one
    <2>1. n \in Nat  BY <1>1
    <2> QED  BY ONLY <1>6, <1>7, <2>1, SumConstant
  <1>9. SumOf(ones) <= SumOf(w)
    <2>1. Len(ones) = Len(w) /\ \A i \in 1 .. Len(ones) : ones[i] <= w[i]
          BY <1>4, <1>6
    <2> QED  BY ONLY <1>6, <2>1, SumMonotone
  <1>10. SumOf(w) \in Int  BY <1>6, SumType
  <1>11. n * one = n  BY <1>1 DEF one
  <1>12. SumOf(w) \in Nat \ {0}  BY <1>1, <1>8, <1>9, <1>10, <1>11
  <1> QED  BY <1>3, <1>12

\* A quotient that rounds down, between the integers the fraction is between.
LEMMA RoundedBetween ==
    ASSUME NEW num \in Int, NEW den \in Nat \ {0}, NEW l \in Int, NEW h \in Int,
           l * den <= num, num <= h * den
    PROVE  num \div den \in Int /\ l <= num \div den /\ num \div den <= h
  <1> DEFINE q == num \div den
             r == num % den
             x == q + 1
  <1>1. q \in Int /\ r \in 0 .. den - 1 /\ num = den * q + r  BY Division
  <1> HIDE DEF q, r
  <1>2. den * q = q * den /\ q * den \in Int /\ x * den = q * den + den
        /\ l * den \in Int /\ h * den \in Int
        BY <1>1
  <1>3. l * den < x * den /\ q * den <= h * den  BY <1>1, <1>2
  <1>4. x \in Int  BY <1>1
  <1> HIDE DEF x
  <1>5. l < x /\ q <= h  BY <1>1, <1>3, <1>4, Scaled
  <1> QED  BY <1>1, <1>5 DEF x, q

\* select_best_peers, TrimmedStats: the fused offset is between the offsets of two of
\* the samples, whatever the trim ratio below one.
THEOREM FusedMeanBetween ==
    ASSUME TrimRatio[1] < TrimRatio[2],
           NEW Sample, Summaries(Sample), NEW samples \in Seq(Sample), samples # <<>>
    PROVE  LET mean == mean_offset(Kept(select_best_peers(samples)))
           IN  /\ mean.num \div mean.den \in Int
               /\ \E s \in Sample : s.offset <= mean.num \div mean.den
               /\ \E s \in Sample : mean.num \div mean.den <= s.offset
  <1> DEFINE best == select_best_peers(samples)
             n == Len(best)
             a == SliceStart(n)
             b == SliceEnd(n)
             kept == Kept(best)
             k == Len(kept)
             v == [j \in 1 .. k |-> kept[j].offset]
             mean == mean_offset(kept)
  <1>1. best \in Seq(Sample) /\ n \in Nat \ {0}
    <2> DEFINE m == Len(samples)
               c == AtMost(KeepCount(m), m)
    <2>1. best \in Seq(Sample) /\ n = c /\ c \in 0 .. m /\ (m # 0 => c # 0)
          BY BestSamples
    <2>2. m \in Nat /\ m # 0  OBVIOUS
    <2> HIDE DEF best, c, m
    <2> QED  BY <2>1, <2>2
  <1> HIDE DEF best
  <1>2. SliceInBounds(n)
    <2> HIDE DEF n
    <2> QED  BY <1>1, SliceStaysInBounds
  <1>3. a \in Int /\ b \in Int
    <2> HIDE DEF n
    <2>1. TrimRatio[1] \in Nat /\ TrimRatio[2] \in Nat \ {0}  BY FuseAssumption
    <2>2. TrimCount(n) \in Nat  BY <1>1, <2>1, QuotientBelow DEF TrimCount
    <2> QED  BY <1>1, <2>2 DEF SliceStart, SliceEnd, AtMost, AtLeast
  <1>4. kept \in Seq(Sample) /\ k = b - a
        BY <1>1, <1>2, <1>3, KeptSamples
  <1>5. k \in Nat /\ k > 0 /\ DOMAIN kept = 1 .. k
    <2>1. a < b  BY <1>2 DEF SliceInBounds
    <2>2. DOMAIN kept = 1 .. k  BY <1>4
    <2> HIDE DEF a, b, kept
    <2> QED  BY <1>3, <1>4, <2>1, <2>2
  <1>6. \A j \in 1 .. k : v[j] = kept[j].offset /\ v[j] \in Int /\ kept[j] \in Sample
    <2>1. \A j \in 1 .. k : kept[j] \in Sample  BY <1>4
    <2> QED  BY <2>1 DEF Summaries
  <1>7. v \in [1 .. k -> Int]  BY <1>6
  <1>8. mean = [num |-> SumOf([i \in 1 .. k |-> WeightOf(kept, i) * v[i]]),
                den |-> TotalWeight(kept)]
    <2>1. [i \in DOMAIN kept |-> WeightOf(kept, i) * kept[i].offset]
            = [i \in 1 .. k |-> WeightOf(kept, i) * v[i]]
          BY <1>5, <1>6
    <2> QED  BY <2>1 DEF mean_offset
  <1>9. TotalWeight(kept) \in Nat \ {0}  BY <1>4, <1>5, TotalPositive
  <1> DEFINE D == 1 .. k
             sum == SumOf([i \in 1 .. k |-> WeightOf(kept, i) * v[i]])
  <1>10. D \in SUBSET (1 .. k) /\ D # {}
    <2>1. 1 \in D
      <3> HIDE DEF k
      <3> QED  BY <1>5
    <2> QED  BY <2>1
  <1>11. sum \in Int
    <2> DEFINE wv == [i \in 1 .. k |-> WeightOf(kept, i) * v[i]]
    <2>1. \A i \in 1 .. k : WeightOf(kept, i) \in Nat \ {0}  BY <1>4, WeightsPositive
    <2>2. \A x, y \in Int : x * y \in Int  OBVIOUS
    <2> HIDE DEF k, v
    <2>3. wv \in [1 .. k -> Int]  BY <1>6, <2>1, <2>2
    <2>4. k \in Nat  BY <1>5
    <2> HIDE DEF wv
    <2>5. wv \in Seq(Int)  BY ONLY <2>3, <2>4
    <2>6. SumOf(wv) \in Int  BY <2>5, SumType
    <2> QED  BY <2>6 DEF wv
  <1> HIDE DEF n, a, b, kept, v, D
  <1>12. PICK low \in 1 .. k : \A j \in 1 .. k : v[low] <= v[j]
    <2> HIDE DEF k
    <2> QED  BY <1>5, <1>7, <1>10, SmallestIn DEF D
  <1>13. PICK high \in 1 .. k : \A j \in 1 .. k : v[j] <= v[high]
    <2> HIDE DEF k
    <2> QED  BY <1>5, <1>7, <1>10, LargestIn DEF D
  <1> DEFINE l == v[low]
             h == v[high]
  <1>14. /\ l \in Int /\ h \in Int
         /\ \E s \in Sample : s.offset = l
         /\ \E s \in Sample : s.offset = h
         BY <1>6
  <1>15. (\A j \in 1 .. k : l <= v[j]) /\ (\A j \in 1 .. k : v[j] <= h)
         BY <1>12, <1>13
  <1> HIDE DEF l, h
  <1>16. /\ l * TotalWeight(kept) <= sum
         /\ sum <= h * TotalWeight(kept)
         BY <1>4, <1>7, <1>14, <1>15, MeanOfKept
  <1> HIDE DEF sum
  <1>17. mean.num = sum /\ mean.den = TotalWeight(kept)  BY <1>8 DEF sum
  <1> HIDE DEF mean
  <1> DEFINE q == mean.num \div mean.den
  <1>18. q \in Int /\ l <= q /\ q <= h
         BY <1>9, <1>11, <1>14, <1>16, <1>17, RoundedBetween
  <1> HIDE DEF q
  <1>19. q \in Int /\ (\E s \in Sample : s.offset <= q) /\ (\E s \in Sample : q <= s.offset)
         BY <1>14, <1>18
  <1> QED  BY <1>19 DEF q, mean, kept, best
-----------------------------------------------------------------------------
\* Numbers that add up to 0 are 0, or some are below and some above.
LEMMA BothSides ==
    ASSUME NEW n \in Nat, NEW d \in [1 .. n -> Int], SumOf(d) = 0,
           NEW k \in 1 .. n, d[k] # 0
    PROVE  (\E i \in 1 .. n : d[i] < 0) /\ (\E i \in 1 .. n : d[i] > 0)
  <1> DEFINE zeros == [i \in 1 .. n |-> 0]
  <1>1. zeros \in Seq(Int) /\ Len(zeros) = n /\ d \in Seq(Int) /\ Len(d) = n
        OBVIOUS
  <1>2. SumOf(zeros) = 0
    <2>1. \A i \in 1 .. n : zeros[i] = 0  OBVIOUS
    <2> HIDE DEF zeros
    <2>2. SumOf(zeros) = n * 0  BY <1>1, <2>1, SumConstant
    <2> QED  BY <2>2
  <1>3. \A i \in 1 .. n : zeros[i] = 0 /\ d[i] \in Int  OBVIOUS
  <1> HIDE DEF zeros
  <1>4. ASSUME \A i \in 1 .. n : d[i] >= 0 PROVE FALSE
    <2>1. \A i \in 1 .. n : zeros[i] <= d[i]  BY <1>3, <1>4
    <2>2. SumOf(zeros) + (d[k] - zeros[k]) <= SumOf(d)  BY <1>1, <2>1, SumMonotone
    <2> QED  BY <1>2, <1>3, <1>4, <2>2
  <1>5. ASSUME \A i \in 1 .. n : d[i] <= 0 PROVE FALSE
    <2>1. \A i \in 1 .. n : d[i] <= zeros[i]  BY <1>3, <1>5
    <2>2. SumOf(d) + (zeros[k] - d[k]) <= SumOf(zeros)  BY <1>1, <2>1, SumMonotone
    <2> QED  BY <1>2, <1>3, <1>5, <2>2
  <1> QED  BY <1>3, <1>4, <1>5

\* Deviations from a mean are positively correlated with what grows along them.
LEMMA Correlated ==
    ASSUME NEW n \in Nat, NEW d \in [1 .. n -> Int], SumOf(d) = 0,
           NEW k \in 1 .. n, d[k] # 0, NEW e \in [1 .. n -> Int],
           \A i, j \in 1 .. n : d[i] < d[j] => e[i] < e[j]
    PROVE  SumOf([i \in 1 .. n |-> d[i] * e[i]]) > 0
  <1> DEFINE de == [i \in 1 .. n |-> d[i] * e[i]]
             S == {i \in 1 .. n : d[i] < 0}
  <1>1. \A i \in 1 .. n : d[i] \in Int /\ e[i] \in Int  OBVIOUS
  <1>2. S \in SUBSET (1 .. n) /\ S # {}  BY BothSides
  <1>3. PICK p \in 1 .. n : d[p] > 0  BY BothSides
  <1>4. PICK m \in S : \A i \in S : e[i] <= e[m]
    <2> HIDE DEF S
    <2> QED  BY <1>2, LargestIn
  <1> DEFINE c == e[m]
             f == [i \in 1 .. n |-> d[i] * (e[i] - c)]
             zeros == [i \in 1 .. n |-> 0]
  <1>5. m \in 1 .. n /\ d[m] < 0 /\ c \in Int  OBVIOUS
  <1>6. \A i \in 1 .. n : f[i] = d[i] * (e[i] - c) /\ de[i] = d[i] * e[i] /\ zeros[i] = 0
        OBVIOUS
  <1>7. /\ d \in Seq(Int) /\ Len(d) = n /\ de \in Seq(Int) /\ Len(de) = n
        /\ f \in Seq(Int) /\ Len(f) = n /\ zeros \in Seq(Int) /\ Len(zeros) = n
        BY <1>5
  <1>8. SumOf(zeros) = 0
    <2>1. \A i \in 1 .. n : zeros[i] = 0  OBVIOUS
    <2> HIDE DEF zeros
    <2>2. SumOf(zeros) = n * 0  BY <1>7, <2>1, SumConstant, SMTT(30)
    <2> QED  BY <2>2
  <1> HIDE DEF de, zeros, f, c
  <1>9. \A i \in 1 .. n : 0 <= f[i] /\ (d[i] > 0 => 0 < f[i])
    <2> TAKE i \in 1 .. n
    <2> DEFINE x == d[i]  y == e[i] - c
    <2>1. x \in Int /\ y \in Int /\ f[i] = x * y  BY <1>1, <1>5, <1>6, SMTT(30)
    <2>2. x < 0 => y <= 0  BY <1>1, <1>4, <1>5 DEF c
    <2>3. x > 0 => y > 0
      <3>1. x > 0 => d[m] < d[i]  BY <1>1, <1>5
      <3>2. x > 0 => e[m] < e[i]  BY <1>5, <3>1
      <3> QED  BY <1>1, <1>5, <3>2 DEF c
    <2> HIDE DEF x, y
    <2>4. (x > 0 => x * y > 0) /\ (x < 0 => x * y >= 0) /\ (x = 0 => x * y = 0)
          BY <2>1, <2>2, <2>3, Signs
    <2> QED  BY <2>1, <2>4 DEF x
  <1>10. SumOf(f) > 0
    <2>1. \A i \in 1 .. n : zeros[i] <= f[i]  BY <1>6, <1>9
    <2>2. SumOf(zeros) + (f[p] - zeros[p]) <= SumOf(f)  BY <1>7, <2>1, SumMonotone
    <2>3. f[p] > 0 /\ f[p] \in Int /\ zeros[p] = 0  BY <1>3, <1>6, <1>7, <1>9
    <2>4. SumOf(f) \in Int  BY <1>7, SumType
    <2> QED  BY <1>8, <2>2, <2>3, <2>4
  <1>11. SumOf(f) = SumOf(de)
    <2> DEFINE x == -c
    <2>1. x \in Int  BY <1>5
    <2>2. \A i \in 1 .. n : f[i] = de[i] + x * d[i]
      <3> TAKE i \in 1 .. n
      <3>1. d[i] \in Int /\ e[i] \in Int  BY <1>1
      <3>2. d[i] * (e[i] - c) = d[i] * e[i] - c * d[i]  BY <1>5, <3>1, Parts
      <3>3. -(c * d[i]) = x * d[i] /\ c * d[i] \in Int /\ d[i] * e[i] \in Int
            BY <1>5, <3>1
      <3>4. f[i] = d[i] * e[i] - c * d[i]  BY <1>6, <3>2
      <3>5. de[i] = d[i] * e[i]  BY <1>6
      <3> HIDE DEF x
      <3> QED  BY <3>3, <3>4, <3>5
    <2> HIDE DEF x
    <2>3. SumOf(f) = SumOf(de) + x * SumOf(d)
      <3>1. Len(de) = Len(f) /\ Len(d) = Len(f)  BY <1>7
      <3>2. \A i \in 1 .. Len(f) : f[i] = de[i] + x * d[i]  BY <1>7, <2>2
      <3>3. de \in Seq(Int) /\ d \in Seq(Int) /\ f \in Seq(Int)  BY <1>7
      <3> QED  BY ONLY <2>1, <3>1, <3>2, <3>3, SumCombined
    <2>4. x * 0 = 0 /\ SumOf(de) \in Int  BY <1>7, <2>1, SumType
    <2> QED  BY <2>3, <2>4
  <1> QED  BY <1>10, <1>11 DEF de

\* n times the deviations of n numbers from their mean.
LEMMA Deviations ==
    ASSUME NEW n \in Nat, NEW t \in Seq(Int), NEW d \in Seq(Int), Len(t) = n, Len(d) = n,
           \A i \in 1 .. n : d[i] = n * t[i] - SumOf(t)
    PROVE  SumOf(d) = 0
  <1> DEFINE m == -SumOf(t)
             c == [i \in 1 .. n |-> m]
  <1>1. SumOf(t) \in Int /\ m \in Int  BY SumType
  <1>2. c \in Seq(Int) /\ Len(c) = n /\ \A i \in 1 .. n : c[i] = m  BY <1>1
  <1>3. \A i \in 1 .. n : d[i] = c[i] + n * t[i]
    <2> TAKE i \in 1 .. n
    <2>1. t[i] \in Int /\ n * t[i] \in Int  OBVIOUS
    <2> QED  BY <1>1, <1>2, <2>1
  <1> HIDE DEF c
  <1>4. SumOf(d) = SumOf(c) + n * SumOf(t)
    <2>1. /\ Len(c) = Len(d) /\ Len(t) = Len(d)
          /\ \A i \in 1 .. Len(d) : d[i] = c[i] + n * t[i]
          BY <1>2, <1>3
    <2>2. d \in Seq(Int) /\ t \in Seq(Int) /\ n \in Int  OBVIOUS
    <2> QED  BY ONLY <1>2, <2>1, <2>2, SumCombined
  <1> HIDE DEF m
  <1>5. SumOf(c) = n * m  BY <1>1, <1>2, SumConstant
  <1> DEFINE s == SumOf(t)
  <1>6. n * m = -(n * s) /\ n * s \in Int  BY <1>1 DEF m
  <1>7. SumOf(d) = n * m + n * s  BY <1>4, <1>5
  <1> HIDE DEF s
  <1> QED  BY <1>6, <1>7

\* linreg_slope_ppm: its sums, over the deviations d of the timestamps and g of the
\* offsets from their means, both n times as large.
LEMMA SlopeParts ==
    ASSUME NEW samples \in Seq([t: Int, o: Int])
    PROVE  LET n == Len(samples)
               mt == SumOf([i \in 1 .. n |-> samples[i].t])
               mo == SumOf([i \in 1 .. n |-> samples[i].o])
               d == [i \in 1 .. n |-> n * samples[i].t - mt]
               g == [i \in 1 .. n |-> n * samples[i].o - mo]
               num == SumOf([i \in 1 .. n |-> d[i] * g[i]])
               den == SumOf([i \in 1 .. n |-> d[i] * d[i]])
           IN  /\ n \in Nat /\ DOMAIN samples = 1 .. n
               /\ \A i \in 1 .. n : samples[i].t \in Int /\ samples[i].o \in Int
               /\ mt \in Int /\ mo \in Int
               /\ d \in [1 .. n -> Int] /\ g \in [1 .. n -> Int]
               /\ SumOf(d) = 0
               /\ num \in Int /\ den \in Int
               /\ linreg_slope_ppm(samples) =
                    IF n < 3 \/ den = 0 THEN [num |-> 0, den |-> 1]
                                        ELSE [num |-> num * 1000, den |-> den]
  <1> DEFINE n == Len(samples)
             t == [i \in 1 .. n |-> samples[i].t]
             o == [i \in 1 .. n |-> samples[i].o]
             mt == SumOf(t)
             mo == SumOf(o)
             d == [i \in 1 .. n |-> n * samples[i].t - mt]
             g == [i \in 1 .. n |-> n * samples[i].o - mo]
             dg == [i \in 1 .. n |-> d[i] * g[i]]
             dd == [i \in 1 .. n |-> d[i] * d[i]]
             num == SumOf(dg)
             den == SumOf(dd)
  <1>1. /\ n \in Nat /\ DOMAIN samples = 1 .. n
        /\ \A i \in 1 .. n : samples[i].t \in Int /\ samples[i].o \in Int
    <2>1. n \in Nat /\ DOMAIN samples = 1 .. n  OBVIOUS
    <2> DEFINE S == [t: Int, o: Int]
    <2>2. \A i \in 1 .. n : samples[i] \in S
      <3>1. samples \in Seq(S)  OBVIOUS
      <3> HIDE DEF S
      <3> QED  BY <3>1
    <2> HIDE DEF n
    <2>3. \A i \in 1 .. n : samples[i].t \in Int /\ samples[i].o \in Int  BY <2>2
    <2> QED  BY <2>1, <2>3
  <1>2. t \in Seq(Int) /\ Len(t) = n /\ o \in Seq(Int) /\ Len(o) = n  BY <1>1
  <1>3. mt \in Int /\ mo \in Int
    <2> HIDE DEF t, o
    <2> QED  BY <1>2, SumType
  <1>4. \A i \in 1 .. n : t[i] = samples[i].t /\ o[i] = samples[i].o  OBVIOUS
  <1>5. \A i \in 1 .. n : /\ d[i] = n * t[i] - mt /\ d[i] \in Int
                          /\ g[i] = n * o[i] - mo /\ g[i] \in Int
    <2> TAKE i \in 1 .. n
    <2>1. /\ d[i] = n * samples[i].t - mt /\ g[i] = n * samples[i].o - mo
          /\ samples[i].t \in Int /\ samples[i].o \in Int
          BY <1>1
    <2> HIDE DEF mt, mo, n, d, g
    <2> QED  BY <1>1, <1>3, <1>4, <2>1, SMTT(30)
  <1>6. d \in [1 .. n -> Int] /\ g \in [1 .. n -> Int] /\ d \in Seq(Int) /\ Len(d) = n
    <2> HIDE DEF mt, mo
    <2> QED  BY <1>1, <1>5
  <1>7. SumOf(d) = 0
    <2> HIDE DEF n, t, o, d, g
    <2> QED  BY <1>1, <1>2, <1>5, <1>6, Deviations
  <1>8. num \in Int /\ den \in Int
    <2>1. \A i \in 1 .. n : d[i] * g[i] \in Int /\ d[i] * d[i] \in Int
      <3>1. \A x, y \in Int : x * y \in Int  OBVIOUS
      <3> HIDE DEF d, g, n
      <3> QED  BY <1>5, <3>1
    <2> HIDE DEF d, g, n
    <2>2. dg \in [1 .. n -> Int] /\ dd \in [1 .. n -> Int]  BY <2>1
    <2> HIDE DEF dg, dd
    <2>3. dg \in Seq(Int) /\ dd \in Seq(Int)
      <3>1. n \in Nat  BY <1>1
      <3> QED  BY ONLY <2>2, <3>1
    <2> QED  BY <2>3, SumType
  <1> DEFINE t0 == [i \in DOMAIN samples |-> samples[i].t]
             o0 == [i \in DOMAIN samples |-> samples[i].o]
             dg0 == [i \in DOMAIN samples |-> (n * samples[i].t - SumOf(t0))
                                                * (n * samples[i].o - SumOf(o0))]
             dd0 == [i \in DOMAIN samples |-> (n * samples[i].t - SumOf(t0))
                                                * (n * samples[i].t - SumOf(t0))]
  <1>9. linreg_slope_ppm(samples) =
            IF n < 3 \/ SumOf(dd0) = 0 THEN [num |-> 0, den |-> 1]
                                       ELSE [num |-> SumOf(dg0) * 1000, den |-> SumOf(dd0)]
        BY DEF linreg_slope_ppm, Total
  <1>10. dg0 = dg /\ dd0 = dd
    <2>1. t0 = t /\ o0 = o  BY <1>1
    <2>2. \A i \in 1 .. n : d[i] = n * samples[i].t - mt /\ g[i] = n * samples[i].o - mo
          OBVIOUS
    <2> HIDE DEF t0, o0, t, o, d, g, n
    <2> QED  BY <1>1, <2>1, <2>2
  <1>11. linreg_slope_ppm(samples) =
            IF n < 3 \/ den = 0 THEN [num |-> 0, den |-> 1]
                                ELSE [num |-> num * 1000, den |-> den]
    <2> HIDE DEF dg0, dd0, dg, dd
    <2> QED  BY <1>9, <1>10
  <1> QED  BY <1>1, <1>3, <1>6, <1>7, <1>8, <1>11, SMTT(30)

\* The sums of a regression of o over t, n points each: num over den, of the deviations
\* d and g from the means mt / n and mo / n.
Regression(n, t, o, mt, mo, d, g, dg, dd, num, den) ==
    /\ n \in Nat /\ t \in [1 .. n -> Int] /\ o \in [1 .. n -> Int]
    /\ mt \in Int /\ mo \in Int
    /\ d \in [1 .. n -> Int] /\ \A i \in 1 .. n : d[i] = n * t[i] - mt
    /\ g \in [1 .. n -> Int] /\ \A i \in 1 .. n : g[i] = n * o[i] - mo
    /\ dg \in [1 .. n -> Int] /\ \A i \in 1 .. n : dg[i] = d[i] * g[i]
    /\ dd \in [1 .. n -> Int] /\ \A i \in 1 .. n : dd[i] = d[i] * d[i]
    /\ SumOf(d) = 0
    /\ num \in Int /\ num = SumOf(dg)
    /\ den \in Int /\ den = SumOf(dd)

\* Not all pairs of points rise more, and not all less, than the quotient of the sums
\* of their deviations.
LEMMA SomePairBelow ==
    ASSUME NEW n, NEW t, NEW o, NEW mt, NEW mo, NEW d, NEW g, NEW dg, NEW dd, NEW num, NEW den,
           Regression(n, t, o, mt, mo, d, g, dg, dd, num, den),
           NEW a \in 1 .. n, NEW b \in 1 .. n, t[a] < t[b], NEW s \in {-1, 1}
    PROVE  /\ den > 0
           /\ \E i, j \in 1 .. n :
                 /\ t[i] < t[j]
                 /\ ~ (s * (den * (o[j] - o[i]) - num * (t[j] - t[i])) > 0)
  <1> USE DEF Regression
  <1>1. \A i \in 1 .. n : d[i] \in Int /\ g[i] \in Int /\ t[i] \in Int /\ o[i] \in Int
        OBVIOUS
  <1>2. n \in Nat \ {0}  OBVIOUS
  <1> DEFINE e == [i \in 1 .. n |-> s * (den * g[i] - num * d[i])]
             de == [i \in 1 .. n |-> d[i] * (s * (den * g[i] - num * d[i]))]
  <1>3. \A i \in 1 .. n : e[i] = s * (den * g[i] - num * d[i])  OBVIOUS
  <1>4. \A i, j \in 1 .. n :
            /\ d[i] < d[j] <=> t[i] < t[j]
            /\ s * (den * (o[j] - o[i]) - num * (t[j] - t[i])) > 0 => e[i] < e[j]
    <2> TAKE i, j \in 1 .. n
    <2> DEFINE ti == t[i]  tj == t[j]  oi == o[i]  oj == o[j]
               di == d[i]  dj == d[j]  gi == g[i]  gj == g[j]
    <2>1. /\ ti \in Int /\ tj \in Int /\ oi \in Int /\ oj \in Int
          /\ di = n * ti - mt /\ dj = n * tj - mt
          /\ gi = n * oi - mo /\ gj = n * oj - mo
          BY <1>1
    <2>2. /\ e[i] = s * (den * gi - num * di) /\ e[j] = s * (den * gj - num * dj)
          BY <1>3
    <2>3. mt \in Int /\ mo \in Int /\ num \in Int /\ den \in Int /\ s \in {-1, 1}
          OBVIOUS
    <2> HIDE DEF ti, tj, oi, oj, di, dj, gi, gj
    <2>4. /\ di < dj <=> ti < tj
          /\ s * (den * (oj - oi) - num * (tj - ti)) > 0
                => s * (den * gi - num * di) < s * (den * gj - num * dj)
          BY ONLY <1>2, <2>1, <2>3, ResidueGrows
    <2> HIDE DEF e
    <2> QED  BY ONLY <2>2, <2>4 DEF ti, tj, oi, oj, di, dj, gi, gj
  <1>5. PICK k \in 1 .. n : d[k] # 0
    <2>1. d[a] < d[b] /\ d[a] \in Int /\ d[b] \in Int  BY <1>1, <1>4
    <2> HIDE DEF e
    <2>2. d[a] # 0 \/ d[b] # 0  BY ONLY <2>1
    <2> QED  BY <2>2
  <1>6. n \in Nat /\ d \in [1 .. n -> Int] /\ SumOf(d) = 0  OBVIOUS
  <1>7. den > 0
    <2>1. \A i, j \in 1 .. n : d[i] < d[j] => d[i] < d[j]  OBVIOUS
    <2>2. SumOf([i \in 1 .. n |-> d[i] * d[i]]) > 0
          BY ONLY <1>5, <1>6, <2>1, Correlated
    <2>3. [i \in 1 .. n |-> d[i] * d[i]] = dd  OBVIOUS
    <2>4. den = SumOf(dd)  OBVIOUS
    <2> QED  BY ONLY <2>2, <2>3, <2>4
  <1>8. SUFFICES ASSUME \A i, j \in 1 .. n : t[i] < t[j] =>
                           s * (den * (o[j] - o[i]) - num * (t[j] - t[i])) > 0
                 PROVE  FALSE
    <2>1. n \in Nat  OBVIOUS
    <2> HIDE DEF e, de
    <2> QED  BY <1>7
  <1>9. e \in [1 .. n -> Int]
    <2>1. \A x, y \in Int : x * y \in Int /\ x - y \in Int  OBVIOUS
    <2>2. s \in Int  OBVIOUS
    <2>3. \A i \in 1 .. n : e[i] \in Int
      <3> TAKE i \in 1 .. n
      <3>1. den * g[i] \in Int /\ num * d[i] \in Int  BY <1>1, <2>1
      <3>2. s * (den * g[i] - num * d[i]) \in Int  BY <2>1, <2>2, <3>1
      <3> QED  BY <1>3, <3>2
    <2> QED  BY <2>3
  <1>10. /\ de = [i \in 1 .. n |-> d[i] * e[i]] /\ de \in [1 .. n -> Int]
         /\ \A i \in 1 .. n : de[i] = d[i] * (s * (den * g[i] - num * d[i]))
    <2>1. \A i \in 1 .. n : d[i] * (s * (den * g[i] - num * d[i])) = d[i] * e[i]
          BY <1>3
    <2>2. \A i \in 1 .. n : d[i] * e[i] \in Int
      <3>1. \A x, y \in Int : x * y \in Int  OBVIOUS
      <3>2. \A i \in 1 .. n : e[i] \in Int /\ d[i] \in Int
        <4> HIDE DEF e
        <4> QED  BY <1>1, <1>9
      <3> HIDE DEF e
      <3> QED  BY ONLY <3>1, <3>2
    <2> HIDE DEF e
    <2>3. de = [i \in 1 .. n |-> d[i] * e[i]]  BY <2>1
    <2>4. \A i \in 1 .. n : de[i] = d[i] * (s * (den * g[i] - num * d[i]))  OBVIOUS
    <2> HIDE DEF de
    <2> QED  BY ONLY <2>2, <2>3, <2>4
  <1> HIDE DEF e, de
  <1> DEFINE x == s * den
             y == -(s * num)
             xdg == [i \in 1 .. n |-> x * dg[i]]
  <1>11. SumOf(de) = 0
    <2>1. x \in Int /\ y \in Int /\ n \in Nat
      <3>1. s \in Int /\ num \in Int /\ den \in Int /\ n \in Nat  OBVIOUS
      <3>2. \A u, v \in Int : u * v \in Int /\ -u \in Int  OBVIOUS
      <3> QED  BY ONLY <3>1, <3>2
    <2>2. \A u, v \in Int : u * v \in Int  OBVIOUS
    <2>3. \A i \in 1 .. n : /\ dg[i] \in Int /\ dd[i] \in Int
                            /\ dg[i] = d[i] * g[i] /\ dd[i] = d[i] * d[i]
          OBVIOUS
    <2>4. \A i \in 1 .. n : de[i] = x * dg[i] + y * dd[i]
      <3> TAKE i \in 1 .. n
      <3> DEFINE p == d[i]  q == g[i]
      <3>1. p \in Int /\ q \in Int  BY <1>1
      <3>2. de[i] = p * (s * (den * q - num * p)) /\ dg[i] = p * q /\ dd[i] = p * p
            BY <1>10, <2>3
      <3> HIDE DEF p, q, x, y
      <3>3. p * (s * (den * q - num * p)) = (s * den) * (p * q) + (-(s * num)) * (p * p)
        <4>1. CASE s = 1
          <5>1. p * (den * q - num * p) = den * (p * q) - num * (p * p)  BY <3>1, SMTT(30)
          <5>2. (-num) * (p * p) = -(num * (p * p))  BY <3>1
          <5> QED  BY <3>1, <4>1, <5>1, <5>2, SMTT(30)
        <4>2. CASE s = -1
          <5>1. p * (num * p - den * q) = num * (p * p) - den * (p * q)  BY <3>1, SMTT(30)
          <5> QED  BY <3>1, <4>2, <5>1, SMTT(30)
        <4> QED  BY <4>1, <4>2
      <3> QED  BY <3>2, <3>3 DEF x, y
    <2> HIDE DEF x, y
    <2>5. \A i \in 1 .. n : xdg[i] = x * dg[i] /\ xdg[i] \in Int
          BY <2>1, <2>2, <2>3
    <2>6. xdg \in [1 .. n -> Int]  BY <2>5
    <2>7. dg \in [1 .. n -> Int] /\ dd \in [1 .. n -> Int]  OBVIOUS
    <2> HIDE DEF xdg
    <2>8. \A i \in 1 .. n : de[i] = xdg[i] + y * dd[i]  BY <2>4, <2>5
    <2>9. /\ dg \in Seq(Int) /\ dd \in Seq(Int) /\ xdg \in Seq(Int) /\ de \in Seq(Int)
          /\ Len(dg) = n /\ Len(dd) = n /\ Len(xdg) = n /\ Len(de) = n
          BY ONLY <1>10, <2>1, <2>6, <2>7
    <2>10. SumOf(xdg) = x * SumOf(dg)
      <3>1. Len(dg) = Len(xdg) /\ \A i \in 1 .. Len(xdg) : xdg[i] = x * dg[i]
            BY <2>5, <2>9
      <3> QED  BY ONLY <2>1, <2>9, <3>1, SumScaled
    <2>11. SumOf(de) = SumOf(xdg) + y * SumOf(dd)
      <3>1. /\ Len(xdg) = Len(de) /\ Len(dd) = Len(de)
            /\ \A i \in 1 .. Len(de) : de[i] = xdg[i] + y * dd[i]
            BY <2>8, <2>9
      <3> QED  BY ONLY <2>1, <2>9, <3>1, SumCombined
    <2>12. SumOf(de) = (s * den) * num + (-(s * num)) * den
           BY <2>10, <2>11 DEF x, y
    <2>13. (s * den) * num + (-(s * num)) * den = 0
      <3>1. CASE s = 1  BY <3>1, SMTT(30)
      <3>2. CASE s = -1  BY <3>2, SMTT(30)
      <3> QED  BY <3>1, <3>2
    <2> QED  BY <2>12, <2>13
  <1>12. \A i, j \in 1 .. n : d[i] < d[j] => e[i] < e[j]  BY ONLY <1>4, <1>8
  <1>13. SumOf([i \in 1 .. n |-> d[i] * e[i]]) > 0
         BY ONLY <1>5, <1>6, <1>9, <1>12, Correlated
  <1> QED  BY ONLY <1>10, <1>11, <1>13

\* linreg_slope_ppm: the least-squares estimate lies between the smallest and the
\* largest slope of two samples, and is 0 without two at different times.
THEOREM EverySlopeWithinPairs ==
    ASSUME NEW samples \in Seq([t: Int, o: Int])
    PROVE  SlopeWithinPairs(samples)
  <1> DEFINE n == Len(samples)
             t == [i \in 1 .. n |-> samples[i].t]
             o == [i \in 1 .. n |-> samples[i].o]
             mt == SumOf(t)
             mo == SumOf(o)
             d == [i \in 1 .. n |-> n * samples[i].t - mt]
             g == [i \in 1 .. n |-> n * samples[i].o - mo]
             dg == [i \in 1 .. n |-> d[i] * g[i]]
             dd == [i \in 1 .. n |-> d[i] * d[i]]
             num == SumOf(dg)
             den == SumOf(dd)
             slope == linreg_slope_ppm(samples)
             pairs == {p \in (DOMAIN samples) \X (DOMAIN samples) :
                          samples[p[1]].t < samples[p[2]].t}
             dt(p) == samples[p[2]].t - samples[p[1]].t
             do(p) == samples[p[2]].o - samples[p[1]].o
  <1>1. /\ n \in Nat /\ DOMAIN samples = 1 .. n
        /\ \A i \in 1 .. n : samples[i].t \in Int /\ samples[i].o \in Int
        /\ mt \in Int /\ mo \in Int
        /\ d \in [1 .. n -> Int] /\ g \in [1 .. n -> Int]
        /\ SumOf(d) = 0
        /\ num \in Int /\ den \in Int
        /\ slope = IF n < 3 \/ den = 0 THEN [num |-> 0, den |-> 1]
                                        ELSE [num |-> num * 1000, den |-> den]
        BY SlopeParts, ZenonT(60)
  <1>2. /\ \A i \in 1 .. n : d[i] = n * t[i] - mt /\ g[i] = n * o[i] - mo
        /\ \A i \in 1 .. n : t[i] = samples[i].t /\ o[i] = samples[i].o
        /\ \A i \in 1 .. n : dg[i] = d[i] * g[i] /\ dd[i] = d[i] * d[i]
        OBVIOUS
  <1>3. t \in [1 .. n -> Int] /\ o \in [1 .. n -> Int]
    <2> HIDE DEF n
    <2> QED  BY <1>1
  <1>4. dg \in [1 .. n -> Int] /\ dd \in [1 .. n -> Int]
    <2>1. \A x, y \in Int : x * y \in Int  OBVIOUS
    <2>2. \A i \in 1 .. n : d[i] \in Int /\ g[i] \in Int
      <3> HIDE DEF d, g, n
      <3>1. d \in [1 .. n -> Int] /\ g \in [1 .. n -> Int]  BY <1>1
      <3> QED  BY ONLY <3>1
    <2> HIDE DEF d, g, n
    <2>3. \A i \in 1 .. n : d[i] * g[i] \in Int /\ d[i] * d[i] \in Int  BY ONLY <2>1, <2>2
    <2> QED  BY <2>3
  <1>5. num = SumOf(dg) /\ den = SumOf(dd)  OBVIOUS
  <1> HIDE DEF n, t, o, mt, mo, d, g, dg, dd, num, den, slope
  <1>6. \A i, j \in 1 .. n : t[i] < t[j] =>
            /\ <<i, j>> \in pairs
            /\ dt(<<i, j>>) = t[j] - t[i] /\ do(<<i, j>>) = o[j] - o[i]
        BY <1>1, <1>2
  <1>7. ASSUME NEW p \in pairs
        PROVE  \E i, j \in 1 .. n : t[i] < t[j]
    <2>1. p[1] \in 1 .. n /\ p[2] \in 1 .. n /\ t[p[1]] < t[p[2]]  BY <1>1, <1>2
    <2> QED  BY <2>1
  <1> SUFFICES IF n < 3 \/ pairs = {}
               THEN slope.num = 0
               ELSE /\ \E p \in pairs : 1000 * do(p) * slope.den <= slope.num * dt(p)
                    /\ \E p \in pairs : slope.num * dt(p) <= 1000 * do(p) * slope.den
      BY DEF SlopeWithinPairs, n, slope
  <1>8. CASE n < 3
    <2>1. slope.num = 0  BY <1>1, <1>8
    <2> QED  BY ONLY <1>8, <2>1
  <1>9. CASE n >= 3 /\ pairs = {}
    <2>1. \A i \in 1 .. n : d[i] = 0
      <3> SUFFICES ASSUME NEW k \in 1 .. n, d[k] # 0 PROVE FALSE  OBVIOUS
      <3>1. PICK i, j \in 1 .. n : d[i] < 0 /\ d[j] > 0
            BY <1>1, BothSides
      <3> DEFINE ti == t[i]  tj == t[j]
      <3>2. /\ d[i] = n * ti - mt /\ d[j] = n * tj - mt /\ ti \in Int /\ tj \in Int
            /\ d[i] \in Int /\ d[j] \in Int
            BY <1>1, <1>2, <1>3
      <3> HIDE DEF ti, tj
      <3>3. n * ti \in Int /\ n * tj \in Int
        <4>1. n \in Int /\ \A x, y \in Int : x * y \in Int  BY <1>1
        <4> QED  BY ONLY <3>2, <4>1
      <3>4. mt \in Int  BY <1>1
      <3>5. n * ti < n * tj  BY ONLY <3>1, <3>2, <3>3, <3>4
      <3>6. ti * n < tj * n /\ n \in Nat \ {0}  BY <1>1, <1>9, <3>2, <3>5
      <3>7. ti < tj  BY ONLY <3>2, <3>6, Scaled
      <3>8. t[i] < t[j]  BY <3>7 DEF ti, tj
      <3> QED  BY ONLY <1>6, <1>9, <3>8
    <2>2. \A i \in 1 .. n : dd[i] = 0  BY <1>2, <2>1
    <2>3. dd \in Seq(Int) /\ Len(dd) = n /\ n \in Nat
      <3>1. n \in Nat /\ dd \in [1 .. n -> Int]  BY <1>1, <1>4
      <3> QED  BY ONLY <3>1
    <2> DEFINE none == 0
    <2>4. none \in Int /\ \A i \in 1 .. n : dd[i] = none  BY <2>2
    <2> HIDE DEF none
    <2>5. den = n * none  BY ONLY <1>5, <2>3, <2>4, SumConstant
    <2>6. den = 0  BY <2>3, <2>5 DEF none
    <2>7. slope.num = 0  BY <1>1, <2>6
    <2> HIDE DEF pairs, do, dt
    <2> QED  BY ONLY <1>9, <2>7
  <1>10. CASE n >= 3 /\ pairs # {}
    <2>1. PICK a, b \in 1 .. n : t[a] < t[b]  BY ONLY <1>7, <1>10
    <2>2. /\ \A i \in 1 .. n : d[i] = n * t[i] - mt
          /\ \A i \in 1 .. n : g[i] = n * o[i] - mo
          BY <1>2
    <2>3. /\ \A i \in 1 .. n : dg[i] = d[i] * g[i] /\ dd[i] = d[i] * d[i]
          BY <1>2
    <2>4. ASSUME NEW s \in {-1, 1}
          PROVE  /\ den > 0
                 /\ \E i, j \in 1 .. n :
                       /\ t[i] < t[j]
                       /\ ~ (s * (den * (o[j] - o[i]) - num * (t[j] - t[i])) > 0)
      <3>1. Regression(n, t, o, mt, mo, d, g, dg, dd, num, den)
            BY <1>1, <1>3, <1>4, <1>5, <2>2, <2>3 DEF Regression
      <3> QED  BY ONLY <2>1, <2>4, <3>1, SomePairBelow
    <2>5. den > 0  BY <2>4
    <2>6. slope.num = num * 1000 /\ slope.den = den
      <3>1. ~ (n < 3) /\ den # 0  BY <1>1, <1>10, <2>5
      <3> QED  BY <1>1, <3>1
    <2>7. ASSUME NEW i \in 1 .. n, NEW j \in 1 .. n, t[i] < t[j], NEW s \in {-1, 1},
                 ~ (s * (den * (o[j] - o[i]) - num * (t[j] - t[i])) > 0)
          PROVE  \E p \in pairs :
                    s * (1000 * do(p) * slope.den) <= s * (slope.num * dt(p))
      <3> DEFINE u == o[j] - o[i]
                 v == t[j] - t[i]
                 p == <<i, j>>
      <3>1. u \in Int /\ v \in Int
        <4>1. o[j] \in Int /\ o[i] \in Int /\ t[j] \in Int /\ t[i] \in Int  BY <1>3
        <4> QED  BY <4>1
      <3>2. p \in pairs /\ dt(p) = v /\ do(p) = u  BY <1>6, <2>7
      <3>3. ~ (s * (den * u - num * v) > 0)  BY <2>7
      <3> HIDE DEF u, v, p, pairs, do, dt
      <3>4. den * u \in Int /\ num * v \in Int  BY <1>1, <3>1
      <3>5. /\ 1000 * u * slope.den = 1000 * (den * u)
            /\ slope.num * v = 1000 * (num * v)
            BY <1>1, <2>6, <3>1
      <3> DEFINE x == den * u  y == num * v
      <3>6. s * (1000 * x) <= s * (1000 * y)
        <4>1. ~ (s * (x - y) > 0) /\ x \in Int /\ y \in Int  BY <3>3, <3>4
        <4> HIDE DEF x, y
        <4>2. CASE s = 1  BY <4>1, <4>2
        <4>3. CASE s = -1  BY <4>1, <4>3
        <4> QED  BY <4>2, <4>3
      <3>7. s * (1000 * do(p) * slope.den) <= s * (slope.num * dt(p))
            BY <3>2, <3>5, <3>6
      <3> QED  BY <3>2, <3>7
    <2>8. \A s \in {-1, 1} : \E p \in pairs :
              s * (1000 * do(p) * slope.den) <= s * (slope.num * dt(p))
      <3> HIDE DEF pairs, do, dt
      <3> TAKE s \in {-1, 1}
      <3>1. PICK i, j \in 1 .. n :
                /\ t[i] < t[j]
                /\ ~ (s * (den * (o[j] - o[i]) - num * (t[j] - t[i])) > 0)
            BY <2>4
      <3> QED  BY <2>7, <3>1
    <2>9. \A p \in pairs : /\ 1000 * do(p) * slope.den \in Int
                           /\ slope.num * dt(p) \in Int
      <3> HIDE DEF pairs, do, dt
      <3> TAKE p \in pairs
      <3>1. p[1] \in 1 .. n /\ p[2] \in 1 .. n  BY <1>1 DEF pairs
      <3>2. do(p) \in Int /\ dt(p) \in Int
        <4> DEFINE i == p[1]  j == p[2]
                   ti == samples[i].t  tj == samples[j].t
                   oi == samples[i].o  oj == samples[j].o
        <4>1. \A k \in 1 .. n : samples[k].t \in Int /\ samples[k].o \in Int  BY <1>1
        <4>2. i \in 1 .. n /\ j \in 1 .. n  BY <3>1
        <4>3. ti \in Int /\ tj \in Int /\ oi \in Int /\ oj \in Int
          <5> HIDE DEF i, j
          <5> QED  BY ONLY <4>1, <4>2
        <4>4. do(p) = oj - oi /\ dt(p) = tj - ti  BY DEF do, dt
        <4> HIDE DEF ti, tj, oi, oj
        <4> QED  BY ONLY <4>3, <4>4
      <3>3. slope.num \in Int /\ slope.den \in Int  BY <1>1, <2>6
      <3>4. \A x, y \in Int : x * y \in Int /\ 1000 * x * y \in Int  OBVIOUS
      <3> QED  BY ONLY <3>2, <3>3, <3>4
    <2> HIDE DEF pairs
    <2>10. \E p \in pairs : 1000 * do(p) * slope.den <= slope.num * dt(p)
      <3>1. PICK p \in pairs : 1 * (1000 * do(p) * slope.den) <= 1 * (slope.num * dt(p))
            BY <2>8
      <3> HIDE DEF do, dt
      <3> DEFINE x == 1000 * do(p) * slope.den  y == slope.num * dt(p)
      <3>2. x \in Int /\ y \in Int /\ 1 * x <= 1 * y  BY <2>9, <3>1
      <3> HIDE DEF x, y
      <3>3. x <= y  BY <3>2
      <3> QED  BY <3>3 DEF x, y
    <2>11. \E p \in pairs : slope.num * dt(p) <= 1000 * do(p) * slope.den
      <3>1. PICK p \in pairs : (-1) * (1000 * do(p) * slope.den) <= (-1) * (slope.num * dt(p))
            BY <2>8
      <3> HIDE DEF do, dt
      <3> DEFINE x == 1000 * do(p) * slope.den  y == slope.num * dt(p)
      <3>2. x \in Int /\ y \in Int /\ (-1) * x <= (-1) * y  BY <2>9, <3>1
      <3> HIDE DEF x, y
      <3>3. y <= x  BY <3>2
      <3> QED  BY <3>3 DEF x, y
    <2> HIDE DEF do, dt
    <2> QED  BY <1>1, <1>10, <2>10, <2>11, SMTT(30)
  <1> HIDE DEF pairs, do, dt
  <1> QED  BY <1>1, <1>8, <1>9, <1>10

\* linreg_slope_ppm is a fraction over a positive denominator: a sum of squares that
\* is not 0, or 1.
LEMMA SlopeType ==
    ASSUME NEW samples \in Seq([t: Int, o: Int])
    PROVE  linreg_slope_ppm(samples) \in [num: Int, den: Nat \ {0}]
  <1> DEFINE n == Len(samples)
             mt == SumOf([i \in 1 .. n |-> samples[i].t])
             mo == SumOf([i \in 1 .. n |-> samples[i].o])
             d == [i \in 1 .. n |-> n * samples[i].t - mt]
             g == [i \in 1 .. n |-> n * samples[i].o - mo]
             dd == [i \in 1 .. n |-> d[i] * d[i]]
             num == SumOf([i \in 1 .. n |-> d[i] * g[i]])
             den == SumOf(dd)
             slope == linreg_slope_ppm(samples)
             none == [i \in 1 .. n |-> 0]
  <1>1. /\ n \in Nat /\ DOMAIN samples = 1 .. n
        /\ \A i \in 1 .. n : samples[i].t \in Int /\ samples[i].o \in Int
        /\ mt \in Int /\ mo \in Int
        /\ d \in [1 .. n -> Int] /\ g \in [1 .. n -> Int]
        /\ SumOf(d) = 0
        /\ num \in Int /\ den \in Int
        /\ slope = IF n < 3 \/ den = 0 THEN [num |-> 0, den |-> 1]
                                        ELSE [num |-> num * 1000, den |-> den]
        BY SlopeParts, ZenonT(60)
  <1>2. \A i \in 1 .. n : dd[i] = d[i] * d[i]  OBVIOUS
  <1> HIDE DEF n, mt, mo, d, num, slope
  <1>3. \A i \in 1 .. n : dd[i] \in Int /\ none[i] <= dd[i]
    <2> TAKE i \in 1 .. n
    <2> DEFINE x == d[i]
    <2>1. x \in Int /\ dd[i] = x * x  BY <1>1
    <2> HIDE DEF x
    <2>2. x * x >= 0 /\ x * x \in Int
      <3>1. x > 0 => x * x > 0  BY <2>1, Signs
      <3>2. x < 0 => x * x >= 0  BY <2>1, Signs
      <3>3. x = 0 => x * x = 0  BY <2>1, Signs
      <3>4. x * x \in Int  BY <2>1
      <3> QED  BY <2>1, <3>1, <3>2, <3>3, <3>4
    <2> QED  BY <2>1, <2>2
  <1>4. \A i \in 1 .. n : none[i] = 0 /\ none[i] \in Int  OBVIOUS
  <1>5. dd \in [1 .. n -> Int] /\ none \in [1 .. n -> Int]  BY <1>3, <1>4
  <1> HIDE DEF dd, none
  <1>6. dd \in Seq(Int) /\ none \in Seq(Int) /\ Len(dd) = n /\ Len(none) = n
    <2>1. n \in Nat  BY <1>1
    <2> QED  BY ONLY <1>5, <2>1
  <1> DEFINE zero == 0
  <1>7. zero \in Int /\ \A i \in 1 .. n : none[i] = zero  BY <1>4
  <1> HIDE DEF zero
  <1>8. SumOf(none) = n * zero  BY ONLY <1>1, <1>6, <1>7, SumConstant, SMTT(30)
  <1>9. SumOf(none) = 0  BY <1>1, <1>8 DEF zero
  <1>10. Len(none) = Len(dd) /\ \A i \in 1 .. Len(none) : none[i] <= dd[i]
         BY <1>3, <1>6
  <1>11. SumOf(none) <= den  BY ONLY <1>6, <1>10, SumMonotone DEF den
  <1> HIDE DEF den
  <1>12. slope \in [num: Int, den: Nat \ {0}]  BY <1>1, <1>9, <1>11
  <1> QED  BY <1>12 DEF slope
-----------------------------------------------------------------------------
\* percentile: where in a list of n elements it reads, and how far between two.
LEMMA PercentilePlace ==
    ASSUME NEW n \in Nat \ {0}, NEW a \in Nat, NEW b \in Nat \ {0}, a < b
    PROVE  LET pos == a * (n - 1)
               idx == (pos \div b) + 1
               frac == pos % b
           IN  /\ idx \in 1 .. n /\ frac \in 0 .. b - 1
               /\ a * (n - 1) = b * (idx - 1) + frac
               /\ idx = n => n = 1
  <1> DEFINE m == n - 1
             pos == a * m
             q == pos \div b
             frac == pos % b
  <1>1. m \in Nat /\ n = m + 1  OBVIOUS
  <1> HIDE DEF m
  <1>2. pos \in Nat  BY <1>1
  <1>3. q \in Nat /\ b * q <= pos  BY <1>2, Quotient
  <1>4. frac \in 0 .. b - 1 /\ pos = b * q + frac
    <2> HIDE DEF pos
    <2> QED  BY <1>2, Division
  <1>5. m = 0 => q = 0
    <2> HIDE DEF q
    <2>1. m = 0 => pos = 0  BY <1>1
    <2>2. 1 * b = b  OBVIOUS
    <2>3. q # 0 => b * q >= b
      <3>1. q # 0 => 1 <= q  BY <1>3
      <3>2. b * q = q * b  BY <1>3
      <3> QED  BY <1>3, <2>2, <3>1, <3>2, Scaled
    <2> QED  BY <1>2, <1>3, <2>1, <2>3
  <1>6. m # 0 => q < m
    <2>1. m # 0 => a * m < b * m  BY <1>1, Scaled
    <2>2. q * b = b * q /\ m * b = b * m  BY <1>1, <1>3
    <2>3. q * b <= pos /\ q * b \in Int /\ m * b \in Int  BY <1>1, <1>3, <2>2
    <2>4. m # 0 => q * b < m * b  BY <1>2, <2>1, <2>2, <2>3
    <2> HIDE DEF q, pos
    <2> QED  BY <1>1, <1>3, <2>4, Scaled
  <1> HIDE DEF q, frac, pos
  <1>7. /\ q + 1 \in 1 .. n /\ frac \in 0 .. b - 1 /\ pos = b * ((q + 1) - 1) + frac
        /\ q + 1 = n => n = 1
        BY <1>1, <1>3, <1>4, <1>5, <1>6
  <1> QED  BY <1>7 DEF q, frac, pos, m

\* Between two values, interpolated.
LEMMA Interpolated ==
    ASSUME NEW l \in Int, NEW h \in Int, l <= h, NEW b \in Nat \ {0}, NEW f \in 0 .. b - 1
    PROVE  /\ l * b + (h - l) * f \in Int
           /\ l * b <= l * b + (h - l) * f
           /\ l * b + (h - l) * f <= h * b
  <1> DEFINE w == h - l
  <1>1. w \in Nat /\ h = l + w  OBVIOUS
  <1> HIDE DEF w
  <1>2. w * f >= 0 /\ w * f <= w * b /\ w * f \in Int /\ w * b \in Int
    <2>1. w * 0 <= w * f /\ w * f <= w * b  BY <1>1, Weigh
    <2> QED  BY <1>1, <2>1
  <1>3. (l + w) * b = l * b + w * b /\ l * b \in Int  BY <1>1
  <1> QED  BY <1>1, <1>2, <1>3 DEF w

\* percentile of one half is robust_median, and of more no smaller and at most the
\* largest value.
THEOREM EveryQuantileAgrees ==
    ASSUME NEW values \in Seq(Int), values # <<>>
    PROVE  LET sorted == SortedBy(values, LAMBDA v : v)
               middle == percentile(sorted, Half)
               most == percentile(sorted, Most)
           IN  /\ 2 * middle.num = TwiceMedian(values) * middle.den
               /\ middle.num * most.den <= most.num * middle.den
               /\ most.num <= sorted[Len(sorted)] * most.den
  <1> DEFINE sorted == SortedBy(values, LAMBDA v : v)
             n == Len(values)
             median == TwiceMedian(values)
             middle == percentile(sorted, Half)
             most == percentile(sorted, Most)
  <1>1. /\ n \in Nat /\ sorted \in Seq(Int) /\ Len(sorted) = n
        /\ \A r, s \in 1 .. n : r <= s => sorted[r] <= sorted[s]
        BY SortedValues
  <1>2. n \in Nat \ {0}
    <2>1. n # 0  OBVIOUS
    <2> QED  BY <1>1, <2>1
  <1>3. /\ n \div 2 \in Nat /\ n = 2 * (n \div 2) + (n % 2) /\ n % 2 \in {0, 1}
        /\ median = IF n % 2 = 0 THEN sorted[n \div 2] + sorted[n \div 2 + 1]
                                 ELSE 2 * sorted[n \div 2 + 1]
        BY MedianOfSorted
  <1> HIDE DEF n, sorted, median
  <1>4. \A r \in 1 .. n : sorted[r] \in Int  BY <1>1
  <1> DEFINE i1 == ((1 * (n - 1)) \div 2) + 1
             f1 == (1 * (n - 1)) % 2
             i2 == ((19 * (n - 1)) \div 20) + 1
             f2 == (19 * (n - 1)) % 20
  <1>5. /\ middle = IF i1 < n
                    THEN [num |-> sorted[i1] * 2 + (sorted[i1 + 1] - sorted[i1]) * f1, den |-> 2]
                    ELSE [num |-> sorted[n], den |-> 1]
        /\ most = IF i2 < n
                  THEN [num |-> sorted[i2] * 20 + (sorted[i2 + 1] - sorted[i2]) * f2, den |-> 20]
                  ELSE [num |-> sorted[n], den |-> 1]
        BY <1>1 DEF percentile, Half, Most
  <1>6. /\ i1 \in 1 .. n /\ f1 \in 0 .. 1 /\ n - 1 = 2 * (i1 - 1) + f1 /\ (i1 = n => n = 1)
        /\ i2 \in 1 .. n /\ f2 \in 0 .. 19 /\ 19 * (n - 1) = 20 * (i2 - 1) + f2
        /\ (i2 = n => n = 1)
    <2>1. /\ i1 \in 1 .. n /\ f1 \in 0 .. 2 - 1 /\ 1 * (n - 1) = 2 * (i1 - 1) + f1
          /\ (i1 = n => n = 1)
          BY <1>2, PercentilePlace
    <2>2. /\ i2 \in 1 .. n /\ f2 \in 0 .. 20 - 1 /\ 19 * (n - 1) = 20 * (i2 - 1) + f2
          /\ (i2 = n => n = 1)
          BY <1>2, PercentilePlace
    <2> HIDE DEF i1, f1, i2, f2
    <2> QED  BY <1>2, <2>1, <2>2
  <1> DEFINE mid == n \div 2
  <1> HIDE DEF i1, f1, i2, f2, middle, most
  <1>7. CASE n = 1
    <2>1. /\ middle = [num |-> sorted[1], den |-> 1] /\ most = [num |-> sorted[1], den |-> 1]
          BY <1>5, <1>6, <1>7
    <2>2. median = 2 * sorted[1]
      <3>1. n \div 2 = 0 /\ n % 2 # 0 /\ n \div 2 + 1 = 1  BY <1>7
      <3> QED  BY ONLY <1>3, <3>1
    <2>3. sorted[1] \in Int  BY <1>4, <1>7
    <2>4. 2 * middle.num = median * middle.den  BY <2>1, <2>2, <2>3
    <2>5. middle.num * most.den <= most.num * middle.den  BY <2>1, <2>3
    <2>6. most.num <= sorted[Len(sorted)] * most.den  BY <1>1, <1>7, <2>1, <2>3
    <2> QED  BY <2>4, <2>5, <2>6 DEF middle, most, median, sorted
  <1>8. CASE n # 1
    <2>1. i1 < n /\ i2 < n /\ i1 + 1 \in 1 .. n /\ i2 + 1 \in 1 .. n
          BY <1>2, <1>6, <1>8
    <2> DEFINE l1 == sorted[i1]  h1 == sorted[i1 + 1]
               l2 == sorted[i2]  h2 == sorted[i2 + 1]
               x == l1 * 2 + (h1 - l1) * f1
               y == l2 * 20 + (h2 - l2) * f2
    <2>2. middle = [num |-> x, den |-> 2] /\ most = [num |-> y, den |-> 20]
          BY <1>5, <2>1
    <2>3. l1 \in Int /\ h1 \in Int /\ l2 \in Int /\ h2 \in Int /\ l1 <= h1 /\ l2 <= h2
          BY <1>1, <1>4, <1>6, <2>1
    <2>4. /\ f1 = 0 => n % 2 = 1 /\ mid + 1 = i1
          /\ f1 = 1 => n % 2 = 0 /\ mid = i1
      <3> HIDE DEF mid
      <3> QED  BY <1>2, <1>3, <1>6 DEF mid
    <2>5. median = 2 * l1 \/ f1 # 0  BY <1>3, <2>4
    <2>6. median = l1 + h1 \/ f1 # 1  BY <1>3, <2>4
    <2>7. i1 <= i2 /\ (i1 = i2 => 10 * f1 <= f2)  BY <1>2, <1>6
    <2>8. i1 < i2 => h1 <= l2  BY <1>1, <1>6, <2>1
    <2>9. h2 <= sorted[n] /\ sorted[n] \in Int  BY <1>1, <1>2, <1>4, <2>1
    <2>10. i1 = i2 => l1 = l2 /\ h1 = h2  OBVIOUS
    <2> HIDE DEF l1, h1, l2, h2
    <2>11. x \in Int /\ l1 * 2 <= x /\ x <= h1 * 2 /\ y \in Int /\ l2 * 20 <= y /\ y <= h2 * 20
      <3>1. f1 \in 0 .. 2 - 1 /\ f2 \in 0 .. 20 - 1  BY <1>6
      <3> QED  BY <2>3, <3>1, Interpolated
    <2>12. 2 * x = median * 2
      <3>1. CASE f1 = 0  BY <2>3, <2>5, <3>1
      <3>2. CASE f1 = 1  BY <2>3, <2>6, <3>2
      <3> QED  BY <1>6, <3>1, <3>2
    <2>13. x * 20 <= y * 2
      <3>1. CASE i1 < i2
        <4> HIDE DEF x, y
        <4> QED  BY <2>3, <2>8, <2>11, <3>1
      <3>2. CASE i1 = i2
        <4> DEFINE w == h1 - l1
        <4>1. w \in Nat /\ 10 * f1 \in Int /\ f2 \in Int  BY <1>6, <2>3
        <4>2. w * (10 * f1) <= w * f2  BY <2>7, <3>2, <4>1, Weigh
        <4>3. x * 20 = l1 * 40 + 2 * (w * (10 * f1))
          <5>1. CASE f1 = 0  BY <2>3, <5>1
          <5>2. CASE f1 = 1  BY <2>3, <5>2
          <5> QED  BY <1>6, <5>1, <5>2
        <4>4. y * 2 = l1 * 40 + 2 * (w * f2)
          <5>1. y = l1 * 20 + w * f2  BY <2>10, <3>2
          <5>2. w * f2 \in Int  BY <4>1
          <5> HIDE DEF w, y
          <5> QED  BY <2>3, <5>1, <5>2
        <4> HIDE DEF w, x, y
        <4>5. w * (10 * f1) \in Int /\ w * f2 \in Int  BY <4>1
        <4> QED  BY <2>3, <4>2, <4>3, <4>4, <4>5
      <3> QED  BY <1>6, <2>7, <3>1, <3>2
    <2>14. y <= sorted[n] * 20
      <3> HIDE DEF x, y
      <3> QED  BY <2>3, <2>9, <2>11
    <2> HIDE DEF x, y
    <2>15. /\ 2 * middle.num = median * middle.den
           /\ middle.num * most.den <= most.num * middle.den
           /\ most.num <= sorted[Len(sorted)] * most.den
           BY <1>1, <2>2, <2>12, <2>13, <2>14
    <2> QED  BY <2>15 DEF middle, most, median, sorted
  <1> QED  BY <1>7, <1>8
-----------------------------------------------------------------------------
\* The cast of a fraction: towards zero, by less than one.
LEMMA TruncatedBounds ==
    ASSUME NEW num \in Int, NEW den \in Nat \ {0}, NEW x, x = Truncated(num, den)
    PROVE  /\ x \in Int
           /\ num >= 0 => 0 <= x /\ x * den <= num /\ num < (x + 1) * den
           /\ num <= 0 => x <= 0 /\ num <= x * den /\ (x - 1) * den < num
  <1>1. CASE num >= 0
    <2>1. x = num \div den  BY <1>1 DEF Truncated
    <2>2. x \in Nat /\ den * x <= num /\ num < den * x + den
          BY <1>1, <2>1, Quotient
    <2>3. x * den <= num /\ num < (x + 1) * den  BY <2>2
    <2>4. ASSUME num <= 0
          PROVE  x <= 0 /\ num <= x * den /\ (x - 1) * den < num
      <3>1. x * den < 1 * den  BY <1>1, <2>2, <2>3, <2>4
      <3>2. x = 0  BY <2>2, <3>1, Scaled
      <3> QED  BY <1>1, <2>4, <3>2
    <2> QED  BY <2>2, <2>3, <2>4
  <1>2. CASE num < 0
    <2> DEFINE m == -num
               y == m \div den
    <2>1. m \in Nat /\ num = -m  BY <1>2
    <2>2. x = -y  BY <1>2 DEF Truncated
    <2> HIDE DEF m, y
    <2>3. y \in Nat /\ den * y <= m /\ m < den * y + den
          BY <2>1, Quotient DEF y
    <2>4. x * den = -(den * y) /\ (x - 1) * den = -(den * y) - den
          BY <2>2, <2>3
    <2> QED  BY <1>2, <2>1, <2>2, <2>3, <2>4
  <1> QED  BY <1>1, <1>2

\* apply: for every offset, drift and unit the correction handed to the kernel has
\* the sign of what it corrects, is never larger, and smaller only by a fraction
\* of a unit or by the limit.
THEOREM EveryCorrectionWithin ==
    ASSUME NEW offset \in [num: Int, den: Nat \ {0}],
           NEW drift \in [num: Int, den: Nat \ {0}]
    PROVE  CorrectionWithin(offset, drift)
  <1> DEFINE Fits(tx, num, den, bound) ==
                /\ -bound <= tx /\ tx <= bound
                /\ IF num >= 0 THEN 0 <= tx /\ tx * den <= num
                               ELSE tx <= 0 /\ num <= tx * den
                /\ (tx # bound /\ num >= 0) => num < (tx + 1) * den
                /\ (tx # -bound /\ num <= 0) => (tx - 1) * den < num
  <1>1. ASSUME NEW num \in Int, NEW den \in Nat \ {0}, NEW bound \in Nat
        PROVE  Fits(Clamp(Truncated(num, den), bound), num, den, bound)
    <2> DEFINE x == Truncated(num, den)
               tx == Clamp(x, bound)
    <2>1. /\ x \in Int
          /\ num >= 0 => 0 <= x /\ x * den <= num /\ num < (x + 1) * den
          /\ num <= 0 => x <= 0 /\ num <= x * den /\ (x - 1) * den < num
          BY TruncatedBounds
    <2> HIDE DEF x
    <2>2. CASE -bound <= x /\ x <= bound
      <3>1. tx = x  BY <2>1, <2>2 DEF Clamp
      <3> HIDE DEF tx
      <3>2. Fits(tx, num, den, bound)  BY <2>1, <2>2, <3>1
      <3> QED  BY <3>2 DEF tx, x
    <2>3. CASE x > bound
      <3>1. tx = bound /\ bound * den < x * den  BY <2>1, <2>3, Scaled DEF Clamp
      <3>2. num > 0 \/ ~ (num <= 0)  BY <2>1, <2>3
      <3> HIDE DEF tx
      <3>3. num > 0 /\ bound * den <= num /\ bound * den \in Int
            BY <2>1, <3>1, <3>2
      <3>4. Fits(tx, num, den, bound)  BY <3>1, <3>3
      <3> QED  BY <3>4 DEF tx, x
    <2>4. CASE x < -bound
      <3>1. tx = -bound /\ x * den < (-bound) * den
            BY <2>1, <2>4, Scaled DEF Clamp
      <3>2. num < 0 \/ ~ (num >= 0)  BY <2>1, <2>4
      <3> HIDE DEF tx
      <3>3. num < 0 /\ num <= (-bound) * den /\ (-bound) * den \in Int
            BY <2>1, <3>1, <3>2
      <3>4. Fits(tx, num, den, bound)  BY <3>1, <3>3
      <3> QED  BY <3>4 DEF tx, x
    <2> QED  BY <2>1, <2>2, <2>3, <2>4 DEF x
  <1>2. /\ NsPerUs \in Nat \ {0} /\ PpmUnit \in Nat \ {0}
        /\ MaxOffset \in Nat /\ MaxFreq \in Nat
        BY SlewAssumption
  <1>3. offset.den * NsPerUs \in Nat \ {0} /\ drift.num * PpmUnit \in Int
        BY <1>2
  <1> DEFINE tx == apply(offset, drift)
  <1>4. /\ tx.offset = Clamp(Truncated(offset.num, offset.den * NsPerUs), MaxOffset)
        /\ tx.freq = Clamp(Truncated(drift.num * PpmUnit, drift.den), MaxFreq)
        BY DEF apply
  <1> HIDE DEF Fits, tx
  <1>5. /\ Fits(tx.offset, offset.num, offset.den * NsPerUs, MaxOffset)
        /\ Fits(tx.freq, drift.num * PpmUnit, drift.den, MaxFreq)
        BY <1>1, <1>2, <1>3, <1>4
  <1> QED  BY <1>5 DEF CorrectionWithin, Fits, tx
=============================================================================
