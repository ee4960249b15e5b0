-------------------------- MODULE ArithmeticProofs --------------------------
(***************************************************************************)
(* What the other proofs need of integers: quotients, induction, the sums  *)
(* and products of Lists, and what compute_offset_delay guarantees for     *)
(* every exchange.                                                         *)
(***************************************************************************)
EXTENDS Lists, TimeCalc, FiniteSetTheorems, TLAPS

\* Quotient and remainder.
LEMMA Division ==
    ASSUME NEW a \in Int, NEW b \in Nat \ {0}
    PROVE  /\ a \div b \in Int
           /\ a % b \in 0 .. b - 1
           /\ a = b * (a \div b) + (a % b)
           /\ b * (a \div b) <= a
           /\ a < b * (a \div b) + b
    OBVIOUS

\* Products keep the order, both ways.
LEMMA Scaled ==
    ASSUME NEW a \in Int, NEW b \in Int, NEW c \in Nat \ {0}
    PROVE  /\ a * c < b * c <=> a < b
           /\ a * c <= b * c <=> a <= b
    OBVIOUS

LEMMA Factor ==
    ASSUME NEW a \in Int, NEW b \in Int, NEW c \in Int
    PROVE  /\ a * c \in Int
           /\ (a + b) * c = a * c + b * c
           /\ a * c = c * a
    OBVIOUS

\* Weights keep the order.
LEMMA Weigh ==
    ASSUME NEW w \in Nat, NEW a \in Int, NEW b \in Int, a <= b
    PROVE  w * a <= w * b
  <1>1. w * (b - a) = w * b - w * a /\ w * a \in Int /\ w * b \in Int  OBVIOUS
  <1>2. b - a \in Nat  OBVIOUS
  <1>3. \A u, v \in Nat : u * v \in Nat  OBVIOUS
  <1> QED  BY <1>1, <1>2, <1>3

\* The sign of a product.
LEMMA Signs ==
    ASSUME NEW x \in Int, NEW y \in Int
    PROVE  /\ x > 0 /\ y > 0 => x * y > 0
           /\ x < 0 /\ y <= 0 => x * y >= 0
           /\ x = 0 => x * y = 0
  <1>1. ASSUME x > 0, y > 0 PROVE x * y > 0
    <2>1. x \in Nat \ {0} /\ y \in Nat \ {0}  BY <1>1
    <2> QED  BY <2>1
  <1>2. ASSUME x < 0, y <= 0 PROVE x * y >= 0
    <2>1. -x \in Nat /\ -y \in Nat  BY <1>2
    <2>2. (-x) * (-y) = x * y  OBVIOUS
    <2>3. \A u, v \in Nat : u * v \in Nat  OBVIOUS
    <2> QED  BY <2>1, <2>2, <2>3
  <1> QED  BY <1>1, <1>2

\* A difference, times a number.
LEMMA Parts ==
    ASSUME NEW x \in Int, NEW y \in Int, NEW c \in Int
    PROVE  x * (y - c) = x * y - c * x /\ x * y \in Int /\ c * x \in Int
    OBVIOUS

\* How a residue s * (den * o - num * t) grows from one point (t, o) to another, in
\* coordinates n times as large and moved by constants.
LEMMA ResidueGrows ==
    ASSUME NEW n \in Nat \ {0}, NEW s \in {-1, 1}, NEW den \in Int, NEW num \in Int,
           NEW ti \in Int, NEW tj \in Int, NEW oi \in Int, NEW oj \in Int,
           NEW mt \in Int, NEW mo \in Int,
           NEW di, di = n * ti - mt, NEW dj, dj = n * tj - mt,
           NEW gi, gi = n * oi - mo, NEW gj, gj = n * oj - mo
    PROVE  /\ di < dj <=> ti < tj
           /\ s * (den * (oj - oi) - num * (tj - ti)) > 0
                => s * (den * gi - num * di) < s * (den * gj - num * dj)
  <1> DEFINE u == oj - oi
             v == tj - ti
             w == s * (den * u - num * v)
             a == den * gi - num * di
             b == den * gj - num * dj
  <1>1. u \in Int /\ v \in Int /\ n * u \in Int /\ n * v \in Int  OBVIOUS
  <1>2. n * tj = n * ti + n * v /\ n * oj = n * oi + n * u  OBVIOUS
  <1>3. n * ti \in Int /\ n * tj \in Int /\ n * oi \in Int /\ n * oj \in Int
        /\ di \in Int /\ dj \in Int /\ gi \in Int /\ gj \in Int
        OBVIOUS
  <1>4. gj = gi + n * u /\ dj = di + n * v
    <2> HIDE DEF u, v
    <2> QED  BY <1>1, <1>2, <1>3
  <1>5. di < dj <=> ti < tj
    <2>1. n * ti = ti * n /\ n * tj = tj * n  OBVIOUS
    <2>2. ti * n < tj * n <=> ti < tj  BY Scaled
    <2>3. di < dj <=> n * ti < n * tj  BY <1>3
    <2> QED  BY <2>1, <2>2, <2>3
  <1>6. b = a + n * (den * u - num * v)
    <2> HIDE DEF u, v
    <2>1. den * (gi + n * u) = den * gi + n * (den * u)  BY <1>1, <1>3
    <2>2. num * (di + n * v) = num * di + n * (num * v)  BY <1>1, <1>3
    <2>3. n * (den * u - num * v) = n * (den * u) - n * (num * v)  BY <1>1
    <2>4. /\ den * gi \in Int /\ num * di \in Int
          /\ n * (den * u) \in Int /\ n * (num * v) \in Int
          BY <1>1, <1>3
    <2>5. b = den * (gi + n * u) - num * (di + n * v)  BY <1>4
    <2> HIDE DEF b
    <2> QED  BY <2>1, <2>2, <2>3, <2>4, <2>5
  <1> DEFINE r == den * u - num * v
  <1>7. a \in Int /\ b \in Int /\ r \in Int /\ n * r \in Int
    <2> HIDE DEF u, v
    <2>1. \A x, y \in Int : x * y \in Int  OBVIOUS
    <2>2. r \in Int /\ a \in Int /\ b \in Int  BY <1>1, <1>3, <2>1
    <2> QED  BY <2>1, <2>2
  <1>8. b = a + n * r /\ w = s * r  BY <1>6
  <1> HIDE DEF a, b, r, w
  <1>9. w > 0 => s * a < s * b
    <2>1. CASE s = 1
      <3>1. r > 0 => n * r > 0  BY <1>7, Signs
      <3> QED  BY <1>7, <1>8, <2>1, <3>1
    <2>2. CASE s = -1
      <3>1. r < 0 => -r > 0 /\ n * (-r) = -(n * r)  BY <1>7
      <3>2. r < 0 => n * (-r) > 0  BY <1>7, <3>1, Signs
      <3> QED  BY <1>7, <1>8, <2>2, <3>1, <3>2
    <2> QED  BY <2>1, <2>2
  <1> QED  BY <1>5, <1>9 DEF w, a, b

\* The quotient of a nonnegative number.
LEMMA Quotient ==
    ASSUME NEW a \in Nat, NEW b \in Nat \ {0}, NEW q, q = a \div b
    PROVE  q \in Nat /\ b * q <= a /\ a < b * q + b
  <1>1. q \in Int /\ b * q <= a /\ a < b * q + b  BY Division
  <1>2. b * q + b = (q + 1) * b  BY <1>1
  <1>3. 0 * b < (q + 1) * b  BY <1>1, <1>2
  <1>4. 0 < q + 1  BY <1>1, <1>3, Scaled
  <1> QED  BY <1>1, <1>4

-----------------------------------------------------------------------------
\* Every set of natural numbers that is not empty has a least element: the intervals
\* that end in it are well-founded as sets.
LEMMA Least ==
    ASSUME NEW T \in SUBSET Nat, T # {}
    PROVE  \E n \in T : \A m \in T : n <= m
  <1> DEFINE R == StrictSubsetOrdering(Int)
             I == {1 .. n : n \in T}
  <1>1. IsWellFoundedOn(R, FiniteSubsetsOf(Int))
        BY FS_StrictSubsetOrderingWellFounded
  <1>2. I \subseteq FiniteSubsetsOf(Int)
    <2>1. \A n \in T : IsFiniteSet(1 .. n) /\ 1 .. n \in SUBSET Int
          BY FS_Interval
    <2> QED  BY <2>1 DEF FiniteSubsetsOf
  <1>3. I # {}  OBVIOUS
  <1>4. PICK x \in I : \A y \in I : <<y, x>> \notin R
    <2> HIDE DEF R, I
    <2> QED  BY <1>1, <1>2, <1>3, WFMin
  <1>5. PICK n \in T : x = 1 .. n  OBVIOUS
  <1>6. ASSUME NEW m \in T PROVE n <= m
    <2>1. SUFFICES ASSUME m < n PROVE FALSE  OBVIOUS
    <2>2. 1 .. m \subseteq 1 .. n /\ n \in 1 .. n /\ n \notin 1 .. m  BY <2>1
    <2>3. <<1 .. m, x>> \in R  BY <2>2, <1>5 DEF StrictSubsetOrdering
    <2> QED  BY <1>4, <2>3
  <1> QED  BY <1>6

\* Induction, over a set and not a predicate: one with 0 and every successor.
LEMMA Induction ==
    ASSUME NEW P, 0 \in P, \A n \in Nat : n \in P => n + 1 \in P
    PROVE  \A n \in Nat : n \in P
  <1> DEFINE T == Nat \ P
  <1>1. SUFFICES ASSUME T # {} PROVE FALSE  OBVIOUS
  <1>2. PICK n \in T : \A m \in T : n <= m  BY <1>1, Least
  <1>3. n # 0 /\ n \in Nat  OBVIOUS
  <1>4. n - 1 \in Nat /\ n - 1 \notin T  BY <1>2, <1>3
  <1> QED  BY <1>4

\* The same up to a bound.
LEMMA BoundedInduction ==
    ASSUME NEW N \in Nat, NEW P, 0 \in P,
           \A n \in 0 .. N - 1 : n \in P => n + 1 \in P
    PROVE  \A n \in 0 .. N : n \in P
  <1> DEFINE Q == {n \in Nat : n <= N => n \in P}
  <1>1. 0 \in Q  OBVIOUS
  <1>2. \A n \in Nat : n \in Q => n + 1 \in Q  OBVIOUS
  <1>3. \A n \in Nat : n \in Q
    <2> HIDE DEF Q
    <2> QED  BY <1>1, <1>2, Induction
  <1> QED  BY <1>3
-----------------------------------------------------------------------------
\* SumOf: the sums of the first elements of a list.
IsSum(sum, list) ==
    /\ sum[0] = 0
    /\ \A i \in 1 .. Len(list) : sum[i] = sum[i - 1] + list[i]

\* The recursion of SumOf has a solution.
LEMMA SumExists ==
    ASSUME NEW list, Len(list) \in Nat
    PROVE  \E sum : IsSum(sum, list) /\ SumOf(list) = sum[Len(list)]
  <1> DEFINE Rec(sum, n) ==
                sum = [i \in 0 .. n |-> IF i = 0 THEN 0 ELSE sum[i - 1] + list[i]]
             P == {n \in Nat : \E sum : Rec(sum, n)}
  <1>1. Rec([i \in 0 .. 0 |-> 0], 0)  OBVIOUS
  <1>2. ASSUME NEW n \in Nat, NEW sum, Rec(sum, n)
        PROVE  \E f : Rec(f, n + 1)
    <2> DEFINE f == [i \in 0 .. n + 1 |->
                        IF i = n + 1 THEN sum[n] + list[n + 1] ELSE sum[i]]
    <2>1. \A i \in 0 .. n + 1 : f[i] = IF i = 0 THEN 0 ELSE f[i - 1] + list[i]
          BY <1>2
    <2>2. Rec(f, n + 1)  BY <2>1
    <2> QED  BY <2>2
  <1> HIDE DEF Rec
  <1>3. 0 \in P  BY <1>1
  <1>4. \A n \in Nat : n \in P => n + 1 \in P  BY <1>2
  <1>5. \A n \in Nat : n \in P
    <2> HIDE DEF P
    <2> QED  BY <1>3, <1>4, Induction
  <1>6. \E sum : Rec(sum, Len(list))  BY <1>5
  <1> DEFINE s == CHOOSE sum : Rec(sum, Len(list))
  <1>7. Rec(s, Len(list))  BY <1>6
  <1>8. SumOf(list) = s[Len(list)]  BY DEF SumOf, Rec
  <1> HIDE DEF s
  <1>9. IsSum(s, list)  BY <1>7 DEF Rec, IsSum
  <1> QED  BY <1>8, <1>9

\* The recursion of ProductOf has a solution.
LEMMA ProductExists ==
    ASSUME NEW list, Len(list) \in Nat
    PROVE  \E p : /\ p[0] = 1
                  /\ \A i \in 1 .. Len(list) : p[i] = p[i - 1] * list[i]
                  /\ ProductOf(list) = p[Len(list)]
  <1> DEFINE Rec(p, n) ==
                p = [i \in 0 .. n |-> IF i = 0 THEN 1 ELSE p[i - 1] * list[i]]
             P == {n \in Nat : \E p : Rec(p, n)}
  <1>1. Rec([i \in 0 .. 0 |-> 1], 0)  OBVIOUS
  <1>2. ASSUME NEW n \in Nat, NEW p, Rec(p, n)
        PROVE  \E f : Rec(f, n + 1)
    <2> DEFINE f == [i \in 0 .. n + 1 |->
                        IF i = n + 1 THEN p[n] * list[n + 1] ELSE p[i]]
    <2>1. \A i \in 0 .. n + 1 : f[i] = IF i = 0 THEN 1 ELSE f[i - 1] * list[i]
          BY <1>2
    <2>2. Rec(f, n + 1)  BY <2>1
    <2> QED  BY <2>2
  <1> HIDE DEF Rec
  <1>3. 0 \in P  BY <1>1
  <1>4. \A n \in Nat : n \in P => n + 1 \in P  BY <1>2
  <1>5. \A n \in Nat : n \in P
    <2> HIDE DEF P
    <2> QED  BY <1>3, <1>4, Induction
  <1>6. \E p : Rec(p, Len(list))  BY <1>5
  <1> DEFINE s == CHOOSE p : Rec(p, Len(list))
  <1>7. Rec(s, Len(list))  BY <1>6
  <1>8. ProductOf(list) = s[Len(list)]  BY DEF ProductOf, Rec
  <1> HIDE DEF s
  <1>9. s[0] = 1 /\ \A i \in 1 .. Len(list) : s[i] = s[i - 1] * list[i]
        BY <1>7 DEF Rec
  <1> QED  BY <1>8, <1>9

\* Sums of integers are integers, as are those of the first elements.
LEMMA SumParts ==
    ASSUME NEW list \in Seq(Int)
    PROVE  \E sum : /\ IsSum(sum, list) /\ SumOf(list) = sum[Len(list)]
                    /\ \A i \in 0 .. Len(list) : sum[i] \in Int
  <1> DEFINE n == Len(list)
  <1>1. n \in Nat /\ DOMAIN list = 1 .. n /\ \A i \in 1 .. n : list[i] \in Int  OBVIOUS
  <1>2. PICK sum : IsSum(sum, list) /\ SumOf(list) = sum[n]  BY <1>1, SumExists
  <1> DEFINE P == {i \in Nat : sum[i] \in Int}
  <1>3. 0 \in P  BY <1>2 DEF IsSum
  <1>4. \A i \in 0 .. n - 1 : i \in P => i + 1 \in P
    <2> SUFFICES ASSUME NEW i \in 0 .. n - 1, sum[i] \in Int PROVE sum[i + 1] \in Int
        BY <1>1
    <2>1. i + 1 \in 1 .. n /\ (i + 1) - 1 = i  BY <1>1
    <2>2. sum[i + 1] = sum[i] + list[i + 1]  BY <1>2, <2>1 DEF IsSum
    <2> QED  BY <1>1, <2>1, <2>2
  <1>5. \A i \in 0 .. n : i \in P
    <2> HIDE DEF P, n
    <2> QED  BY <1>1, <1>3, <1>4, BoundedInduction
  <1> QED  BY <1>2, <1>5

\* The sum of integers.
LEMMA SumType ==
    ASSUME NEW list \in Seq(Int)
    PROVE  SumOf(list) \in Int
  <1>1. Len(list) \in 0 .. Len(list)  OBVIOUS
  <1> QED  BY <1>1, SumParts

\* Sums are monotone, and larger at least by what one element is larger.
LEMMA SumMonotone ==
    ASSUME NEW a \in Seq(Int), NEW b \in Seq(Int), Len(a) = Len(b),
           \A i \in 1 .. Len(a) : a[i] <= b[i]
    PROVE  /\ SumOf(a) <= SumOf(b)
           /\ \A k \in 1 .. Len(a) : SumOf(a) + (b[k] - a[k]) <= SumOf(b)
  <1> DEFINE n == Len(a)
  <1>1. /\ n \in Nat /\ DOMAIN a = 1 .. n /\ DOMAIN b = 1 .. n
        /\ \A i \in 1 .. n : a[i] \in Int /\ b[i] \in Int /\ a[i] <= b[i]
        OBVIOUS
  <1>2. PICK sa : /\ IsSum(sa, a) /\ SumOf(a) = sa[n]
                  /\ \A i \in 0 .. n : sa[i] \in Int
        BY SumParts
  <1>3. PICK sb : /\ IsSum(sb, b) /\ SumOf(b) = sb[n]
                  /\ \A i \in 0 .. n : sb[i] \in Int
        BY SumParts
  <1> DEFINE P == {i \in Nat : /\ sa[i] <= sb[i]
                               /\ \A k \in 1 .. i : sa[i] + (b[k] - a[k]) <= sb[i]}
  <1>4. 0 \in P  BY <1>2, <1>3 DEF IsSum
  <1>5. \A i \in 0 .. n - 1 : i \in P => i + 1 \in P
    <2> SUFFICES ASSUME NEW i \in 0 .. n - 1, i \in P PROVE i + 1 \in P
        OBVIOUS
    <2>1. i + 1 \in 1 .. n /\ (i + 1) - 1 = i /\ i \in 0 .. n /\ i + 1 \in 0 .. n
          BY <1>1
    <2>2. sa[i + 1] = sa[i] + a[i + 1] /\ sb[i + 1] = sb[i] + b[i + 1]
          BY <1>1, <1>2, <1>3, <2>1 DEF IsSum
    <2>3. /\ sa[i] \in Int /\ sb[i] \in Int /\ a[i + 1] \in Int /\ b[i + 1] \in Int
          /\ a[i + 1] <= b[i + 1]
          BY <1>1, <1>2, <1>3, <2>1
    <2>4. sa[i + 1] <= sb[i + 1]  BY <2>2, <2>3
    <2>5. ASSUME NEW k \in 1 .. i + 1
          PROVE  sa[i + 1] + (b[k] - a[k]) <= sb[i + 1]
      <3>1. CASE k = i + 1
        <4>1. sa[i] <= sb[i]  OBVIOUS
        <4> QED  BY <2>2, <2>3, <3>1, <4>1
      <3>2. CASE k \in 1 .. i
        <4>1. a[k] \in Int /\ b[k] \in Int  BY <1>1, <2>1, <3>2
        <4>2. sa[i] + (b[k] - a[k]) <= sb[i]  BY <3>2
        <4> DEFINE x == sa[i]  u == a[i + 1]  s == sa[i + 1]  p == a[k]
                   y == sb[i]  v == b[i + 1]  t == sb[i + 1]  q == b[k]
        <4>3. /\ x \in Int /\ y \in Int /\ u \in Int /\ v \in Int /\ p \in Int /\ q \in Int
              /\ s = x + u /\ t = y + v /\ u <= v /\ x + (q - p) <= y
              BY ONLY <2>2, <2>3, <4>1, <4>2
        <4> HIDE DEF x, y, u, v, s, t, p, q
        <4>4. s + (q - p) <= t  BY ONLY <4>3
        <4> QED  BY ONLY <4>4 DEF s, t, p, q
      <3> QED  BY <2>1, <3>1, <3>2
    <2> QED  BY <2>1, <2>4, <2>5
  <1>6. \A i \in 0 .. n : i \in P
    <2> HIDE DEF P, n
    <2> QED  BY <1>1, <1>4, <1>5, BoundedInduction
  <1>7. sa[n] <= sb[n] /\ \A k \in 1 .. n : sa[n] + (b[k] - a[k]) <= sb[n]
    <2>1. n \in P  BY <1>1, <1>6
    <2> QED  BY <2>1
  <1> QED  BY <1>2, <1>3, <1>7

\* A sum of multiples.
LEMMA SumScaled ==
    ASSUME NEW a \in Seq(Int), NEW c \in Seq(Int), NEW x \in Int, Len(a) = Len(c),
           \A i \in 1 .. Len(c) : c[i] = x * a[i]
    PROVE  SumOf(c) = x * SumOf(a)
  <1> DEFINE n == Len(c)
  <1>1. n \in Nat /\ Len(a) = n /\ \A i \in 1 .. n : a[i] \in Int  OBVIOUS
  <1>2. PICK sa : /\ IsSum(sa, a) /\ SumOf(a) = sa[n]
                  /\ \A i \in 0 .. n : sa[i] \in Int
        BY SumParts
  <1>3. PICK sc : /\ IsSum(sc, c) /\ SumOf(c) = sc[n]
                  /\ \A i \in 0 .. n : sc[i] \in Int
        BY SumParts
  <1> DEFINE P == {i \in Nat : sc[i] = x * sa[i]}
  <1>4. 0 \in P  BY <1>2, <1>3 DEF IsSum
  <1>5. \A i \in 0 .. n - 1 : i \in P => i + 1 \in P
    <2> SUFFICES ASSUME NEW i \in 0 .. n - 1, i \in P PROVE i + 1 \in P
        OBVIOUS
    <2>1. i + 1 \in 1 .. n /\ (i + 1) - 1 = i /\ i \in 0 .. n  BY <1>1
    <2>2. sa[i + 1] = sa[i] + a[i + 1] /\ sc[i + 1] = sc[i] + x * a[i + 1]
          BY <1>1, <1>2, <1>3, <2>1 DEF IsSum
    <2> DEFINE u == sa[i]  v == a[i + 1]
    <2>3. u \in Int /\ v \in Int  BY <1>1, <1>2, <2>1
    <2>4. sc[i + 1] = x * u + x * v  BY <2>2
    <2>5. sa[i + 1] = u + v  BY <2>2
    <2>6. x * (u + v) = x * u + x * v
      <3> HIDE DEF u, v
      <3> QED  BY <2>3
    <2> QED  BY <2>1, <2>4, <2>5, <2>6
  <1>6. \A i \in 0 .. n : i \in P
    <2> HIDE DEF P, n
    <2> QED  BY <1>1, <1>4, <1>5, BoundedInduction
  <1>7. n \in P  BY <1>1, <1>6
  <1>8. sc[n] = x * sa[n]  BY <1>7
  <1> QED  BY <1>2, <1>3, <1>8

\* A sum of sums.
LEMMA SumAdded ==
    ASSUME NEW a \in Seq(Int), NEW b \in Seq(Int), NEW c \in Seq(Int),
           Len(a) = Len(c), Len(b) = Len(c),
           \A i \in 1 .. Len(c) : c[i] = a[i] + b[i]
    PROVE  SumOf(c) = SumOf(a) + SumOf(b)
  <1> DEFINE n == Len(c)
  <1>1. /\ n \in Nat /\ Len(a) = n /\ Len(b) = n
        /\ \A i \in 1 .. n : a[i] \in Int /\ b[i] \in Int
        OBVIOUS
  <1>2. PICK sa : /\ IsSum(sa, a) /\ SumOf(a) = sa[n]
                  /\ \A i \in 0 .. n : sa[i] \in Int
        BY SumParts
  <1>3. PICK sb : /\ IsSum(sb, b) /\ SumOf(b) = sb[n]
                  /\ \A i \in 0 .. n : sb[i] \in Int
        BY SumParts
  <1>4. PICK sc : /\ IsSum(sc, c) /\ SumOf(c) = sc[n]
                  /\ \A i \in 0 .. n : sc[i] \in Int
        BY SumParts
  <1> DEFINE P == {i \in Nat : sc[i] = sa[i] + sb[i]}
  <1>5. 0 \in P  BY <1>2, <1>3, <1>4 DEF IsSum
  <1>6. \A i \in 0 .. n - 1 : i \in P => i + 1 \in P
    <2> SUFFICES ASSUME NEW i \in 0 .. n - 1, i \in P PROVE i + 1 \in P
        OBVIOUS
    <2>1. i + 1 \in 1 .. n /\ (i + 1) - 1 = i /\ i \in 0 .. n  BY <1>1
    <2>2. /\ sa[i + 1] = sa[i] + a[i + 1] /\ sb[i + 1] = sb[i] + b[i + 1]
          /\ sc[i + 1] = sc[i] + (a[i + 1] + b[i + 1])
          BY <1>1, <1>2, <1>3, <1>4, <2>1 DEF IsSum
    <2>3. sa[i] \in Int /\ sb[i] \in Int /\ a[i + 1] \in Int /\ b[i + 1] \in Int
          BY <1>1, <1>2, <1>3, <2>1
    <2>4. sc[i] = sa[i] + sb[i]  OBVIOUS
    <2> DEFINE x == sa[i]  u == a[i + 1]  s == sa[i + 1]
               y == sb[i]  v == b[i + 1]  t == sb[i + 1]
               z == sc[i]                 w == sc[i + 1]
    <2>5. /\ x \in Int /\ y \in Int /\ u \in Int /\ v \in Int
          /\ s = x + u /\ t = y + v /\ z = x + y /\ w = z + (u + v)
          BY ONLY <2>2, <2>3, <2>4
    <2> HIDE DEF x, y, z, u, v, w, s, t
    <2>6. w = s + t  BY ONLY <2>5
    <2>7. sc[i + 1] = sa[i + 1] + sb[i + 1]  BY ONLY <2>6 DEF w, s, t
    <2> QED  BY <2>1, <2>7
  <1>7. \A i \in 0 .. n : i \in P
    <2> HIDE DEF P, n
    <2> QED  BY <1>1, <1>5, <1>6, BoundedInduction
  <1>8. n \in P  BY <1>1, <1>7
  <1>9. sc[n] = sa[n] + sb[n]  BY <1>8
  <1> QED  BY <1>2, <1>3, <1>4, <1>9

\* A sum and a multiple of another one.
LEMMA SumCombined ==
    ASSUME NEW a \in Seq(Int), NEW b \in Seq(Int), NEW c \in Seq(Int), NEW x \in Int,
           Len(a) = Len(c), Len(b) = Len(c),
           \A i \in 1 .. Len(c) : c[i] = a[i] + x * b[i]
    PROVE  SumOf(c) = SumOf(a) + x * SumOf(b)
  <1> DEFINE n == Len(c)
             xb == [i \in 1 .. n |-> x * b[i]]
  <1>1. n \in Nat /\ Len(b) = n /\ \A i \in 1 .. n : b[i] \in Int  OBVIOUS
  <1>2. \A i \in 1 .. n : x * b[i] \in Int  BY <1>1
  <1>3. xb \in Seq(Int) /\ Len(xb) = Len(c)  BY <1>1, <1>2
  <1>4. \A i \in 1 .. Len(xb) : xb[i] = x * b[i]  BY <1>3
  <1>5. \A i \in 1 .. Len(c) : c[i] = a[i] + xb[i]  OBVIOUS
  <1> HIDE DEF xb, n
  <1>6. SumOf(xb) = x * SumOf(b)
    <2>1. Len(b) = Len(xb)  BY <1>3
    <2> QED  BY <1>3, <1>4, <2>1, SumScaled
  <1>7. SumOf(c) = SumOf(a) + SumOf(xb)  BY <1>3, <1>5, SumAdded
  <1> QED  BY <1>6, <1>7

\* The sum of n times the same.
LEMMA SumConstant ==
    ASSUME NEW n \in Nat, NEW x \in Int, NEW list \in Seq(Int), Len(list) = n,
           \A i \in 1 .. n : list[i] = x
    PROVE  SumOf(list) = n * x
  <1>1. Len(list) = n  OBVIOUS
  <1>2. PICK sum : /\ IsSum(sum, list) /\ SumOf(list) = sum[n]
                   /\ \A i \in 0 .. n : sum[i] \in Int
        BY SumParts
  <1> DEFINE P == {i \in Nat : sum[i] = i * x}
  <1>3. 0 \in P  BY <1>2 DEF IsSum
  <1>4. \A i \in 0 .. n - 1 : i \in P => i + 1 \in P
    <2> SUFFICES ASSUME NEW i \in 0 .. n - 1, i \in P PROVE i + 1 \in P
        OBVIOUS
    <2>1. i + 1 \in 1 .. n /\ (i + 1) - 1 = i  OBVIOUS
    <2>2. list[i + 1] = x  BY <2>1
    <2>3. sum[i + 1] = sum[i] + x  BY <1>1, <1>2, <2>1, <2>2 DEF IsSum
    <2>4. (i + 1) * x = i * x + x  OBVIOUS
    <2> QED  BY <2>1, <2>3, <2>4
  <1>5. \A i \in 0 .. n : i \in P
    <2> HIDE DEF P
    <2> QED  BY <1>3, <1>4, BoundedInduction
  <1> QED  BY <1>2, <1>5

\* A product of positive numbers is positive and no smaller than any of them.
LEMMA ProductOfPositive ==
    ASSUME NEW list, Len(list) \in Nat, \A i \in 1 .. Len(list) : list[i] \in Nat \ {0}
    PROVE  /\ ProductOf(list) \in Nat \ {0}
           /\ \A k \in 1 .. Len(list) : list[k] <= ProductOf(list)
  <1> DEFINE n == Len(list)
  <1>1. PICK p : /\ p[0] = 1 /\ ProductOf(list) = p[n]
                 /\ \A i \in 1 .. n : p[i] = p[i - 1] * list[i]
        BY ProductExists
  <1> DEFINE P == {i \in Nat : /\ p[i] \in Nat \ {0}
                               /\ \A k \in 1 .. i : list[k] <= p[i]}
  <1>2. 0 \in P  BY <1>1
  <1>3. \A i \in 0 .. n - 1 : i \in P => i + 1 \in P
    <2> SUFFICES ASSUME NEW i \in 0 .. n - 1, i \in P PROVE i + 1 \in P
        OBVIOUS
    <2>1. i + 1 \in 1 .. n /\ (i + 1) - 1 = i  OBVIOUS
    <2> DEFINE a == p[i]  b == list[i + 1]
    <2>2. p[i + 1] = a * b  BY <1>1, <2>1
    <2>3. a \in Nat \ {0} /\ b \in Nat \ {0}  BY <2>1
    <2>4. \A k \in 1 .. i : list[k] <= a /\ list[k] \in Nat  BY <2>1
    <2> HIDE DEF a
    <2>5. a * b \in Nat /\ 1 * b <= a * b /\ 1 * a <= b * a /\ b * a = a * b
      <3> HIDE DEF b
      <3> QED  BY <2>3, Scaled
    <2>6. a * b \in Nat \ {0} /\ b <= a * b /\ a <= a * b  BY <2>3, <2>5
    <2>7. ASSUME NEW k \in 1 .. i + 1 PROVE list[k] <= a * b
      <3>1. CASE k = i + 1  BY <2>6, <3>1
      <3>2. CASE k \in 1 .. i
        <4>1. list[k] <= a /\ list[k] \in Nat  BY <2>4, <3>2
        <4> HIDE DEF b
        <4> QED  BY ONLY <2>3, <2>6, <4>1
      <3> QED  BY <3>1, <3>2
    <2> QED  BY <2>1, <2>2, <2>6, <2>7
  <1>4. \A i \in 0 .. n : i \in P
    <2> HIDE DEF P
    <2> QED  BY <1>2, <1>3, BoundedInduction
  <1> QED  BY <1>1, <1>4
-----------------------------------------------------------------------------
\* Halving towards zero is off by at most one half.
LEMMA TruncHalfBounds ==
  ASSUME NEW x \in Int
  PROVE  /\ TruncHalf(x) \in Int
         /\ 2 * TruncHalf(x) - x \in {-1, 0, 1}
BY DEF TruncHalf

\* compute_offset_delay returns integers.
LEMMA CalcType ==
  ASSUME NEW t1 \in Int, NEW t2 \in Int, NEW t3 \in Int, NEW t4 \in Int
  PROVE  compute_offset_delay(t1, t2, t3, t4) \in [delay: Int, offset: Int]
BY TruncHalfBounds DEF compute_offset_delay

\* compute_offset_delay: if the request was received after it was sent and the
\* answer received after it was sent (real times a <= b and c <= d, the client's
\* clock reading real time + sc and the server's real time + ss), the measured
\* offset is within half the measured delay of the true offset ss - sc, whatever
\* the asymmetry of the two paths and the time spent in either node's queues.
THEOREM OffsetErrorBound ==
  ASSUME NEW a \in Int, NEW b \in Int, NEW c \in Int, NEW d \in Int,
         NEW sc \in Int, NEW ss \in Int, a <= b, c <= d
  PROVE  WithinHalfDelay(compute_offset_delay(a + sc, b + ss, c + ss, d + sc),
                         ss - sc)
<1> DEFINE x == ((b + ss) - (a + sc)) + ((c + ss) - (d + sc))
           calc == compute_offset_delay(a + sc, b + ss, c + ss, d + sc)
<1>1. x \in Int /\ x = 2 * (ss - sc) + (b - a) - (d - c)
  OBVIOUS
<1>2. calc.offset = TruncHalf(x) /\ calc.delay = (b - a) + (d - c)
  BY DEF compute_offset_delay
<1>3. /\ calc.offset \in Int
      /\ 2 * calc.offset <= x + 1
      /\ x <= 2 * calc.offset + 1
  BY <1>1, <1>2, TruncHalfBounds
<1> HIDE DEF x, calc
<1>4. WithinHalfDelay(calc, ss - sc)
  BY <1>1, <1>2, <1>3 DEF WithinHalfDelay, Abs
<1> QED  BY <1>4 DEF calc
=============================================================================
