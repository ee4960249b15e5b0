---------------------------- MODULE NtpTimeProofs ---------------------------
(***************************************************************************)
(* What the timestamps of src/net/ntp.rs lose, for all times and all       *)
(* widths of the fields.                                                   *)
(***************************************************************************)
EXTENDS NtpTime, ArithmeticProofs

\* What comes back of the nanoseconds of a second: n nanoseconds in a second, of
\* which r go into a fraction f of F, and the fraction back into b.
LEMMA FractionBack ==
    ASSUME NEW n \in Nat \ {0}, NEW F \in Nat, n <= F, NEW r \in 0 .. n - 1
    PROVE  LET f == (r * F) \div n
               b == (f * n) \div F
           IN  f \in 0 .. F - 1 /\ b \in {r - 1, r} /\ b \in 0 .. n - 1
  <1> DEFINE f == (r * F) \div n
             b == (f * n) \div F
  <1>1. r * F \in Nat /\ F \in Nat \ {0}  OBVIOUS
  <1> HIDE DEF f, b
  <1>2. f \in Nat /\ n * f <= r * F /\ r * F < n * f + n
        BY <1>1, Quotient DEF f
  <1>3. f < F
    <2>1. r * F < n * F  BY <1>1, Scaled
    <2>2. f * n < F * n  BY <1>1, <1>2, <2>1, Factor
    <2> QED  BY <2>2, <1>1, <1>2, Scaled
  <1>4. f * n \in Nat  BY <1>2
  <1>5. b \in Nat /\ F * b <= f * n /\ f * n < F * b + F
        BY <1>1, <1>4, Quotient DEF b
  <1>6. b <= r
    <2>1. b * F <= r * F  BY <1>1, <1>2, <1>5, Factor
    <2> QED  BY <2>1, <1>1, <1>5, Scaled
  <1>7. r < b + 2
    <2>1. r * F < F * b + F + F  BY <1>1, <1>2, <1>5, Factor
    <2>2. (b + 2) * F = F * b + F + F  BY <1>1, <1>5
    <2> QED  BY <2>1, <2>2, <1>1, <1>5, Scaled
  <1> QED  BY <1>2, <1>3, <1>5, <1>6, <1>7 DEF f, b

\* Nothing is lost where a nanosecond is a whole number of fractions.
LEMMA ExactBack ==
    ASSUME NEW n \in Nat \ {0}, NEW F \in Nat \ {0}, F % n = 0, NEW r \in Nat
    PROVE  (((r * F) \div n) * n) \div F = r
  <1> DEFINE k == F \div n
             m == r * F
             f == m \div n
             b == m \div F
  <1>1. k \in Int /\ F = n * k  BY Division
  <1>2. m \in Nat  OBVIOUS
  <1>3. f \in Nat /\ n * f <= m /\ m < n * f + n  BY <1>2, Quotient
  <1>4. b \in Nat /\ F * b <= m /\ m < F * b + F  BY <1>2, Quotient
  <1>5. b = r
    <2>1. m = r * F  OBVIOUS
    <2> HIDE DEF m, b
    <2>2. b * F <= r * F /\ r * F < (b + 1) * F  BY <1>4, <2>1
    <2> QED  BY <1>4, <2>2, Scaled
  <1>6. f * n = m
    <2>1. m = (r * k) * n
      <3>1. m = r * (n * k)  BY <1>1
      <3> HIDE DEF m, k
      <3> QED  BY <1>1, <3>1
    <2>2. r * k \in Int  BY <1>1
    <2> HIDE DEF m, f, k
    <2> DEFINE g == r * k
    <2>3. g \in Int /\ m = g * n  BY <2>1, <2>2
    <2> HIDE DEF g
    <2>4. f * n <= g * n /\ g * n < (f + 1) * n  BY <1>2, <1>3, <2>3
    <2>5. f = g  BY <1>3, <2>3, <2>4, Scaled
    <2> QED  BY <2>3, <2>5
  <1> QED  BY <1>5, <1>6

\* decode_ntp_timestamp of what encode_ntp_timestamp writes: the seconds, as far as
\* they fit, and the fraction.
LEMMA Decoded ==
    ASSUME NEW ns \in Nat
    PROVE  LET stamp == encode_ntp_timestamp(ns)
               back == (stamp.frac * NsPerSec) \div FracPerSec
           IN  /\ stamp \in Stamp /\ stamp # NoStamp
               /\ decode_ntp_timestamp(stamp) = (stamp.sec - Epoch) * NsPerSec + back
               /\ stamp.sec = IF InEra(ns) THEN (ns \div NsPerSec) + Epoch ELSE EraSecs - 1
               /\ back \in {(ns % NsPerSec) - 1, ns % NsPerSec}
               /\ back \in 0 .. NsPerSec - 1
  <1> DEFINE stamp == encode_ntp_timestamp(ns)
             q == ns \div NsPerSec
             r == ns % NsPerSec
  <1>1. /\ NsPerSec \in Nat \ {0} /\ FracPerSec \in Nat /\ NsPerSec <= FracPerSec
        /\ Epoch \in Nat \ {0} /\ EraSecs \in Nat /\ Epoch < EraSecs
        BY NtpTimeAssumption
  <1>2. q \in Nat /\ r \in 0 .. NsPerSec - 1
    <2>1. q \in Nat  BY <1>1, Quotient
    <2> QED  BY <1>1, <2>1, Division
  <1>3. /\ stamp = [sec |-> stamp.sec, frac |-> stamp.frac]
        /\ stamp.sec = IF InEra(ns) THEN q + Epoch ELSE EraSecs - 1
        /\ stamp.frac = (r * FracPerSec) \div NsPerSec
        BY DEF encode_ntp_timestamp, InEra
  <1>4. InEra(ns) <=> q + Epoch < EraSecs  BY DEF InEra
  <1> HIDE DEF stamp, q, r
  <1>5. /\ stamp.frac \in 0 .. FracPerSec - 1
        /\ (stamp.frac * NsPerSec) \div FracPerSec \in {r - 1, r}
        /\ (stamp.frac * NsPerSec) \div FracPerSec \in 0 .. NsPerSec - 1
        BY <1>1, <1>2, <1>3, FractionBack
  <1>6. stamp.sec \in 1 .. EraSecs - 1
        BY <1>1, <1>2, <1>3, <1>4
  <1>7. stamp \in Stamp /\ stamp # NoStamp
        BY <1>3, <1>5, <1>6 DEF Stamp, NoStamp
  <1> QED  BY <1>3, <1>5, <1>7 DEF decode_ntp_timestamp, stamp, q, r

\* A time of the era comes back as it was or one nanosecond less.
LEMMA StampLoss ==
    ASSUME NEW ns \in Nat, InEra(ns)
    PROVE  LET ts == decode_ntp_timestamp(encode_ntp_timestamp(ns))
           IN  ts \in {ns - 1, ns} /\ (FracPerSec % NsPerSec = 0 => ts = ns)
  <1> DEFINE sec == encode_ntp_timestamp(ns).sec
             frac == encode_ntp_timestamp(ns).frac
             q == ns \div NsPerSec
             r == ns % NsPerSec
             back == (frac * NsPerSec) \div FracPerSec
             ts == decode_ntp_timestamp(encode_ntp_timestamp(ns))
  <1>1. /\ NsPerSec \in Nat \ {0} /\ Epoch \in Nat
        /\ FracPerSec \in Nat \ {0}
        BY NtpTimeAssumption
  <1>2. q \in Int /\ r \in Nat /\ ns = NsPerSec * q + r
        BY <1>1, Division
  <1>3. sec = q + Epoch  BY Decoded
  <1>4. ts = (sec - Epoch) * NsPerSec + back /\ back \in {r - 1, r}  BY Decoded
  <1>5. frac = (r * FracPerSec) \div NsPerSec  BY DEF encode_ntp_timestamp
  <1> HIDE DEF sec, frac, q, r, ts
  <1>6. FracPerSec % NsPerSec = 0 => back = r
        BY <1>1, <1>2, <1>5, ExactBack
  <1> HIDE DEF back
  <1>7. (sec - Epoch) * NsPerSec = NsPerSec * q  BY <1>1, <1>2, <1>3
  <1>8. ts \in {ns - 1, ns} /\ (FracPerSec % NsPerSec = 0 => ts = ns)
        BY <1>1, <1>2, <1>4, <1>6, <1>7
  <1> QED  BY <1>8 DEF ts

\* encode_ntp_timestamp, decode_ntp_timestamp: for every time and every width of the
\* fraction that tells nanoseconds apart, a time of the era comes back as it was
\* or one nanosecond less.
THEOREM EveryStampSurvives ==
    \A ns \in Nat : StampSurvives(ns)
  <1> TAKE ns \in Nat
  <1>1. encode_ntp_timestamp(ns) \in Stamp  BY Decoded
  <1> QED  BY <1>1, StampLoss DEF StampSurvives

\* Within the era a server that knows the time stamps as encode_ntp_timestamp does.
LEMMA ServerStampInEra ==
    ASSUME NEW ns \in Nat, InEra(ns)
    PROVE  ServerStamp(ns) = encode_ntp_timestamp(ns)
  <1> DEFINE sec == (ns \div NsPerSec) + Epoch
  <1>1. NsPerSec \in Nat \ {0} /\ Epoch \in Nat /\ EraSecs \in Nat
        BY NtpTimeAssumption
  <1>2. sec \in Nat
    <2>1. ns \div NsPerSec \in Nat  BY <1>1, Quotient
    <2> QED  BY <1>1, <2>1
  <1>3. sec < EraSecs  BY DEF InEra
  <1> HIDE DEF sec
  <1>4. sec % EraSecs = sec  BY <1>1, <1>2, <1>3
  <1> QED  BY <1>3, <1>4 DEF ServerStamp, encode_ntp_timestamp, sec

\* encode_ntp_timestamp: at no time, in 2036 or later, is the stamp written that
\* stands for no time, and times beyond the era stay at its end.
THEOREM EveryStampIsSome ==
    \A ns \in Nat : StampIsSome(ns)
  <1> TAKE ns \in Nat
  <1> DEFINE stamp == encode_ntp_timestamp(ns)
             back == (stamp.frac * NsPerSec) \div FracPerSec
             last == EraSecs - 1 - Epoch
             ts == decode_ntp_timestamp(stamp)
  <1>1. NsPerSec \in Nat \ {0} /\ Epoch \in Nat /\ EraSecs \in Nat  BY NtpTimeAssumption
  <1>2. ASSUME ~ InEra(ns)
        PROVE  ts \div NsPerSec = last
    <2>1. /\ ts = (EraSecs - 1 - Epoch) * NsPerSec + back
          /\ back \in 0 .. NsPerSec - 1
          BY <1>2, Decoded
    <2>2. last \in Int /\ ts = NsPerSec * last + back /\ ts \in Int
          BY <1>1, <2>1
    <2> HIDE DEF ts, last, back
    <2> DEFINE d == ts \div NsPerSec
    <2>3. d \in Int /\ NsPerSec * d <= ts /\ ts < NsPerSec * d + NsPerSec
          BY <1>1, <2>2, Division
    <2> HIDE DEF d
    <2>4. d * NsPerSec < (last + 1) * NsPerSec  BY <1>1, <2>1, <2>2, <2>3
    <2>5. last * NsPerSec < (d + 1) * NsPerSec  BY <1>1, <2>1, <2>2, <2>3
    <2>6. d < last + 1 /\ last < d + 1  BY <1>1, <2>2, <2>3, <2>4, <2>5, Scaled
    <2> QED  BY <2>2, <2>3, <2>6 DEF d, last
  <1>3. stamp # NoStamp  BY Decoded
  <1> QED  BY <1>2, <1>3 DEF StampIsSome
=============================================================================
