--------------------------- MODULE NtpPollerProofs --------------------------
(***************************************************************************)
(* Theorems about the NTP pollers, for every number of sources, servers,   *)
(* ports and polls, and any clocks.                                        *)
(***************************************************************************)
EXTENDS NtpPoller, NtpTimeProofs

ClockName == {"phc", "tai"}
Query == [addr: Servers, port: Ports, t1: Nat, clock: ClockName, sent: Nat,
          deadline: Int]
Received == [query: Query, originate: Stamp, receive: Stamp, transmit: Stamp]
Sample == [offset: Int, delay: Int, ts: Int, drift: [num: Int, den: Int],
           addr: Servers, own: BOOLEAN, echoed: BOOLEAN,
           clock1: ClockName, clock4: ClockName]

TypeInv ==
    /\ now \in 0 .. MaxTime /\ device \in BOOLEAN /\ changes \in Nat
    /\ fd \in {"none", "open", "dead"}
    /\ npc \in [Pollers -> {"tick", "lookup", "wait", "compare"}]
    /\ nextPoll \in [Pollers -> Nat] /\ polls \in 0 .. MaxPolls
    /\ queries \subseteq Query
    /\ answers \subseteq Received /\ \A a \in answers : a.query \in queries
    /\ poll \in [Pollers -> SUBSET queries]
    /\ taken \in [Pollers -> Seq(Sample)]
    /\ \A w \in Pollers : npc[w] = "compare" => taken[w] # <<>>
    /\ cursor \in [Pollers -> 1 .. Len(Sources) + 1] /\ others \in [Pollers -> Seq(Int)]
    /\ DOMAIN summary = Ids
    /\ \A id \in Ids : \A h \in summary[id] : h.offset \in Int

\* The constants, as far as the proofs need them.
LEMMA Constants ==
    /\ MaxTime \in Nat /\ MaxPolls \in Nat /\ Period \in Nat /\ Timeout \in Nat
    /\ \A w \in Pollers : Sources[w].hosts \subseteq Servers /\ Sources[w].id \in Ids
    /\ \A a \in Servers : Server[a].skew \in Nat /\ Server[a].echoes \in BOOLEAN
    /\ \A c \in ClockName : Lead[c] \in Nat /\ Lead[c] > 1
    /\ \A id \in Ids : Leftover[id] \subseteq Int
    /\ Pollers = 1 .. Len(Sources) /\ Len(Sources) \in Nat
  <1> DEFINE Source == [id: Nat, hosts: SUBSET Servers]
  <1>1. Sources \in Seq(Source)  BY PollerAssumption
  <1> HIDE DEF Source
  <1>2. /\ \A w \in Pollers : Sources[w] \in Source
        /\ Pollers = 1 .. Len(Sources) /\ Len(Sources) \in Nat
        BY <1>1 DEF Pollers
  <1>3. \A c \in ClockName : Lead[c] \in Nat /\ Lead[c] > 1
        BY ClockAssumption, PollerAssumption DEF ClockName
  <1> USE DEF Source
  <1>4. \A w \in Pollers : Sources[w].hosts \subseteq Servers  BY <1>2
  <1>5. \A a \in Servers : Server[a].skew \in Nat /\ Server[a].echoes \in BOOLEAN
        BY PollerAssumption
  <1> QED  BY <1>2, <1>3, <1>4, <1>5, ClockAssumption, PollerAssumption DEF Ids

\* phc_clock_id and now_ns: what a reading finds.
LEMMA ReadingType ==
    ASSUME fd \in {"none", "open", "dead"}
    PROVE  /\ Opened \in {"none", "open", "dead"}
           /\ fd # "none" => Opened = fd
           /\ \A c \in Clocks : c # "error" => c \in ClockName
           /\ \A c \in Clocks : c = "phc" => Opened = "open"
           /\ \A c \in Clocks : c = "tai" => Opened = "none"
    BY DEF Opened, Clocks, ClockName

\* decode_ntp_timestamp returns nanoseconds.
LEMMA DecodeType ==
    ASSUME NEW stamp \in Stamp
    PROVE  decode_ntp_timestamp(stamp) \in Int
  <1>1. /\ NsPerSec \in Nat \ {0} /\ FracPerSec \in Nat \ {0}
        /\ Epoch \in Nat /\ EraSecs \in Nat
        BY NtpTimeAssumption
  <1>2. stamp.sec \in Int /\ stamp.frac \in Int  BY <1>1 DEF Stamp
  <1>3. (stamp.frac * NsPerSec) \div FracPerSec \in Int
    <2>1. stamp.frac * NsPerSec \in Int  BY <1>1, <1>2
    <2> QED  BY <1>1, <2>1, Division
  <1>4. (stamp.sec - Epoch) * NsPerSec \in Int  BY <1>1, <1>2
  <1> QED  BY <1>3, <1>4 DEF decode_ntp_timestamp

\* The stamp of a server is one.
LEMMA ServerStampType ==
    ASSUME NEW ns \in Nat
    PROVE  ServerStamp(ns) \in Stamp /\ NoStamp \in Stamp
  <1>1. /\ NsPerSec \in Nat \ {0} /\ FracPerSec \in Nat /\ NsPerSec <= FracPerSec
        /\ Epoch \in Nat /\ EraSecs \in Nat \ {0}
        BY NtpTimeAssumption
  <1> DEFINE sec == (ns \div NsPerSec) + Epoch
             r == ns % NsPerSec
  <1>2. sec \in Int /\ r \in 0 .. NsPerSec - 1  BY <1>1, Division
  <1> HIDE DEF sec, r
  <1>3. sec % EraSecs \in 0 .. EraSecs - 1  BY <1>1, <1>2
  <1>4. (r * FracPerSec) \div NsPerSec \in 0 .. FracPerSec - 1
        BY <1>1, <1>2, FractionBack
  <1>5. NoStamp \in Stamp  BY <1>1 DEF NoStamp, Stamp
  <1> QED  BY <1>3, <1>4, <1>5 DEF ServerStamp, Stamp, sec, r

\* An answer is well formed.
LEMMA AnswerType ==
    ASSUME NEW q \in Query, NEW received \in Nat, now \in Nat
    PROVE  AnswerTo(q, received) \in Received /\ AnswerTo(q, received).query = q
  <1>1. encode_ntp_timestamp(q.t1) \in Stamp /\ NoStamp \in Stamp
        BY Decoded, ServerStampType DEF Query
  <1>2. /\ ServerStamp(received + Server[q.addr].skew) \in Stamp
        /\ ServerStamp(now + Server[q.addr].skew) \in Stamp
    <2>1. Server[q.addr].skew \in Nat  BY Constants DEF Query
    <2> QED  BY <2>1, ServerStampType
  <1> QED  BY <1>1, <1>2 DEF AnswerTo, Received

\* poll_once, spawn_ntp_pollers: a sample is well formed.
LEMMA SampleType ==
    ASSUME NEW p \in Query, NEW answer \in Received, NEW c \in ClockName,
           NEW before \in Seq(Sample), now \in Nat
    PROVE  SampleOf(p, answer, c, before) \in Sample
  <1> DEFINE t2 == decode_ntp_timestamp(answer.receive)
             t3 == decode_ntp_timestamp(answer.transmit)
             t1 == T1Used(p, answer)
             t4 == Reading(c)
             calc == compute_offset_delay(t1, t2, t3, t4)
             prev == before[Len(before)]
             drift == IF before = <<>> THEN [num |-> 0, den |-> 1]
                      ELSE DriftSince(prev, calc.offset, t4)
  <1>1. t2 \in Int /\ t3 \in Int /\ t4 \in Int
        BY DecodeType, Constants DEF Received, Reading
  <1>2. t1 \in Int
    <2>1. decode_ntp_timestamp(answer.originate) \in Int  BY DecodeType DEF Received
    <2> QED  BY <2>1 DEF T1Used, Query
  <1> HIDE DEF t1, t2, t3, t4
  <1>3. calc.offset \in Int /\ calc.delay \in Int  BY <1>1, <1>2, CalcType
  <1> HIDE DEF calc
  <1>4. drift \in [num: Int, den: Int]
    <2>1. CASE before = <<>>  BY <2>1
    <2>2. CASE before # <<>>
      <3>1. prev \in Sample  BY <2>2
      <3>2. prev.ts \in Int /\ prev.offset \in Int  BY <3>1 DEF Sample
      <3> QED  BY <1>1, <1>3, <2>2, <3>2 DEF DriftSince
    <2> QED  BY <2>1, <2>2
  <1> HIDE DEF drift
  <1>5. SampleOf(p, answer, c, before)
          = [offset |-> calc.offset, delay |-> calc.delay, ts |-> t4, drift |-> drift,
             addr |-> p.addr, own |-> answer.query = p,
             echoed |-> answer.originate # NoStamp,
             clock1 |-> answer.query.clock, clock4 |-> c]
        BY DEF SampleOf, calc, drift, t1, t2, t3, t4
  <1>6. /\ p.addr \in Servers
        /\ (answer.query = p) \in BOOLEAN
        /\ (answer.originate # NoStamp) \in BOOLEAN
        /\ answer.query.clock \in ClockName
        BY DEF Query, Received
  <1> QED  BY <1>1, <1>3, <1>4, <1>5, <1>6 DEF Sample

\* Offsets that are measured, now or by an earlier run, and medians of them, doubled.
LEMMA OffsetsType ==
    ASSUME taken \in [Pollers -> Seq(Sample)], NEW id \in Ids
    PROVE  /\ OffsetsOf(id) \subseteq Int /\ Medians(OffsetsOf(id)) \subseteq Int
           /\ Leftover[id] \subseteq OffsetsOf(id)
           /\ \A w \in Pollers : \A i \in DOMAIN taken[w] :
                 Sources[w].id = id => taken[w][i].offset \in OffsetsOf(id)
  <1>1. \A w \in Pollers : \A i \in DOMAIN taken[w] : taken[w][i].offset \in Int
    <2>1. \A w \in Pollers : \A i \in DOMAIN taken[w] : taken[w][i] \in Sample  OBVIOUS
    <2> QED  BY <2>1 DEF Sample
  <1>2. \A e \in Entries(id) : e.offset \in Int
        BY <1>1, Constants DEF Entries
  <1>3. OffsetsOf(id) \subseteq Int  BY <1>2 DEF OffsetsOf
  <1>4. Leftover[id] \subseteq OffsetsOf(id)
    <2> SUFFICES ASSUME NEW o \in Leftover[id] PROVE o \in OffsetsOf(id)  OBVIOUS
    <2>1. 1 \in 1 .. Limit  BY PollerAssumption
    <2>2. [by |-> 0, nth |-> 1, offset |-> o] \in Entries(id)  BY <2>1 DEF Entries
    <2> QED  BY <2>2 DEF OffsetsOf
  <1>5. ASSUME NEW w \in Pollers, NEW i \in DOMAIN taken[w], Sources[w].id = id
        PROVE  taken[w][i].offset \in OffsetsOf(id)
    <2>1. [by |-> w, nth |-> i, offset |-> taken[w][i].offset] \in Entries(id)
          BY <1>5 DEF Entries
    <2> QED  BY <2>1 DEF OffsetsOf
  <1> QED  BY <1>3, <1>4, <1>5 DEF Medians

\* summarize_peers writes a median of what is measured, and keeps the difference.
LEMMA FusionWrites ==
    ASSUME FusionSummary
    PROVE  /\ UNCHANGED <<clockVars, pollVars, netVars>>
           /\ \E id \in Ids : \E o \in Medians(OffsetsOf(id)) :
                 summary' = [summary EXCEPT ![id] =
                    {[offset |-> o, diff |-> UNION {s.diff : s \in summary[id]}]}]
  <1>1. PICK id \in Ids : \E e, f \in Entries(id) :
           summary' = [summary EXCEPT ![id] =
              {[offset |-> e.offset + f.offset,
                diff |-> UNION {s.diff : s \in summary[id]}]}]
        BY DEF FusionSummary
  <1>2. \A e, f \in Entries(id) : e.offset + f.offset \in Medians(OffsetsOf(id))
        BY DEF OffsetsOf, Medians
  <1> QED  BY <1>1, <1>2 DEF FusionSummary

\* What an earlier run left in a summary.
LeftMedians(id) == UNION {Medians(Leftover[other]) : other \in Ids \ {id}}
LeftDifference(id, d) ==
    \E x \in Leftover[id], list \in Seq(LeftMedians(id)) :
        Len(list) > 0 /\ d = {Difference(x, list)}
LEMMA LeftSummaryIs ==
    ASSUME NEW id \in Ids, NEW h \in LeftSummaries(id)
    PROVE  \/ h = {}
           \/ \E d : /\ d = {} \/ LeftDifference(id, d)
                    /\ \E o \in Medians(Leftover[id]) : h = {[offset |-> o, diff |-> d]}
  <1> DEFINE rest == {v \in Pollers : Sources[v].id # id}
             lists == UNION {[1 .. n -> LeftMedians(id)] : n \in 1 .. Cardinality(rest)}
             diffs == {{}} \cup {{Difference(x, list)} : x \in Leftover[id], list \in lists}
  <1>1. Cardinality(rest) \in Nat
    <2>1. IsFiniteSet(1 .. Len(Sources))
      <3>1. Len(Sources) \in Int /\ 1 \in Int  BY Constants
      <3> QED  BY <3>1, FS_Interval
    <2>2. IsFiniteSet(rest)  BY <2>1, Constants, FS_Subset
    <2> QED  BY <2>2, FS_CardinalityType
  <1>2. \A list \in lists : list \in Seq(LeftMedians(id)) /\ Len(list) > 0
    <2> SUFFICES ASSUME NEW n \in 1 .. Cardinality(rest),
                        NEW list \in [1 .. n -> LeftMedians(id)]
                 PROVE  list \in Seq(LeftMedians(id)) /\ Len(list) > 0
        OBVIOUS
    <2>1. n \in Nat /\ n > 0  BY <1>1
    <2> QED  BY <2>1
  <1>3. LeftSummaries(id)
          = {{}} \cup {{[offset |-> o, diff |-> d]} : o \in Medians(Leftover[id]), d \in diffs}
        BY DEF LeftSummaries, LeftMedians
  <1>4. \A d \in diffs : d = {} \/ LeftDifference(id, d)  BY <1>2 DEF LeftDifference
  <1> HIDE DEF diffs
  <1>5. ASSUME h # {}
        PROVE  \E d \in diffs : \E o \in Medians(Leftover[id]) : h = {[offset |-> o, diff |-> d]}
        BY <1>3, <1>5
  <1> QED  BY <1>4, <1>5

\* The pollers start with the right types.
LEMMA TypeInit == Init => TypeInv
  <1> SUFFICES ASSUME Init PROVE TypeInv  OBVIOUS
  <1>1. \A id \in Ids : \A h \in summary[id] : h.offset \in Int
    <2> SUFFICES ASSUME NEW id \in Ids, NEW h \in summary[id] PROVE h.offset \in Int
        OBVIOUS
    <2>1. summary[id] \in LeftSummaries(id)  BY DEF Init
    <2> DEFINE left == summary[id]
    <2>4. left \in LeftSummaries(id) /\ left # {}  BY <2>1
    <2> HIDE DEF left
    <2>5. \E d : \E o \in Medians(Leftover[id]) : left = {[offset |-> o, diff |-> d]}
          BY <2>4, LeftSummaryIs, SMTT(30)
    <2>2. PICK d : \E o \in Medians(Leftover[id]) : summary[id] = {[offset |-> o, diff |-> d]}
          BY <2>5 DEF left
    <2>3. Medians(Leftover[id]) \subseteq Int  BY Constants DEF Medians
    <2> QED  BY <2>2, <2>3
  <1>5. device \in BOOLEAN  BY DEF Init, ClockInit
  <1>2. /\ now \in 0 .. MaxTime /\ changes \in Nat /\ fd = "none"
        /\ polls \in 0 .. MaxPolls
        BY Constants DEF Init, ClockInit
  <1>3. /\ cursor \in [Pollers -> 1 .. Len(Sources) + 1]
        /\ taken \in [Pollers -> Seq(Sample)] /\ others \in [Pollers -> Seq(Int)]
        BY Constants DEF Init
  <1>4. DOMAIN summary = Ids  BY DEF Init
  <1> QED  BY <1>1, <1>2, <1>3, <1>4, <1>5 DEF Init, TypeInv

\* Every action keeps the types.
LEMMA TypeStep == TypeInv /\ [Next]_vars => TypeInv'
  <1> SUFFICES ASSUME TypeInv, [Next]_vars PROVE TypeInv'  OBVIOUS
  <1> USE DEF TypeInv
  <1>1. CASE UNCHANGED vars
        BY <1>1 DEF vars, clockVars, pollVars, netVars
  <1>2. CASE Environment
    <2>4. device' \in BOOLEAN
          BY <1>2, Zenon DEF Environment, ClockStep, Advance, DeviceGoes, DeviceComes
    <2>1. now' \in 0 .. MaxTime /\ changes' \in Nat
          BY <1>2, Constants DEF Environment, ClockStep, Advance, DeviceGoes, DeviceComes
    <2>2. fd' \in {"none", "open", "dead"}
          BY <1>2 DEF Environment, ClockStep, Advance, DeviceGoes, DeviceComes
    <2>3. UNCHANGED <<pollVars, netVars, summary>>  BY <1>2 DEF Environment
    <2> QED  BY <2>1, <2>2, <2>3, <2>4 DEF pollVars, netVars
  <1>3. CASE Answer
    <2>1. PICK q \in queries : \E received \in q.sent .. now :
             answers' = answers \cup {AnswerTo(q, received)}
          BY <1>3 DEF Answer
    <2>2. PICK received \in q.sent .. now : answers' = answers \cup {AnswerTo(q, received)}
          BY <2>1
    <2>3. AnswerTo(q, received) \in Received /\ AnswerTo(q, received).query = q
          BY AnswerType DEF Query
    <2>4. answers' \subseteq Received /\ \A a \in answers' : a.query \in queries
          BY <2>2, <2>3
    <2> QED  BY <1>3, <2>4 DEF Answer, clockVars, pollVars
  <1>4. CASE FusionSummary
    <2>1. PICK id \in Ids : \E o \in Medians(OffsetsOf(id)) :
             summary' = [summary EXCEPT ![id] =
                {[offset |-> o, diff |-> UNION {x.diff : x \in summary[id]}]}]
          BY <1>4, FusionWrites
    <2>2. Medians(OffsetsOf(id)) \subseteq Int  BY OffsetsType
    <2>3. DOMAIN summary' = Ids /\ \A j \in Ids : \A h \in summary'[j] : h.offset \in Int
          BY <2>1, <2>2
    <2> QED  BY <1>4, <2>3, FusionWrites DEF clockVars, pollVars, netVars
  <1>5. ASSUME NEW w \in Pollers, Poller(w)
        PROVE  TypeInv'
    <2>1. CASE Tick(w)
          BY <2>1, Constants, SMTT(30) DEF Tick, clockVars, netVars
    <2>2. CASE PollFails(w)
          BY <2>2 DEF PollFails, EndPoll, clockVars, netVars
    <2>3. CASE Send(w)
      <3>1. PICK a \in Sources[w].hosts, port \in Ports \ PortsInUse, c \in Clocks :
               IF c = "error" THEN EndPoll(w) /\ UNCHANGED queries
               ELSE LET p == [addr |-> a, port |-> port, t1 |-> Reading(c), clock |-> c,
                              sent |-> now, deadline |-> now + Timeout]
                    IN  /\ poll' = [poll EXCEPT ![w] = {p}]
                        /\ queries' = queries \cup {p}
                        /\ npc' = [npc EXCEPT ![w] = "wait"]
            BY <2>3 DEF Send
      <3>2. /\ UNCHANGED <<now, device, changes, answers, nextPoll, polls, taken, cursor,
                           others, summary>>
            /\ fd' \in {"none", "open", "dead"}
            BY <2>3, ReadingType DEF Send
      <3>3. CASE c = "error"
            BY <3>1, <3>2, <3>3 DEF EndPoll
      <3>4. CASE c # "error"
        <4> DEFINE p == [addr |-> a, port |-> port, t1 |-> Reading(c), clock |-> c,
                         sent |-> now, deadline |-> now + Timeout]
        <4>1. c \in ClockName  BY <3>4, ReadingType
        <4>2. p \in Query
          <5>1. Reading(c) \in Nat /\ now \in Nat /\ now + Timeout \in Int
                BY <4>1, Constants DEF Reading
          <5> QED  BY <4>1, <5>1, Constants DEF Query
        <4>3. /\ poll' = [poll EXCEPT ![w] = {p}]
              /\ queries' = queries \cup {p}
              /\ npc' = [npc EXCEPT ![w] = "wait"]
              BY <3>1, <3>4
        <4> HIDE DEF p
        <4>4. poll' \in [Pollers -> SUBSET queries']  BY <4>3
        <4>5. queries' \subseteq Query /\ \A b \in answers' : b.query \in queries'
              BY <3>2, <4>2, <4>3
        <4>6. /\ npc' \in [Pollers -> {"tick", "lookup", "wait", "compare"}]
              /\ \A v \in Pollers : npc'[v] = "compare" => taken'[v] # <<>>
              BY <3>2, <4>3
        <4> QED  BY <3>2, <4>4, <4>5, <4>6
      <3> QED  BY <3>3, <3>4
    <2>4. CASE Receive(w)
      <3>1. PICK p \in poll[w], answer \in answers, c \in Clocks :
               IF c = "error" THEN EndPoll(w) /\ UNCHANGED taken
               ELSE /\ taken' = [taken EXCEPT ![w] =
                          Append(taken[w], SampleOf(p, answer, c, taken[w]))]
                    /\ npc' = [npc EXCEPT ![w] = "compare"]
                    /\ poll' = [poll EXCEPT ![w] = {}]
            BY <2>4 DEF Receive
      <3>2. /\ UNCHANGED <<now, device, changes, queries, answers, nextPoll, polls, summary>>
            /\ cursor' = [cursor EXCEPT ![w] = 1]
            /\ others' = [others EXCEPT ![w] = <<>>]
            /\ fd' \in {"none", "open", "dead"}
            BY <2>4, ReadingType DEF Receive, netVars
      <3>3. CASE c = "error"
        <4>1. cursor' \in [Pollers -> 1 .. Len(Sources) + 1]
              /\ others' \in [Pollers -> Seq(Int)]
              BY <3>2, Constants
        <4>2. /\ npc' = [npc EXCEPT ![w] = "tick"]
              /\ poll' = [poll EXCEPT ![w] = {}]
              /\ UNCHANGED taken
              BY <3>1, <3>3 DEF EndPoll
        <4> QED  BY <3>2, <4>1, <4>2
      <3>4. CASE c # "error"
        <4> DEFINE new == SampleOf(p, answer, c, taken[w])
        <4>1. c \in ClockName  BY <3>4, ReadingType
        <4>2. p \in Query /\ answer \in Received  OBVIOUS
        <4>3. new \in Sample  BY <4>1, <4>2, SampleType
        <4>4. /\ taken' = [taken EXCEPT ![w] = Append(taken[w], new)]
              /\ npc' = [npc EXCEPT ![w] = "compare"]
              /\ poll' = [poll EXCEPT ![w] = {}]
              BY <3>1, <3>4
        <4> HIDE DEF new
        <4>5. taken' \in [Pollers -> Seq(Sample)]  BY <4>3, <4>4
        <4>6. cursor' \in [Pollers -> 1 .. Len(Sources) + 1]
              /\ others' \in [Pollers -> Seq(Int)]
              BY <3>2, Constants
        <4>7. \A v \in Pollers : npc'[v] = "compare" => taken'[v] # <<>>
          <5>1. taken'[w] # <<>>  BY <4>3, <4>4
          <5> QED  BY <4>4, <5>1
        <4>8. npc' \in [Pollers -> {"tick", "lookup", "wait", "compare"}]
              /\ poll' \in [Pollers -> SUBSET queries]
              BY <4>4
        <4> QED  BY <3>2, <4>5, <4>6, <4>7, <4>8
      <3> QED  BY <3>3, <3>4
    <2>5. CASE RecvFails(w)
          BY <2>5 DEF RecvFails, EndPoll, clockVars, netVars
    <2>6. CASE TimeoutPoll(w)
          BY <2>6 DEF TimeoutPoll, EndPoll, clockVars, netVars
    <2>7. CASE CompareOne(w)
      <3>1. PICK found \in {summary[Sources[cursor[w]].id]} \cup {{}} :
               others' = [others EXCEPT ![w] =
                  IF IsOther(w, cursor[w]) /\ found # {}
                  THEN Append(others[w], (CHOOSE x \in found : TRUE).offset)
                  ELSE others[w]]
            BY <2>7 DEF CompareOne
      <3>2. cursor[w] \in Pollers /\ cursor[w] + 1 \in 1 .. Len(Sources) + 1
            BY <2>7, Constants, SMTT(30) DEF CompareOne
      <3>3. found # {} => (CHOOSE x \in found : TRUE).offset \in Int
            BY <3>2, Constants
      <3>4. others' \in [Pollers -> Seq(Int)]
            BY <3>1, <3>3
      <3> QED  BY <2>7, <3>2, <3>4 DEF CompareOne, clockVars, netVars
    <2>8. CASE WriteSummary(w)
      <3> DEFINE id == Sources[w].id
                 last == taken[w][Len(taken[w])]
      <3>1. /\ UNCHANGED <<clockVars, netVars, nextPoll, polls, poll, taken, cursor, others>>
            /\ npc' = [npc EXCEPT ![w] = "tick"]
            BY <2>8 DEF WriteSummary
      <3>2. PICK h :
               /\ h.offset = 2 * last.offset
               /\ \/ summary' = [summary EXCEPT ![id] = {h}]
                  \/ summary' = [summary EXCEPT ![id] = summary[id]]
        <4> DEFINE diff == IF others[w] = <<>> THEN UNION {x.diff : x \in summary[id]}
                           ELSE {Difference(last.offset, others[w])}
        <4> HIDE DEF diff, last
        <4>1. \/ summary' = [summary EXCEPT ![id] = {[offset |-> 2 * last.offset, diff |-> diff]}]
              \/ summary' = [summary EXCEPT ![id] = summary[id]]
              BY <2>8 DEF WriteSummary, diff, last
        <4> DEFINE h == [offset |-> 2 * last.offset, diff |-> diff]
        <4>2. h.offset = 2 * last.offset  OBVIOUS
        <4> WITNESS h
        <4> QED  BY <4>1, <4>2
      <3>3. last.offset \in Int
        <4>1. taken[w] # <<>>  BY <2>8 DEF WriteSummary
        <4>2. last \in Sample  BY <4>1
        <4> QED  BY <4>2 DEF Sample
      <3> HIDE DEF last
      <3>4. DOMAIN summary' = Ids /\ \A j \in Ids : \A x \in summary'[j] : x.offset \in Int
        <4>1. DOMAIN summary' = Ids  BY <3>2
        <4>2. h.offset \in Int  BY <3>2, <3>3
        <4>3. \A j \in Ids : summary'[j] \in {{h}, summary[j]}
              BY <3>2
        <4> QED  BY <4>1, <4>2, <4>3
      <3> QED  BY <3>1, <3>4 DEF clockVars, netVars
    <2> QED  BY <1>5, <2>1, <2>2, <2>3, <2>4, <2>5, <2>6, <2>7, <2>8 DEF Poller
  <1> QED  BY <1>1, <1>2, <1>3, <1>4, <1>5 DEF Next

\* The types hold, and a finite state is kept of every poll: its socket while it
\* waits, no more samples than polls, no more offsets read than sources looked
\* at, and one hash for every id.
Books ==
    /\ \A w \in Pollers :
          /\ IF npc[w] = "wait" THEN \E p \in queries : poll[w] = {p} ELSE poll[w] = {}
          /\ Len(taken[w]) + (IF npc[w] \in {"lookup", "wait"} THEN 1 ELSE 0) <= polls
          /\ Len(others[w]) < cursor[w]
    /\ \A id \in Ids : \A g, h \in summary[id] : g = h

\* The pollers start with no socket, and one value at most in every summary.
LEMMA BooksInit == Init => Books
  <1> SUFFICES ASSUME Init PROVE Books  OBVIOUS
  <1>1. \A w \in Pollers :
           /\ IF npc[w] = "wait" THEN \E p \in queries : poll[w] = {p} ELSE poll[w] = {}
           /\ Len(taken[w]) + (IF npc[w] \in {"lookup", "wait"} THEN 1 ELSE 0) <= polls
           /\ Len(others[w]) < cursor[w]
        BY DEF Init
  <1>2. \A id \in Ids : summary[id] = {} \/ \E h : summary[id] = {h}
    <2> TAKE id \in Ids
    <2>1. summary[id] \in LeftSummaries(id)  BY DEF Init
    <2> QED  BY <2>1, LeftSummaryIs
  <1> QED  BY <1>1, <1>2 DEF Books

\* Every action keeps the books of sockets, polls and summaries.
LEMMA BooksStep == TypeInv /\ Books /\ [Next]_vars => Books'
  <1> SUFFICES ASSUME TypeInv, Books, [Next]_vars PROVE Books'  OBVIOUS
  <1> USE DEF Books
  <1>0. /\ npc \in [Pollers -> {"tick", "lookup", "wait", "compare"}]
        /\ poll \in [Pollers -> SUBSET queries]
        /\ taken \in [Pollers -> Seq(Sample)] /\ others \in [Pollers -> Seq(Int)]
        /\ cursor \in [Pollers -> 1 .. Len(Sources) + 1] /\ Len(Sources) \in Nat
        /\ polls \in Nat /\ DOMAIN summary = Ids
        BY Constants DEF TypeInv
  <1>1. CASE UNCHANGED vars
        BY <1>1 DEF vars, clockVars, pollVars, netVars
  <1>2. CASE Environment
        BY <1>2 DEF Environment, pollVars, netVars
  <1>3. CASE Answer
        BY <1>3 DEF Answer, clockVars, pollVars
  <1>4. CASE FusionSummary
    <2>1. PICK id \in Ids : \E written : summary' = [summary EXCEPT ![id] = {written}]
          BY <1>4, FusionWrites
    <2>2. \A j \in Ids : \A g, h \in summary'[j] : g = h  BY <1>0, <2>1
    <2>3. UNCHANGED <<npc, polls, poll, taken, cursor, others, queries>>
          BY <1>4, FusionWrites DEF pollVars, netVars
    <2>4. \A v \in Pollers :
             /\ IF npc[v] = "wait" THEN \E p \in queries : poll[v] = {p} ELSE poll[v] = {}
             /\ Len(taken[v]) + (IF npc[v] \in {"lookup", "wait"} THEN 1 ELSE 0) <= polls
             /\ Len(others[v]) < cursor[v]
          OBVIOUS
    <2> QED  BY <2>2, <2>3, <2>4
  <1>5. ASSUME NEW w \in Pollers, Poller(w)
        PROVE  Books'
    <2>1. CASE Tick(w)
          BY <1>0, <2>1 DEF Tick, netVars
    <2>2. CASE PollFails(w)
          BY <1>0, <2>2 DEF PollFails, EndPoll, netVars
    <2>3. CASE Send(w)
      <3>1. npc[w] = "lookup" /\ UNCHANGED <<polls, taken, cursor, others, summary>>
            BY <2>3 DEF Send
      <3>2. \/ EndPoll(w) /\ UNCHANGED queries
            \/ \E p : /\ poll' = [poll EXCEPT ![w] = {p}]
                      /\ queries' = queries \cup {p}
                      /\ npc' = [npc EXCEPT ![w] = "wait"]
            BY <2>3 DEF Send
      <3>3. CASE EndPoll(w) /\ UNCHANGED queries
            BY <1>0, <3>1, <3>3 DEF EndPoll
      <3>4. ASSUME NEW p, poll' = [poll EXCEPT ![w] = {p}], queries' = queries \cup {p},
                   npc' = [npc EXCEPT ![w] = "wait"]
            PROVE  Books'
        <4>1. \A v \in Pollers :
                 IF npc'[v] = "wait" THEN \E q \in queries' : poll'[v] = {q} ELSE poll'[v] = {}
              BY <1>0, <3>4
        <4>2. \A v \in Pollers :
                 Len(taken'[v]) + (IF npc'[v] \in {"lookup", "wait"} THEN 1 ELSE 0) <= polls'
              BY <1>0, <3>1, <3>4
        <4> QED  BY <3>1, <4>1, <4>2
      <3> QED  BY <3>2, <3>3, <3>4
    <2>4. CASE Receive(w)
      <3>1. /\ npc[w] = "wait" /\ UNCHANGED <<queries, polls, summary>>
            /\ cursor' = [cursor EXCEPT ![w] = 1]
            /\ others' = [others EXCEPT ![w] = <<>>]
            BY <2>4 DEF Receive, netVars
      <3>2. \/ EndPoll(w) /\ UNCHANGED taken
            \/ \E s : /\ taken' = [taken EXCEPT ![w] = Append(taken[w], s)]
                      /\ npc' = [npc EXCEPT ![w] = "compare"]
                      /\ poll' = [poll EXCEPT ![w] = {}]
            BY <2>4 DEF Receive
      <3>3. /\ poll' = [poll EXCEPT ![w] = {}]
            /\ \/ npc' = [npc EXCEPT ![w] = "tick"] /\ UNCHANGED taken
               \/ /\ npc' = [npc EXCEPT ![w] = "compare"]
                  /\ \E s : taken' = [taken EXCEPT ![w] = Append(taken[w], s)]
            BY <3>2 DEF EndPoll
      <3>4. Len(taken[w]) + 1 <= polls  BY <3>1
      <3>5. \A v \in Pollers :
               Len(taken'[v]) + (IF npc'[v] \in {"lookup", "wait"} THEN 1 ELSE 0) <= polls
        <4> TAKE v \in Pollers
        <4>1. CASE v # w  BY <1>0, <3>3, <4>1
        <4>2. CASE v = w
          <5>1. \A s : Len(Append(taken[w], s)) = Len(taken[w]) + 1
            <6> TAKE s
            <6> DEFINE S == Sample \cup {s}
            <6>1. taken[w] \in Seq(S) /\ s \in S  BY <1>0
            <6> HIDE DEF S
            <6> QED  BY <6>1
          <5>2. npc'[w] \notin {"lookup", "wait"}  BY <1>0, <3>3
          <5>3. \/ taken'[w] = taken[w]
                \/ \E s : taken'[w] = Append(taken[w], s)
                BY <1>0, <3>3
          <5>4. Len(taken'[w]) \in {Len(taken[w]), Len(taken[w]) + 1}  BY <5>1, <5>3
          <5>5. Len(taken[w]) \in Nat  BY <1>0
          <5> QED  BY <1>0, <3>4, <4>2, <5>2, <5>4, <5>5
        <4> QED  BY <4>1, <4>2
      <3>6. \A v \in Pollers : Len(others'[v]) < cursor'[v]
            BY <1>0, <3>1
      <3> QED  BY <1>0, <3>1, <3>3, <3>5, <3>6
    <2>5. CASE RecvFails(w)
          BY <1>0, <2>5 DEF RecvFails, EndPoll, netVars
    <2>6. CASE TimeoutPoll(w)
          BY <1>0, <2>6 DEF TimeoutPoll, EndPoll, netVars
    <2>7. CASE CompareOne(w)
      <3>1. /\ UNCHANGED <<queries, npc, polls, poll, taken, summary>>
            /\ cursor' = [cursor EXCEPT ![w] = cursor[w] + 1]
            BY <2>7 DEF CompareOne, netVars
      <3>2. \E x : others' = [others EXCEPT ![w] = x]
                   /\ (x = others[w] \/ \E o : x = Append(others[w], o))
            BY <2>7 DEF CompareOne
      <3>3. \A v \in Pollers : Len(others'[v]) < cursor'[v]
            BY <1>0, <3>1, <3>2
      <3> QED  BY <3>1, <3>3
    <2>8. CASE WriteSummary(w)
      <3>1. /\ UNCHANGED <<queries, polls, poll, taken, cursor, others>>
            /\ npc[w] = "compare" /\ npc' = [npc EXCEPT ![w] = "tick"]
            BY <2>8 DEF WriteSummary, netVars
      <3>2. PICK h :
               \/ summary' = [summary EXCEPT ![Sources[w].id] = {h}]
               \/ summary' = [summary EXCEPT ![Sources[w].id] = summary[Sources[w].id]]
            BY <2>8 DEF WriteSummary
      <3>3. \A j \in Ids : summary'[j] \in {{h}, summary[j]}  BY <1>0, <3>2
      <3>4. \A j \in Ids : \A g, x \in summary'[j] : g = x  BY <3>3
      <3> QED  BY <1>0, <3>1, <3>4
    <2> QED  BY <1>5, <2>1, <2>2, <2>3, <2>4, <2>5, <2>6, <2>7, <2>8 DEF Poller
  <1> QED  BY <1>1, <1>2, <1>3, <1>4, <1>5 DEF Next

\* The two together, of every behaviour.
LEMMA Typed == Spec => [](TypeInv /\ Books)
  <1>1. Init => TypeInv /\ Books  BY TypeInit, BooksInit
  <1>2. TypeInv /\ Books /\ [Next]_vars => (TypeInv /\ Books)'  BY TypeStep, BooksStep
  <1> QED  BY <1>1, <1>2, PTL DEF Spec

\* The types, and that every poll has one socket while it waits and none else, for
\* every number of sources, ports, polls and answers.
THEOREM TypeCorrect == Spec => []TypeOK
  <1>1. TypeInv /\ Books => TypeOK
    <2> SUFFICES ASSUME TypeInv, Books PROVE TypeOK  OBVIOUS
    <2> USE DEF TypeInv, Books
    <2>1. ClockTypeOK
      <3>1. now \in Nat  BY Constants
      <3> QED  BY <3>1 DEF ClockTypeOK
    <2>2. \A w \in Pollers : Cardinality(poll[w]) = (IF npc[w] = "wait" THEN 1 ELSE 0)
      <3> TAKE w \in Pollers
      <3>1. CASE npc[w] = "wait"
        <4>1. PICK p : poll[w] = {p}  BY <3>1
        <4> QED  BY <3>1, <4>1, FS_Singleton
      <3>2. CASE npc[w] # "wait"
            BY <3>2, FS_EmptySet
      <3> QED  BY <3>1, <3>2
    <2>3. \A w \in Pollers :
             /\ Len(taken[w]) <= polls
             /\ cursor[w] \in 1 .. Len(Sources) + 1 /\ Len(others[w]) < cursor[w]
      <3>1. \A w \in Pollers : Len(taken[w]) \in Nat  OBVIOUS
      <3> QED  BY <3>1
    <2>4. \A a \in answers : a.query \in queries /\ a.originate \in Stamp
      <3>1. \A a \in answers : a \in Received  OBVIOUS
      <3> QED  BY <3>1 DEF Received
    <2>5. \A id \in Ids : Cardinality(summary[id]) <= 1
      <3> TAKE id \in Ids
      <3>1. CASE summary[id] = {}  BY <3>1, FS_EmptySet
      <3>2. ASSUME NEW h \in summary[id] PROVE Cardinality(summary[id]) = 1
        <4>1. summary[id] = {h}  OBVIOUS
        <4> QED  BY <4>1, FS_Singleton
      <3> QED  BY <3>1, <3>2
    <2> QED  BY <2>1, <2>2, <2>3, <2>4, <2>5 DEF TypeOK
  <1> QED  BY <1>1, Typed, PTL
-----------------------------------------------------------------------------
\* Once a reading came from the PHC its descriptor is kept.
PhcOpened ==
    /\ \A q \in queries : q.clock = "phc" => fd # "none"
    /\ \A w \in Pollers : \A i \in DOMAIN taken[w] :
          taken[w][i].clock4 = "phc" => fd # "none"
ClockInv == PhcOpened /\ ClockKept

\* A step that takes no sample and closes no descriptor.
LEMMA NothingTaken ==
    ASSUME ClockInv, fd # "none" => fd' # "none", UNCHANGED taken,
           \A q \in queries' : q \in queries \/ (q.clock = "phc" => fd' # "none")
    PROVE  ClockInv'
    BY DEF ClockInv, PhcOpened, ClockKept

\* A step that takes sample s.
LEMMA SampleTaken ==
    ASSUME NEW w \in Pollers, NEW s \in Sample,
           taken \in [Pollers -> Seq(Sample)], ClockInv,
           taken' = [taken EXCEPT ![w] = Append(taken[w], s)],
           fd # "none" => fd' # "none", UNCHANGED queries,
           s.clock4 = "phc" => fd' # "none",
           fd # "none" => s.clock4 = "phc",
           s.own /\ s.clock1 = "phc" => fd # "none"
    PROVE  ClockInv'
  <1> DEFINE n == Len(taken[w])
  <1>1. /\ n \in Nat
        /\ DOMAIN taken[w] = 1 .. n /\ DOMAIN taken'[w] = 1 .. n + 1
        /\ taken'[w][n + 1] = s
        /\ \A i \in 1 .. n : taken'[w][i] = taken[w][i]
        /\ \A v \in Pollers : v # w => taken'[v] = taken[v]
        OBVIOUS
  <1> HIDE DEF n
  <1>2. \A v \in Pollers : \A i \in DOMAIN taken'[v] :
           \/ v = w /\ i = n + 1
           \/ i \in DOMAIN taken[v] /\ taken'[v][i] = taken[v][i]
        BY <1>1
  <1>3. PhcOpened'
        BY <1>1, <1>2 DEF ClockInv, PhcOpened
  <1>4. ClockKept'
    <2> SUFFICES ASSUME NEW v \in Pollers, NEW i \in DOMAIN taken'[v]
                 PROVE  LET x == taken'[v][i]
                        IN  /\ x.own /\ x.clock1 = "phc" => x.clock4 = "phc"
                            /\ \A j \in 1 .. i - 1 :
                                  taken'[v][j].clock4 = "phc" => x.clock4 = "phc"
        BY DEF ClockKept
    <2>1. CASE v = w /\ i = n + 1
      <3>1. \A j \in 1 .. n : taken[w][j].clock4 = "phc" => fd # "none"
            BY <1>1 DEF ClockInv, PhcOpened
      <3>2. i - 1 = n  BY <1>1, <2>1
      <3> QED  BY <1>1, <2>1, <3>1, <3>2
    <2>2. CASE ~ (v = w /\ i = n + 1)
      <3>1. i \in DOMAIN taken[v] /\ taken'[v][i] = taken[v][i]  BY <1>2, <2>2
      <3>2. DOMAIN taken[v] = 1 .. Len(taken[v]) /\ Len(taken[v]) \in Nat  OBVIOUS
      <3>3. \A j \in 1 .. i - 1 : taken'[v][j] = taken[v][j]
            BY <1>1, <3>1, <3>2
      <3> QED  BY <3>1, <3>3 DEF ClockInv, ClockKept
    <2> QED  BY <2>1, <2>2
  <1> QED  BY <1>3, <1>4 DEF ClockInv

\* Every action keeps what is known of the descriptor.
LEMMA ClockInvStep == TypeInv /\ ClockInv /\ [Next]_vars => ClockInv'
  <1> SUFFICES ASSUME TypeInv, ClockInv, [Next]_vars PROVE ClockInv'  OBVIOUS
  <1>0. /\ fd \in {"none", "open", "dead"}
        /\ poll \in [Pollers -> SUBSET queries] /\ queries \subseteq Query
        /\ answers \subseteq Received
        /\ taken \in [Pollers -> Seq(Sample)] /\ now \in Nat
        BY Constants DEF TypeInv
  <1>1. CASE UNCHANGED vars
        BY <1>1, NothingTaken DEF vars, clockVars, pollVars, netVars
  <1>2. CASE Environment
    <2>1. fd # "none" => fd' # "none"
          BY <1>2 DEF Environment, ClockStep, Advance, DeviceGoes, DeviceComes
    <2> QED  BY <1>2, <2>1, NothingTaken DEF Environment, pollVars, netVars
  <1>3. CASE Answer
        BY <1>3, NothingTaken DEF Answer, clockVars, pollVars
  <1>4. CASE FusionSummary
        BY <1>4, NothingTaken DEF FusionSummary, clockVars, pollVars, netVars
  <1>5. ASSUME NEW w \in Pollers, Poller(w)
        PROVE  ClockInv'
    <2>1. CASE UNCHANGED <<fd, taken, queries>>
          BY <2>1, NothingTaken
    <2>2. CASE Send(w)
      <3>1. fd' = Opened /\ UNCHANGED taken  BY <2>2 DEF Send
      <3>2. \A q \in queries' : q \in queries \/ q.clock \in Clocks \ {"error"}
            BY <2>2 DEF Send
      <3> QED  BY <1>0, <3>1, <3>2, ReadingType, NothingTaken
    <2>3. CASE Receive(w)
      <3>1. PICK p \in poll[w], answer \in answers, c \in Clocks :
               IF c = "error" THEN UNCHANGED taken
               ELSE taken' = [taken EXCEPT ![w] =
                          Append(taken[w], SampleOf(p, answer, c, taken[w]))]
            BY <2>3 DEF Receive
      <3>2. fd' = Opened /\ UNCHANGED queries
            BY <2>3 DEF Receive, netVars
      <3>3. CASE c = "error"
            BY <1>0, <3>1, <3>2, <3>3, ReadingType, NothingTaken
      <3>4. CASE c # "error"
        <4> DEFINE s == SampleOf(p, answer, c, taken[w])
        <4>1. c \in ClockName /\ p \in Query /\ p \in queries /\ answer \in Received
              BY <1>0, <3>4, ReadingType
        <4>2. s \in Sample  BY <1>0, <4>1, SampleType
        <4>3. s.clock4 = c /\ s.clock1 = answer.query.clock /\ s.own = (answer.query = p)
              BY DEF SampleOf
        <4>4. taken' = [taken EXCEPT ![w] = Append(taken[w], s)]  BY <3>1, <3>4
        <4> HIDE DEF s
        <4>5. s.own /\ s.clock1 = "phc" => fd # "none"
              BY <4>1, <4>3 DEF ClockInv, PhcOpened
        <4>6. (s.clock4 = "phc" => fd' # "none") /\ (fd # "none" => s.clock4 = "phc")
              BY <1>0, <3>2, <4>1, <4>3, ReadingType DEF ClockName
        <4>7. fd # "none" => fd' # "none"  BY <1>0, <3>2, ReadingType
        <4> QED  BY <1>0, <3>2, <4>2, <4>4, <4>5, <4>6, <4>7, SampleTaken
      <3> QED  BY <3>3, <3>4
    <2>4. \/ UNCHANGED <<fd, taken, queries>>
          \/ Send(w) \/ Receive(w)
          BY <1>5 DEF Poller, Tick, PollFails, RecvFails, TimeoutPoll, CompareOne,
              WriteSummary, clockVars, netVars
    <2> QED  BY <2>1, <2>2, <2>3, <2>4
  <1> QED  BY <1>1, <1>2, <1>3, <1>4, <1>5 DEF Next

\* PhcReader::now_ns in poll_once: no poll and no poller goes back from the PHC to
\* CLOCK_TAI, whenever the device comes and goes.
THEOREM ClockIsKept == Spec => []ClockKept
  <1>1. Init => ClockInv  BY DEF Init, ClockInv, PhcOpened, ClockKept
  <1>2. ClockInv => ClockKept  BY DEF ClockInv
  <1> QED  BY <1>1, <1>2, Typed, ClockInvStep, PTL DEF Spec
-----------------------------------------------------------------------------
\* The run ends before the era of NTP does, on all clocks.
WithinEra ==
    \A t \in 0 .. MaxTime :
        /\ \A a \in Servers : InEra(t + Server[a].skew)
        /\ \A c \in ClockName : InEra(t + Lead[c])

\* The answer to q received at b and answered at c.
AnswerAt(q, b, c) ==
    [query |-> q,
     originate |-> IF Server[q.addr].echoes THEN encode_ntp_timestamp(q.t1) ELSE NoStamp,
     receive |-> IF Server[q.addr].synced THEN ServerStamp(b + Server[q.addr].skew)
                                          ELSE NoStamp,
     transmit |-> IF Server[q.addr].synced THEN ServerStamp(c + Server[q.addr].skew)
                                           ELSE NoStamp]

\* t1 is read when the query is sent, and an answer is received and sent later.
Timely ==
    /\ \A q \in queries : q.sent \in 0 .. now /\ q.t1 = q.sent + Lead[q.clock]
    /\ \A a \in answers : \E b \in a.query.sent .. now : \E c \in b .. now :
          a = AnswerAt(a.query, b, c)

\* Every action keeps queries and answers in the order of time.
LEMMA TimelyStep == TypeInv /\ Timely /\ [Next]_vars => Timely'
  <1> SUFFICES ASSUME TypeInv, Timely, [Next]_vars PROVE Timely'  OBVIOUS
  <1>0. /\ now \in Nat /\ queries \subseteq Query /\ answers \subseteq Received
        /\ \A a \in answers : a.query \in queries
        BY Constants DEF TypeInv
  <1>1. ASSUME now' \in Nat, now <= now', UNCHANGED netVars
        PROVE  Timely'
    <2>1. \A q \in queries : q.sent \in 0 .. now' /\ q.t1 = q.sent + Lead[q.clock]
          BY <1>0, <1>1 DEF Timely
    <2>2. ASSUME NEW a \in answers
          PROVE  \E b \in a.query.sent .. now' : \E c \in b .. now' :
                    a = AnswerAt(a.query, b, c)
      <3>1. PICK b \in a.query.sent .. now, c \in a.query.sent .. now :
               b <= c /\ a = AnswerAt(a.query, b, c)
        <4>1. a.query.sent \in Nat  BY <1>0 DEF Query
        <4> QED  BY <1>0, <4>1 DEF Timely
      <3>2. a.query.sent \in Nat  BY <1>0 DEF Query
      <3>3. b \in a.query.sent .. now' /\ c \in b .. now'  BY <1>0, <1>1, <3>1, <3>2
      <3> QED  BY <3>1, <3>3
    <2> QED  BY <1>1, <2>1, <2>2 DEF Timely, netVars
  <1>2. CASE UNCHANGED vars
        BY <1>0, <1>1, <1>2 DEF vars, clockVars
  <1>3. CASE Environment
    <2>1. now' \in Nat /\ now <= now'
          BY <1>0, <1>3 DEF Environment, ClockStep, Advance, DeviceGoes, DeviceComes
    <2> QED  BY <1>1, <1>3, <2>1 DEF Environment
  <1>4. CASE Answer
    <2>1. PICK q \in queries : \E received \in q.sent .. now :
             answers' = answers \cup {AnswerTo(q, received)}
          BY <1>4 DEF Answer
    <2>2. PICK received \in q.sent .. now : answers' = answers \cup {AnswerTo(q, received)}
          BY <2>1
    <2>3. UNCHANGED <<now, queries>>  BY <1>4 DEF Answer, clockVars
    <2>4. AnswerTo(q, received) = AnswerAt(q, received, now)
          BY DEF AnswerTo, AnswerAt
    <2>5. AnswerAt(q, received, now).query = q  BY DEF AnswerAt
    <2>6. q.sent \in Nat  BY <1>0 DEF Query
    <2>7. received \in q.sent .. now /\ now \in received .. now  BY <1>0, <2>6
    <2> DEFINE new == AnswerAt(q, received, now)
    <2>8. \E b \in new.query.sent .. now : \E c \in b .. now : new = AnswerAt(new.query, b, c)
          BY <2>5, <2>7
    <2> HIDE DEF new
    <2>9. answers' = answers \cup {new}  BY <2>2, <2>4 DEF new
    <2> QED  BY <2>3, <2>8, <2>9 DEF Timely
  <1>5. CASE FusionSummary
        BY <1>0, <1>1, <1>5 DEF FusionSummary, clockVars
  <1>6. ASSUME NEW w \in Pollers, Poller(w)
        PROVE  Timely'
    <2>1. CASE UNCHANGED <<now, netVars>>
          BY <1>0, <1>1, <2>1
    <2>2. CASE Send(w)
      <3>1. UNCHANGED <<now, answers>>  BY <2>2 DEF Send
      <3>2. \A q \in queries' :
               q \in queries \/ (q.sent = now /\ \E c \in Clocks : q.clock = c /\ q.t1 = Reading(c))
            BY <2>2 DEF Send
      <3>3. \A q \in queries' : q.sent \in 0 .. now /\ q.t1 = q.sent + Lead[q.clock]
            BY <1>0, <3>2 DEF Timely, Reading
      <3> QED  BY <3>1, <3>3 DEF Timely
    <2>3. UNCHANGED <<now, netVars>> \/ Send(w)
          BY <1>6 DEF Poller, Tick, PollFails, Receive, RecvFails, TimeoutPoll, CompareOne,
              WriteSummary, clockVars
    <2> QED  BY <2>1, <2>2, <2>3
  <1> QED  BY <1>2, <1>3, <1>4, <1>5, <1>6 DEF Next

\* What decode_ntp_timestamp returns of a stamp taken at t by a clock l ahead of it.
LEMMA StampedAt ==
    ASSUME NEW t \in Nat, NEW l \in Nat, InEra(t + l)
    PROVE  \E e \in {0, 1} :
              /\ decode_ntp_timestamp(encode_ntp_timestamp(t + l)) = (t + l) - e
              /\ ServerStamp(t + l) = encode_ntp_timestamp(t + l)
              /\ 2 * e <= Loss
  <1>1. t + l \in Nat  OBVIOUS
  <1>2. ServerStamp(t + l) = encode_ntp_timestamp(t + l)  BY <1>1, ServerStampInEra
  <1> DEFINE ts == decode_ntp_timestamp(encode_ntp_timestamp(t + l))
  <1>3. ts \in {t + l - 1, t + l} /\ (FracPerSec % NsPerSec = 0 => ts = t + l)
        BY <1>1, StampLoss
  <1> HIDE DEF ts
  <1>4. \E e \in {0, 1} : ts = (t + l) - e /\ 2 * e <= Loss
        BY <1>3 DEF Loss
  <1> QED  BY <1>2, <1>4 DEF ts

\* The arithmetic of an exchange: a query takes time though the server's stamp of its
\* receipt may lose e, and so does the answer.
LEMMA LossyExchange ==
    ASSUME NEW t1 \in Int, NEW t2 \in Int, NEW t3 \in Int, NEW t4 \in Int,
           NEW theta \in Int, NEW e \in {0, 1}, 2 * e <= Loss,
           t1 + theta <= t2 + e, t3 <= t4 + theta
    PROVE  LET calc == compute_offset_delay(t1, t2, t3, t4)
           IN  2 * Abs(calc.offset - theta) <= calc.delay + 1 + Loss
  <1> DEFINE x == (t2 - t1) + (t3 - t4)
             calc == compute_offset_delay(t1, t2, t3, t4)
  <1>1. x \in Int  OBVIOUS
  <1>2. calc.offset = TruncHalf(x) /\ calc.delay = (t4 - t1) - (t3 - t2)
        BY DEF compute_offset_delay
  <1>3. calc.offset \in Int /\ 2 * calc.offset - x \in {-1, 0, 1}
        BY <1>1, <1>2, TruncHalfBounds
  <1> HIDE DEF calc
  <1>4. Loss \in Int  BY DEF Loss
  <1> QED  BY <1>1, <1>2, <1>3, <1>4 DEF Abs, calc

\* NtpSampleAccurate and DriftWithinDelays, of one sample and of two.
Accurate(s) ==
    OneExchange(s) => 2 * Abs(s.offset - TrueOffset(s)) <= s.delay + 1 + Loss
Samplewise ==
    \A w \in Pollers : \A i \in DOMAIN taken[w] :
        /\ Accurate(taken[w][i])
        /\ i > 1 => taken[w][i].drift =
                       DriftSince(taken[w][i - 1], taken[w][i].offset, taken[w][i].ts)

\* poll_once: a sample is accurate whichever query its answer belongs to.
LEMMA SampleAccurate ==
    ASSUME WithinEra, TypeInv, Timely, NEW w \in Pollers, NEW p \in poll[w],
           NEW answer \in answers, Arrives(answer, p), NEW k \in ClockName
    PROVE  Accurate(SampleOf(p, answer, k, taken[w]))
  <1> DEFINE q == answer.query
             s == SampleOf(p, answer, k, taken[w])
             skew == Server[q.addr].skew
  <1>1. /\ now \in 0 .. MaxTime /\ MaxTime \in Nat
        /\ q \in queries /\ q \in Query /\ p \in queries /\ p \in Query
        BY Constants DEF TypeInv
  <1>2. q.sent \in 0 .. now /\ q.t1 = q.sent + Lead[q.clock]  BY <1>1 DEF Timely
  <1>3. PICK b \in q.sent .. now, c \in q.sent .. now :
           b <= c /\ answer = AnswerAt(q, b, c)
        BY <1>1, <1>2 DEF Timely
  <1>4. /\ b \in 0 .. MaxTime /\ c \in 0 .. MaxTime /\ q.sent \in 0 .. MaxTime
        /\ q.addr \in Servers /\ q.clock \in ClockName
        BY <1>1, <1>2, <1>3 DEF Query
  <1>5. p.addr = q.addr  BY DEF Arrives
  <1>6. SUFFICES ASSUME OneExchange(s)
                 PROVE  2 * Abs(s.offset - TrueOffset(s)) <= s.delay + 1 + Loss
        BY DEF Accurate
  <1>7. /\ q.clock = k /\ Server[q.addr].synced
        /\ answer.query = p \/ answer.originate # NoStamp
        BY <1>5, <1>6 DEF OneExchange, SampleOf
  <1>8. skew \in Nat /\ Lead[k] \in Nat /\ Lead[k] > 1  BY <1>4, Constants
  <1>9. PICK e2 \in {0, 1} :
           decode_ntp_timestamp(answer.receive) = (b + skew) - e2 /\ 2 * e2 <= Loss
    <2>1. InEra(b + skew)  BY <1>4 DEF WithinEra
    <2>2. answer.receive = ServerStamp(b + skew)  BY <1>3, <1>7 DEF AnswerAt
    <2> QED  BY <1>4, <1>8, <2>1, <2>2, StampedAt
  <1>10. PICK e3 \in {0, 1} : decode_ntp_timestamp(answer.transmit) = (c + skew) - e3
    <2>1. InEra(c + skew)  BY <1>4 DEF WithinEra
    <2>2. answer.transmit = ServerStamp(c + skew)  BY <1>3, <1>7 DEF AnswerAt
    <2> QED  BY <1>4, <1>8, <2>1, <2>2, StampedAt
  <1>11. PICK e1 \in {0, 1} : T1Used(p, answer) = (q.sent + Lead[k]) - e1
    <2>1. CASE Server[q.addr].echoes
      <3>1. answer.originate = encode_ntp_timestamp(q.t1)  BY <1>3, <2>1 DEF AnswerAt
      <3>2. q.t1 = q.sent + Lead[k] /\ InEra(q.sent + Lead[k])
            BY <1>2, <1>4, <1>7 DEF WithinEra
      <3>3. PICK e \in {0, 1} :
               decode_ntp_timestamp(answer.originate) = (q.sent + Lead[k]) - e
            BY <1>4, <1>8, <3>1, <3>2, StampedAt
      <3>4. decode_ntp_timestamp(answer.originate) # 0  BY <1>4, <1>8, <3>3
      <3> QED  BY <3>3, <3>4 DEF T1Used
    <2>2. CASE ~ Server[q.addr].echoes
      <3>1. answer.originate = NoStamp  BY <1>3, <2>2 DEF AnswerAt
      <3>2. q = p /\ decode_ntp_timestamp(answer.originate) = 0
            BY <1>7, <3>1 DEF decode_ntp_timestamp
      <3>3. T1Used(p, answer) = p.t1  BY <3>2 DEF T1Used
      <3> QED  BY <1>2, <1>4, <1>7, <1>8, <3>2, <3>3
    <2> QED  BY <2>1, <2>2
  <1> DEFINE t1 == T1Used(p, answer)
             t2 == decode_ntp_timestamp(answer.receive)
             t3 == decode_ntp_timestamp(answer.transmit)
             t4 == Reading(k)
             calc == compute_offset_delay(t1, t2, t3, t4)
  <1>12. t4 = now + Lead[k]  BY DEF Reading
  <1>13. s.offset = calc.offset /\ s.delay = calc.delay /\ TrueOffset(s) = skew - Lead[k]
         BY <1>5 DEF SampleOf, TrueOffset
  <1>14. /\ q.sent \in Nat /\ b \in Nat /\ c \in Nat /\ now \in Nat
         /\ q.sent <= b /\ c <= now
         BY <1>1, <1>2, <1>3
  <1> HIDE DEF t1, t2, t3, t4, s, skew, q
  <1>15. 2 * Abs(calc.offset - (skew - Lead[k])) <= calc.delay + 1 + Loss
    <2>1. t1 = (q.sent + Lead[k]) - e1  BY <1>11 DEF t1
    <2>2. t2 = (b + skew) - e2 /\ 2 * e2 <= Loss  BY <1>9 DEF t2
    <2>3. t3 = (c + skew) - e3  BY <1>10 DEF t3
    <2> DEFINE theta == skew - Lead[k]
    <2>4. /\ t1 \in Int /\ t2 \in Int /\ t3 \in Int /\ t4 \in Int /\ theta \in Int
          /\ t1 + theta <= t2 + e2 /\ t3 <= t4 + theta
          BY <1>8, <1>12, <1>14, <2>1, <2>2, <2>3
    <2> HIDE DEF theta
    <2>5. 2 * Abs(calc.offset - theta) <= calc.delay + 1 + Loss
          BY <2>2, <2>4, LossyExchange
    <2> QED  BY <2>5 DEF theta
  <1> QED  BY <1>13, <1>15

\* Every sample taken is accurate, and every drift bounded.
LEMMA SamplewiseStep ==
    WithinEra /\ TypeInv /\ Timely /\ Samplewise /\ [Next]_vars => Samplewise'
  <1> SUFFICES ASSUME WithinEra, TypeInv, Timely, Samplewise, [Next]_vars
               PROVE  Samplewise'
      OBVIOUS
  <1>1. CASE UNCHANGED taken
        BY <1>1 DEF Samplewise
  <1>2. ASSUME NEW w \in Pollers, Receive(w), ~ UNCHANGED taken
        PROVE  Samplewise'
    <2>1. PICK p \in poll[w], answer \in answers, c \in Clocks :
             /\ Arrives(answer, p)
             /\ IF c = "error" THEN UNCHANGED taken
                ELSE taken' = [taken EXCEPT ![w] =
                        Append(taken[w], SampleOf(p, answer, c, taken[w]))]
          BY <1>2 DEF Receive
    <2> DEFINE s == SampleOf(p, answer, c, taken[w])
               n == Len(taken[w])
    <2>2. c \in ClockName /\ c # "error"
          BY <1>2, <2>1, ReadingType DEF TypeInv
    <2>3. taken' = [taken EXCEPT ![w] = Append(taken[w], s)]  BY <2>1, <2>2
    <2>4. Accurate(s)  BY <2>1, <2>2, SampleAccurate
    <2>5. s \in Sample
      <3>1. /\ p \in Query /\ answer \in Received /\ now \in Nat
            /\ taken[w] \in Seq(Sample)
            BY Constants DEF TypeInv
      <3> QED  BY <2>2, <3>1, SampleType
    <2>6. n > 0 => s.drift = DriftSince(taken[w][n], s.offset, s.ts)
      <3>1. n > 0 => taken[w] # <<>>  OBVIOUS
      <3> QED  BY <3>1 DEF SampleOf
    <2>7. taken \in [Pollers -> Seq(Sample)]  BY DEF TypeInv
    <2> HIDE DEF s, n
    <2>8. /\ n \in Nat
          /\ DOMAIN taken[w] = 1 .. n /\ DOMAIN taken'[w] = 1 .. n + 1
          /\ taken'[w][n + 1] = s
          /\ \A i \in 1 .. n : taken'[w][i] = taken[w][i]
          /\ \A v \in Pollers : v # w => taken'[v] = taken[v]
          BY <2>3, <2>5, <2>7 DEF n
    <2> SUFFICES ASSUME NEW v \in Pollers, NEW i \in DOMAIN taken'[v]
                 PROVE  /\ Accurate(taken'[v][i])
                        /\ i > 1 => taken'[v][i].drift =
                              DriftSince(taken'[v][i - 1], taken'[v][i].offset, taken'[v][i].ts)
        BY DEF Samplewise
    <2>9. CASE v # w
          BY <2>8, <2>9 DEF Samplewise
    <2>10. CASE v = w /\ i = n + 1
      <3>1. taken'[v][i] = s  BY <2>8, <2>10
      <3>2. i > 1 => n > 0 /\ taken'[v][i - 1] = taken[w][n]  BY <2>8, <2>10
      <3> QED  BY <2>4, <2>6, <3>1, <3>2
    <2>11. CASE v = w /\ i # n + 1
      <3>1. i \in 1 .. n /\ i \in DOMAIN taken[w] /\ taken'[v][i] = taken[w][i]
            BY <2>8, <2>11
      <3>2. i > 1 => taken'[v][i - 1] = taken[w][i - 1]  BY <2>8, <2>11, <3>1
      <3> QED  BY <3>1, <3>2 DEF Samplewise
    <2> QED  BY <2>9, <2>10, <2>11
  <1>3. UNCHANGED taken \/ \E w \in Pollers : Receive(w)
        BY DEF vars, pollVars, Next, Poller, Environment, Answer, FusionSummary, Tick,
            PollFails, Send, RecvFails, TimeoutPoll, CompareOne, WriteSummary
  <1> QED  BY <1>1, <1>2, <1>3

\* Two numbers that are close to a third are close to each other.
LEMMA Apart ==
    ASSUME NEW a \in Int, NEW b \in Int, NEW theta \in Int, NEW da \in Int, NEW db \in Int,
           NEW loss \in Int, NEW d \in {0, a - b},
           2 * Abs(a - theta) <= da + 1 + loss, 2 * Abs(b - theta) <= db + 1 + loss
    PROVE  2 * Abs(d) <= da + db + 2 * (1 + loss)
    BY DEF Abs

\* The invariants of a run within the era.
LEMMA Sampled == WithinEra /\ Spec => [](TypeInv /\ Timely /\ Samplewise)
  <1>1. Init => Timely /\ Samplewise
        BY DEF Init, Timely, Samplewise
  <1>2. WithinEra /\ TypeInv /\ Timely /\ Samplewise /\ [Next]_vars => (Timely /\ Samplewise)'
        BY TimelyStep, SamplewiseStep
  <1>3. WithinEra => WithinEra'
        OBVIOUS
  <1> QED  BY <1>1, <1>2, <1>3, Typed, PTL DEF Spec

\* poll_once: until February 2036 every sample is within half its delay of the true
\* offset, and the nanoseconds the stamps lose, whatever the answers' delays, the
\* servers, the ports given anew and the number of polls.
THEOREM SamplesAreAccurate == WithinEra /\ Spec => []NtpSampleAccurate
  <1>1. Samplewise => NtpSampleAccurate
        BY DEF Samplewise, Accurate, NtpSampleAccurate, Samples
  <1> QED  BY <1>1, Sampled, PTL

\* spawn_ntp_pollers: the drift stored is bounded by the delays of the two samples it
\* is taken from.
THEOREM DriftIsBounded == WithinEra /\ Spec => []DriftWithinDelays
  <1>1. TypeInv /\ Samplewise => DriftWithinDelays
    <2> SUFFICES ASSUME TypeInv, Samplewise, NEW w \in Pollers, NEW i \in 2 .. Len(taken[w]),
                        OneExchange(taken[w][i]), OneExchange(taken[w][i - 1]),
                        taken[w][i].addr = taken[w][i - 1].addr,
                        taken[w][i].clock4 = taken[w][i - 1].clock4
                 PROVE  2 * Abs(taken[w][i].drift.num)
                           <= taken[w][i].delay + taken[w][i - 1].delay + 2 * (1 + Loss)
        BY DEF DriftWithinDelays
    <2> DEFINE s == taken[w][i]
               prev == taken[w][i - 1]
               theta == TrueOffset(s)
    <2>1. /\ i \in DOMAIN taken[w] /\ i - 1 \in DOMAIN taken[w] /\ i > 1
          /\ s \in Sample /\ prev \in Sample
          BY DEF TypeInv
    <2>2. Accurate(s) /\ Accurate(prev) /\ s.drift = DriftSince(prev, s.offset, s.ts)
          BY <2>1 DEF Samplewise
    <2>3. TrueOffset(prev) = theta  BY DEF TrueOffset
    <2>4. theta \in Int
      <3>1. s.addr \in Servers /\ s.clock4 \in ClockName  BY <2>1 DEF Sample
      <3> QED  BY <3>1, Constants DEF TrueOffset
    <2> HIDE DEF theta
    <2>5. /\ 2 * Abs(s.offset - theta) <= s.delay + 1 + Loss
          /\ 2 * Abs(prev.offset - theta) <= prev.delay + 1 + Loss
          BY <2>2, <2>3 DEF Accurate, theta
    <2>6. s.drift.num \in {0, s.offset - prev.offset}  BY <2>2 DEF DriftSince
    <2>7. /\ s.offset \in Int /\ s.delay \in Int
          /\ prev.offset \in Int /\ prev.delay \in Int
          BY <2>1 DEF Sample
    <2> HIDE DEF s, prev
    <2>8. Loss \in Int  BY DEF Loss
    <2>9. 2 * Abs(s.drift.num) <= s.delay + prev.delay + 2 * (1 + Loss)
          BY <2>4, <2>5, <2>6, <2>7, <2>8, Apart
    <2> QED  BY <2>9 DEF s, prev
  <1> QED  BY <1>1, Sampled, PTL
-----------------------------------------------------------------------------
\* compute_offset_vs_mean: a mean lies between elements of its list.
LEMMA MeanBetween ==
    ASSUME NEW list \in Seq(Int), Len(list) > 0
    PROVE  \E i, j \in 1 .. Len(list) :
              /\ Len(list) * list[i] <= SumOf(list)
              /\ SumOf(list) <= Len(list) * list[j]
  <1> DEFINE n == Len(list)
             sum == SumOf(list)
             scaled == [i \in 1 .. n |-> n * list[i]]
             constant == [i \in 1 .. n |-> sum]
  <1>1. n \in Nat \ {0} /\ sum \in Int /\ \A i \in 1 .. n : list[i] \in Int
        BY SumType
  <1>2. \A i \in 1 .. n : n * list[i] \in Int
    <2> HIDE DEF n
    <2> QED  BY <1>1
  <1> HIDE DEF sum
  <1>3. /\ scaled \in Seq(Int) /\ Len(scaled) = n
        /\ constant \in Seq(Int) /\ Len(constant) = n
        /\ \A i \in 1 .. n : scaled[i] = n * list[i] /\ constant[i] = sum
        BY <1>1, <1>2
  <1> HIDE DEF scaled, constant
  <1>4. SumOf(scaled) = n * sum  BY <1>1, <1>3, SumScaled DEF sum
  <1>5. SumOf(constant) = n * sum  BY <1>1, <1>3, SumConstant
  <1>6. 1 \in 1 .. n /\ n * sum \in Int  BY <1>1
  <1> HIDE DEF n
  <1>7. \A i \in 1 .. n : scaled[i] \in Int  BY <1>2, <1>3
  <1>8. \E i \in 1 .. n : scaled[i] <= sum
    <2> SUFFICES ASSUME \A i \in 1 .. n : constant[i] + 1 <= scaled[i] PROVE FALSE
        BY <1>1, <1>3, <1>7
    <2>1. \A i \in 1 .. Len(constant) : constant[i] <= scaled[i]
          BY <1>1, <1>3, <1>7
    <2>2. SumOf(constant) + (scaled[1] - constant[1]) <= SumOf(scaled)
          BY <1>3, <1>6, <2>1, SumMonotone
    <2>3. constant[1] + 1 <= scaled[1] /\ constant[1] \in Int /\ scaled[1] \in Int
          BY <1>1, <1>3, <1>6, <1>7
    <2> QED  BY <1>4, <1>5, <1>6, <2>2, <2>3
  <1>9. \E i \in 1 .. n : sum <= scaled[i]
    <2> SUFFICES ASSUME \A i \in 1 .. n : scaled[i] + 1 <= constant[i] PROVE FALSE
        BY <1>1, <1>3, <1>7
    <2>1. \A i \in 1 .. Len(scaled) : scaled[i] <= constant[i]
          BY <1>1, <1>3, <1>7
    <2>2. SumOf(scaled) + (constant[1] - scaled[1]) <= SumOf(constant)
          BY <1>3, <1>6, <2>1, SumMonotone
    <2>3. scaled[1] + 1 <= constant[1] /\ constant[1] \in Int /\ scaled[1] \in Int
          BY <1>1, <1>3, <1>6, <1>7
    <2> QED  BY <1>4, <1>5, <1>6, <2>2, <2>3
  <1> QED  BY <1>3, <1>8, <1>9 DEF n, sum

\* compute_offset_vs_mean: a summary holds an offset measured of its source, or a
\* median, and a difference that is one to other sources, whoever wrote it and in
\* which run; an offset being compared with is one from a summary of another source.
Theirs(id) == UNION {OffsetsOf(other) : other \in Ids \ {id}}
TheirMedians(id) == UNION {Medians(OffsetsOf(other)) : other \in Ids \ {id}}
Compared(id, d) ==
    /\ d.of \in OffsetsOf(id)
    /\ \E low, high \in Theirs(id) :
          (d.of - high) * d.den <= d.num /\ d.num <= (d.of - low) * d.den
Summarised ==
    \A id \in Ids : \A s \in summary[id] :
        s.offset \in Medians(OffsetsOf(id)) /\ \A d \in s.diff : Compared(id, d)
OthersRead ==
    \A w \in Pollers : \A i \in DOMAIN others[w] :
        others[w][i] \in TheirMedians(Sources[w].id)
CompareInv == Summarised /\ OthersRead

\* Samples are added only.
LEMMA OffsetsGrow ==
    ASSUME TypeInv, [Next]_vars
    PROVE  \A id : /\ OffsetsOf(id) \subseteq OffsetsOf(id)'
                   /\ Medians(OffsetsOf(id)) \subseteq Medians(OffsetsOf(id)')
                   /\ TheirMedians(id) \subseteq TheirMedians(id)'
                   /\ \A d : Compared(id, d) => Compared(id, d)'
  <1>1. taken \in [Pollers -> Seq(Sample)]  BY DEF TypeInv
  <1>2. \A w \in Pollers : \A i \in DOMAIN taken[w] :
           i \in DOMAIN taken'[w] /\ taken'[w][i] = taken[w][i]
    <2>1. CASE UNCHANGED taken
          BY <2>1
    <2>2. ASSUME NEW w \in Pollers, Receive(w), ~ UNCHANGED taken
          PROVE  \A v \in Pollers : \A i \in DOMAIN taken[v] :
                    i \in DOMAIN taken'[v] /\ taken'[v][i] = taken[v][i]
      <3>1. PICK p \in poll[w], answer \in answers, c \in Clocks :
               IF c = "error" THEN UNCHANGED taken
               ELSE taken' = [taken EXCEPT ![w] =
                          Append(taken[w], SampleOf(p, answer, c, taken[w]))]
            BY <2>2 DEF Receive
      <3> DEFINE s == SampleOf(p, answer, c, taken[w])
      <3>2. taken' = [taken EXCEPT ![w] = Append(taken[w], s)]  BY <2>2, <3>1
      <3> HIDE DEF s
      <3>3. /\ \A v \in Pollers : v # w => taken'[v] = taken[v]
            /\ taken'[w] = Append(taken[w], s)
            BY <1>1, <3>2
      <3>4. \A i \in DOMAIN taken[w] : /\ i \in DOMAIN Append(taken[w], s)
                                       /\ Append(taken[w], s)[i] = taken[w][i]
            BY <1>1
      <3> QED  BY <3>3, <3>4
    <2>3. UNCHANGED taken \/ \E w \in Pollers : Receive(w)
          BY DEF vars, pollVars, Next, Poller, Environment, Answer, FusionSummary, Tick,
              PollFails, Send, RecvFails, TimeoutPoll, CompareOne, WriteSummary
    <2> QED  BY <2>1, <2>2, <2>3
  <1>3. \A id : OffsetsOf(id) \subseteq OffsetsOf(id)'
    <2>1. \A id : Entries(id) \subseteq Entries(id)'  BY <1>2 DEF Entries
    <2> QED  BY <2>1 DEF OffsetsOf
  <1>4. \A id : Medians(OffsetsOf(id)) \subseteq Medians(OffsetsOf(id)')
        BY <1>3 DEF Medians
  <1>5. \A id : TheirMedians(id) \subseteq TheirMedians(id)'
    <2>1. \A id : TheirMedians(id)' = UNION {Medians(OffsetsOf(other)') : other \in Ids \ {id}}
          BY DEF TheirMedians, Medians
    <2>2. \A id : TheirMedians(id) = UNION {Medians(OffsetsOf(other)) : other \in Ids \ {id}}
          BY DEF TheirMedians
    <2> QED  BY <1>4, <2>1, <2>2
  <1>6. \A id : Theirs(id) \subseteq Theirs(id)'  BY <1>3 DEF Theirs
  <1> QED  BY <1>3, <1>4, <1>5, <1>6 DEF Compared

\* Summaries that hold what is known of their source.
LEMMA SummariesKept ==
    ASSUME TypeInv, CompareInv, [Next]_vars,
           \A id \in Ids : \A s \in summary'[id] :
              \/ s \in summary[id]
              \/ s.offset \in Medians(OffsetsOf(id)) /\ \A d \in s.diff : Compared(id, d)
    PROVE  Summarised'
  <1>1. \A id \in Ids : \A s \in summary'[id] :
           s.offset \in Medians(OffsetsOf(id)) /\ \A d \in s.diff : Compared(id, d)
        BY DEF CompareInv, Summarised
  <1> QED  BY <1>1, OffsetsGrow DEF Summarised

\* Offsets read that are of other sources.
LEMMA OthersKept ==
    ASSUME TypeInv, CompareInv, [Next]_vars,
           \A w \in Pollers : \A i \in DOMAIN others'[w] :
              \/ i \in DOMAIN others[w] /\ others'[w][i] = others[w][i]
              \/ others'[w][i] \in TheirMedians(Sources[w].id)
    PROVE  OthersRead'
  <1>1. \A w \in Pollers : \A i \in DOMAIN others'[w] :
           others'[w][i] \in TheirMedians(Sources[w].id)
        BY DEF CompareInv, OthersRead
  <1> QED  BY <1>1, OffsetsGrow DEF OthersRead

\* compute_offset_vs_mean: a difference to the mean of offsets and medians of others.
LEMMA DifferenceCompared ==
    ASSUME TypeInv, NEW id \in Ids, NEW offset \in OffsetsOf(id),
           NEW list \in Seq(TheirMedians(id)), Len(list) > 0
    PROVE  Compared(id, Difference(offset, list))
  <1> DEFINE n == Len(list)
             sum == SumOf(list)
  <1>1. /\ \A other \in Ids : OffsetsOf(other) \subseteq Int
        /\ \A other \in Ids : Medians(OffsetsOf(other)) \subseteq Int
        BY OffsetsType DEF TypeInv
  <1>2. TheirMedians(id) \subseteq Int  BY <1>1 DEF TheirMedians
  <1>3. list \in Seq(Int)  BY <1>2
  <1>4. n \in Nat /\ sum \in Int /\ offset \in Int  BY <1>1, <1>3, SumType
  <1>5. PICK i \in 1 .. n, j \in 1 .. n : n * list[i] <= sum /\ sum <= n * list[j]
        BY <1>3, MeanBetween
  <1>6. \A k \in 1 .. n : \E a, b \in Theirs(id) \cap Int : list[k] = a + b
    <2> SUFFICES ASSUME NEW k \in 1 .. n
                 PROVE  \E a, b \in Theirs(id) \cap Int : list[k] = a + b
        OBVIOUS
    <2>1. list[k] \in TheirMedians(id)  OBVIOUS
    <2>2. PICK other \in Ids \ {id} : list[k] \in Medians(OffsetsOf(other))
          BY <2>1 DEF TheirMedians
    <2>3. PICK a \in OffsetsOf(other), b \in OffsetsOf(other) : list[k] = a + b
          BY <2>2 DEF Medians
    <2> QED  BY <1>1, <2>3 DEF Theirs
  <1>7. PICK low \in Theirs(id) \cap Int : 2 * low <= list[i]
    <2>1. PICK a \in Theirs(id) \cap Int, b \in Theirs(id) \cap Int : list[i] = a + b
          BY <1>6
    <2>2. 2 * a <= list[i] \/ 2 * b <= list[i]  BY <2>1
    <2> QED  BY <2>2
  <1>8. PICK high \in Theirs(id) \cap Int : list[j] <= 2 * high
    <2>1. PICK a \in Theirs(id) \cap Int, b \in Theirs(id) \cap Int : list[j] = a + b
          BY <1>6
    <2>2. list[j] <= 2 * a \/ list[j] <= 2 * b  BY <2>1
    <2> QED  BY <2>2
  <1>9. list[i] \in Int /\ list[j] \in Int  BY <1>3
  <1> HIDE DEF n, sum
  <1>10. n * (2 * low) <= sum
    <2>1. list[i] \in Int /\ 2 * low \in Int /\ 2 * low <= list[i]  BY <1>7, <1>9
    <2>2. n * (2 * low) <= n * list[i]  BY <1>4, <2>1, Weigh
    <2>3. n * list[i] \in Int /\ n * (2 * low) \in Int  BY <1>4, <2>1
    <2> QED  BY <1>4, <1>5, <2>2, <2>3
  <1>11. sum <= n * (2 * high)
    <2>1. list[j] \in Int /\ 2 * high \in Int /\ list[j] <= 2 * high  BY <1>8, <1>9
    <2>2. n * list[j] <= n * (2 * high)  BY <1>4, <2>1, Weigh
    <2>3. n * list[j] \in Int /\ n * (2 * high) \in Int  BY <1>4, <2>1
    <2> QED  BY <1>4, <1>5, <2>2, <2>3
  <1>12. \A x \in Int : /\ (offset - x) * (2 * n) = 2 * n * offset - n * (2 * x)
                        /\ n * (2 * x) \in Int
    <2> TAKE x \in Int
    <2>1. 2 * n \in Int /\ -x \in Int /\ offset - x = offset + (-x)  BY <1>4
    <2>2. (offset - x) * (2 * n) = offset * (2 * n) + (-x) * (2 * n)  BY <1>4, <2>1, Factor
    <2>3. offset * (2 * n) = 2 * n * offset /\ offset * (2 * n) \in Int
          BY <1>4, <2>1, Factor
    <2>4. (-x) * (2 * n) = -(n * (2 * x)) /\ n * (2 * x) \in Int  BY <1>4
    <2> QED  BY <2>2, <2>3, <2>4
  <1>13. 2 * n * offset \in Int  BY <1>4
  <1>14. /\ (offset - high) * (2 * n) <= 2 * n * offset - sum
         /\ 2 * n * offset - sum <= (offset - low) * (2 * n)
    <2>1. high \in Int /\ low \in Int  OBVIOUS
    <2>2. (offset - high) * (2 * n) <= 2 * n * offset - sum
          BY <1>4, <1>11, <1>12, <1>13, <2>1
    <2>3. 2 * n * offset - sum <= (offset - low) * (2 * n)
          BY <1>4, <1>10, <1>12, <1>13, <2>1
    <2> QED  BY <2>2, <2>3
  <1> QED  BY <1>14 DEF Compared, Difference, n, sum

\* Every action keeps what summaries hold and pollers read.
LEMMA CompareStep == TypeInv /\ CompareInv /\ [Next]_vars => CompareInv'
  <1> SUFFICES ASSUME TypeInv, CompareInv, [Next]_vars PROVE CompareInv'  OBVIOUS
  <1>0. /\ taken \in [Pollers -> Seq(Sample)] /\ others \in [Pollers -> Seq(Int)]
        /\ DOMAIN summary = Ids
        BY DEF TypeInv
  <1>1. CASE UNCHANGED <<summary, others>>
        BY <1>1, SummariesKept, OthersKept DEF CompareInv
  <1>2. CASE FusionSummary
    <2>1. PICK id \in Ids : \E o \in Medians(OffsetsOf(id)) :
             summary' = [summary EXCEPT ![id] =
                {[offset |-> o, diff |-> UNION {x.diff : x \in summary[id]}]}]
          BY <1>2, FusionWrites
    <2>2. PICK offset \in Medians(OffsetsOf(id)) :
             summary' = [summary EXCEPT ![id] =
                {[offset |-> offset, diff |-> UNION {x.diff : x \in summary[id]}]}]
          BY <2>1
    <2>3. \A j \in Ids : \A s \in summary'[j] :
             \/ s \in summary[j]
             \/ s.offset \in Medians(OffsetsOf(j)) /\ \A d \in s.diff : Compared(j, d)
      <3>1. \A x \in summary[id] : \A d \in x.diff : Compared(id, d)
            BY DEF CompareInv, Summarised
      <3>3. /\ \A j \in Ids : j # id => summary'[j] = summary[j]
            /\ summary'[id] = {[offset |-> offset,
                                diff |-> UNION {x.diff : x \in summary[id]}]}
            BY <1>0, <2>2
      <3> QED  BY <3>1, <3>3
    <2>4. UNCHANGED others  BY <1>2, FusionWrites DEF pollVars
    <2> QED  BY <2>3, <2>4, SummariesKept, OthersKept DEF CompareInv
  <1>3. ASSUME NEW w \in Pollers, Receive(w)
        PROVE  CompareInv'
    <2>1. others' = [others EXCEPT ![w] = <<>>] /\ UNCHANGED summary
          BY <1>3 DEF Receive
    <2>2. \A v \in Pollers : \A i \in DOMAIN others'[v] :
             i \in DOMAIN others[v] /\ others'[v][i] = others[v][i]
          BY <1>0, <2>1
    <2> QED  BY <2>1, <2>2, SummariesKept, OthersKept DEF CompareInv
  <1>4. ASSUME NEW w \in Pollers, CompareOne(w)
        PROVE  CompareInv'
    <2> DEFINE i == cursor[w]
    <2>1. PICK found \in {summary[Sources[i].id]} \cup {{}} :
             others' = [others EXCEPT ![w] =
                IF IsOther(w, i) /\ found # {}
                THEN Append(others[w], (CHOOSE x \in found : TRUE).offset)
                ELSE others[w]]
          BY <1>4 DEF CompareOne
    <2>2. UNCHANGED summary /\ i \in Pollers  BY <1>4, Constants DEF CompareOne, TypeInv
    <2>3. CASE ~ (IsOther(w, i) /\ found # {})
      <3>1. UNCHANGED others  BY <1>0, <2>1, <2>3
      <3> QED  BY <2>2, <3>1, SummariesKept, OthersKept DEF CompareInv
    <2>4. CASE IsOther(w, i) /\ found # {}
      <3> DEFINE x == CHOOSE x \in found : TRUE
                 other == Sources[i].id
      <3>1. x \in summary[other]  BY <2>1, <2>4
      <3>2. other \in Ids \ {Sources[w].id}  BY <2>2, <2>4, Constants DEF IsOther
      <3>3. x.offset \in TheirMedians(Sources[w].id)
        <4>1. x.offset \in Medians(OffsetsOf(other))
              BY <3>1, <3>2 DEF CompareInv, Summarised
        <4> QED  BY <3>2, <4>1 DEF TheirMedians
      <3>4. others' = [others EXCEPT ![w] = Append(others[w], x.offset)]
            BY <2>1, <2>4
      <3>6. x.offset \in Int
            BY <3>1, <3>2 DEF TypeInv
      <3> HIDE DEF x
      <3>5. \A v \in Pollers : \A k \in DOMAIN others'[v] :
               \/ k \in DOMAIN others[v] /\ others'[v][k] = others[v][k]
               \/ others'[v][k] \in TheirMedians(Sources[v].id)
            BY <1>0, <3>3, <3>4, <3>6
      <3> QED  BY <2>2, <3>5, SummariesKept, OthersKept DEF CompareInv
    <2> QED  BY <2>3, <2>4
  <1>5. ASSUME NEW w \in Pollers, WriteSummary(w)
        PROVE  CompareInv'
    <2> DEFINE id == Sources[w].id
               last == Len(taken[w])
               offset == taken[w][last].offset
               list == others[w]
               kept == UNION {s.diff : s \in summary[id]}
               difference == Difference(offset, list)
               written == {[offset |-> 2 * offset,
                            diff |-> IF list = <<>> THEN kept ELSE {difference}]}
    <2>1. /\ summary' \in {[summary EXCEPT ![id] = written],
                           [summary EXCEPT ![id] = summary[id]]}
          /\ UNCHANGED others
          BY <1>5 DEF WriteSummary
    <2>2. id \in Ids  BY Constants
    <2>3. last \in DOMAIN taken[w] /\ taken[w][last] \in Sample
      <3>1. taken[w] # <<>>  BY <1>5 DEF WriteSummary, TypeInv
      <3> QED  BY <1>0, <3>1
    <2>4. offset \in OffsetsOf(id) /\ offset \in Int
      <3>1. offset \in Int  BY <2>3 DEF Sample
      <3>2. offset \in OffsetsOf(id)  BY <1>0, <2>2, <2>3, OffsetsType
      <3> QED  BY <3>1, <3>2
    <2>5. list # <<>> => Compared(id, difference)
      <3>1. list \in Seq(Int)  BY <1>0
      <3>2. \A i \in DOMAIN list : list[i] \in TheirMedians(id)
            BY DEF CompareInv, OthersRead
      <3>3. list \in Seq(TheirMedians(id)) /\ (list # <<>> => Len(list) > 0)
            BY <3>1, <3>2
      <3> HIDE DEF offset, list
      <3> QED  BY <2>2, <2>4, <3>3, DifferenceCompared
    <2>6. \A d \in kept : Compared(id, d)
          BY <2>2 DEF CompareInv, Summarised
    <2>10. 2 * offset \in Medians(OffsetsOf(id))
      <3>1. 2 * offset = offset + offset  BY <2>4
      <3> QED  BY <2>4, <3>1 DEF Medians
    <2> HIDE DEF offset, difference, kept, list
    <2>7. \A s \in written : s.offset \in Medians(OffsetsOf(id)) /\ \A d \in s.diff : Compared(id, d)
          BY <2>5, <2>6, <2>10
    <2> HIDE DEF written
    <2>8. \A j \in Ids : summary'[j] = summary[j] \/ (j = id /\ summary'[j] = written)
          BY <1>0, <2>1, <2>2
    <2>9. \A j \in Ids : \A s \in summary'[j] :
             \/ s \in summary[j]
             \/ s.offset \in Medians(OffsetsOf(j)) /\ \A d \in s.diff : Compared(j, d)
          BY <2>7, <2>8
    <2> QED  BY <2>1, <2>9, SummariesKept, OthersKept DEF CompareInv
  <1>6. \/ UNCHANGED <<summary, others>>
        \/ FusionSummary
        \/ \E w \in Pollers : Receive(w) \/ CompareOne(w) \/ WriteSummary(w)
        BY DEF vars, pollVars, Next, Poller, Environment, Answer, Tick, PollFails, Send,
            RecvFails, TimeoutPoll
  <1> QED  BY <1>1, <1>2, <1>3, <1>4, <1>5, <1>6

\* compute_offset_vs_mean: every difference stored is that of an offset of the source to
\* a mean of offsets of sources with other ids, for any number of sources, some
\* of which share an id, and whatever the store held and the fusion loop writes.
THEOREM AlwaysComparedWithOthers == Spec => []ComparedWithOthers
  <1>1. Init => CompareInv
    <2> SUFFICES ASSUME Init PROVE CompareInv  OBVIOUS
    <2>1. TypeInv  BY TypeInit
    <2>2. Summarised
      <3> SUFFICES ASSUME NEW id \in Ids, NEW s \in summary[id]
                   PROVE  /\ s.offset \in Medians(OffsetsOf(id))
                          /\ \A d \in s.diff : Compared(id, d)
          BY DEF Summarised
      <3>1. \A other \in Ids : Leftover[other] \subseteq OffsetsOf(other)
            BY <2>1, OffsetsType DEF TypeInv
      <3>2. /\ Medians(Leftover[id]) \subseteq Medians(OffsetsOf(id))
            /\ LeftMedians(id) \subseteq TheirMedians(id)
            BY <3>1 DEF Medians, LeftMedians, TheirMedians
      <3>3. summary[id] \in LeftSummaries(id)  BY DEF Init
      <3>4. PICK diff :
               /\ diff = {} \/ LeftDifference(id, diff)
               /\ \E o \in Medians(Leftover[id]) :
                     summary[id] = {[offset |-> o, diff |-> diff]}
            BY <3>3, LeftSummaryIs
      <3>5. \A d \in diff : Compared(id, d)
        <4> SUFFICES ASSUME NEW x \in Leftover[id], NEW list \in Seq(LeftMedians(id)),
                            Len(list) > 0
                     PROVE  Compared(id, Difference(x, list))
            BY <3>4 DEF LeftDifference
        <4>1. x \in OffsetsOf(id) /\ list \in Seq(TheirMedians(id))  BY <3>1, <3>2
        <4> QED  BY <2>1, <4>1, DifferenceCompared
      <3> QED  BY <3>2, <3>4, <3>5
    <2>3. OthersRead  BY DEF Init, OthersRead
    <2> QED  BY <2>2, <2>3 DEF CompareInv
  <1>2. CompareInv => ComparedWithOthers
        BY DEF CompareInv, Summarised, Compared, Theirs, ComparedWithOthers
  <1> QED  BY <1>1, <1>2, Typed, CompareStep, PTL DEF Spec
=============================================================================
