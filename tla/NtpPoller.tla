----------------------------- MODULE NtpPoller ------------------------------
(***************************************************************************)
(* The NTP pollers of src/net/ntp.rs: one task per entry of ntp_sources.   *)
(* A poll resolves the host, opens a socket connected to the first address *)
(* found, sends t1 and waits for one datagram or the timeout; a sample is  *)
(* stored, compared with the summaries of the other sources, and written   *)
(* to the summary of its own.  The time series a poller writes to are part *)
(* of FusionLoop.                                                          *)
(*                                                                         *)
(* Answers may be lost, late and duplicated: they stay in the network.  A  *)
(* port that was closed may be given to a later poll, which then gets the  *)
(* answers to the earlier one if both ask the same server.                 *)
(***************************************************************************)
EXTENDS PhcClock, TimeCalc, NtpTime, Lists, FiniteSets

CONSTANTS
    Sources,     \* cfg.ntp_sources, a sequence of [id, hosts]: addresses of host
    Server,      \* address -> [skew, echoes, synced]: a server's clock and manners
    Ports,       \* ephemeral ports
    Period,      \* poll_interval_ms
    Timeout,     \* timeout_ms
    Leftover,    \* [Ids -> SUBSET Int]: offsets an earlier run measured, which
                 \* the series and the summaries in the store may still hold
    Limit,       \* min_samples_per_peer
    StoreFails,  \* store operations may fail
    MaxPolls,    \* bound: polls of all sources
    MaxAnswers   \* bound: answers on the network

Servers == DOMAIN Server
Pollers == DOMAIN Sources
Ids == {Sources[w].id : w \in Pollers}

ASSUME PollerAssumption ==
    /\ Sources \in Seq([id: Nat, hosts: SUBSET Servers])
    /\ \A a \in Servers : Server[a] \in [skew: Nat, echoes: BOOLEAN, synced: BOOLEAN]
    /\ IsFiniteSet(Ports)
    /\ Period \in Nat \ {0} /\ Timeout \in Nat
    /\ Limit \in Nat \ {0} /\ StoreFails \in BOOLEAN
    /\ Leftover \in [Ids -> SUBSET Int]
    /\ MaxPolls \in Nat /\ MaxAnswers \in Nat
    \* No reading is the Unix epoch, which decodes to "missing".
    /\ \A c \in DOMAIN Lead : Lead[c] > 1

VARIABLES
    npc,      \* where a poller is
    nextPoll, \* deadline of its timer
    polls,    \* polls started by all of them
    poll,     \* the poll under way: its socket and t1, once sent
    queries,  \* datagrams sent to servers
    answers,  \* datagrams sent back
    taken,    \* the samples of a poller; the last is last_offset, _delay and _ts
    cursor,   \* compute_offset_vs_mean: the next source to look at
    others,   \* the offsets it has read
    summary   \* hash:ntp:ID:summary, twice offset_ns and offset_vs_mean

netVars == <<queries, answers>>
pollVars == <<npc, nextPoll, polls, poll, taken, cursor, others>>
vars == <<clockVars, pollVars, netVars, summary>>

\* What a summary may hold of the offsets measured, doubled: one of them, or the
\* half-sum of the two in the middle (robust_median).
Medians(offsets) == {a + b : a, b \in offsets}

\* compute_offset_vs_mean: an offset minus the mean of (doubled) other offsets.
Difference(offset, theirs) ==
    [num |-> 2 * Len(theirs) * offset - SumOf(theirs), den |-> 2 * Len(theirs),
     of |-> offset]

\* The store outlives the process.  The offset in a summary is one measured or a
\* median; the difference, if any, is to the summaries of the other sources.
LeftSummaries(id) ==
    LET rest == {v \in Pollers : Sources[v].id # id}
        theirs == UNION {Medians(Leftover[other]) : other \in Ids \ {id}}
        lists == UNION {[1 .. n -> theirs] : n \in 1 .. Cardinality(rest)}
        diffs == {{}} \cup {{Difference(o, l)} : o \in Leftover[id], l \in lists}
    IN  {{}} \cup {{[offset |-> o, diff |-> d]} : o \in Medians(Leftover[id]), d \in diffs}

Init ==
    /\ ClockInit
    /\ npc = [w \in Pollers |-> "tick"]
    /\ nextPoll = [w \in Pollers |-> 0]
    /\ polls = 0
    /\ poll = [w \in Pollers |-> {}]
    /\ queries = {} /\ answers = {}
    /\ taken = [w \in Pollers |-> <<>>]
    /\ cursor = [w \in Pollers |-> 1]
    /\ others = [w \in Pollers |-> <<>>]
    /\ summary \in [Ids -> UNION {LeftSummaries(id) : id \in Ids}]
    /\ \A id \in Ids : summary[id] \in LeftSummaries(id)

\* Time and the device.
Environment == ClockStep /\ UNCHANGED <<pollVars, netVars, summary>>

\* The timer catches up with the ticks it missed.
Tick(w) ==
    /\ npc[w] = "tick"
    /\ nextPoll[w] <= now
    /\ polls < MaxPolls
    /\ nextPoll' = [nextPoll EXCEPT ![w] = @ + Period]
    /\ polls' = polls + 1
    /\ npc' = [npc EXCEPT ![w] = "lookup"]
    /\ UNCHANGED <<clockVars, netVars, poll, taken, cursor, others, summary>>

\* Mutant of EndPoll: the socket stays open.
EndPollOpen(w) ==
    /\ npc' = [npc EXCEPT ![w] = "tick"]
    /\ UNCHANGED poll
EndPoll(w) ==
    /\ npc' = [npc EXCEPT ![w] = "tick"]
    /\ poll' = [poll EXCEPT ![w] = {}]

\* lookup_host fails, or finds nothing; or bind, connect or send fails.
PollFails(w) ==
    /\ npc[w] = "lookup"
    /\ EndPoll(w)
    /\ UNCHANGED <<clockVars, netVars, nextPoll, polls, taken, cursor, others, summary>>

PortsInUse == {p.port : p \in UNION {poll[w] : w \in Pollers}}

\* The first address is taken, whichever the resolver puts there.
Send(w) ==
    /\ npc[w] = "lookup"
    /\ fd' = Opened
    /\ \E a \in Sources[w].hosts, port \in Ports \ PortsInUse, c \in Clocks :
          IF c = "error" THEN EndPoll(w) /\ UNCHANGED queries
          ELSE LET p == [addr |-> a, port |-> port, t1 |-> Reading(c), clock |-> c,
                         sent |-> now, deadline |-> now + Timeout]
               IN  /\ poll' = [poll EXCEPT ![w] = {p}]
                   /\ queries' = queries \cup {p}
                   /\ npc' = [npc EXCEPT ![w] = "wait"]
    /\ UNCHANGED <<now, device, changes, answers, nextPoll, polls, taken, cursor,
                   others, summary>>

\* What a server that received a query then answers now.
AnswerTo(q, received) ==
    LET s == Server[q.addr]
        Stamped(t) == IF s.synced THEN ServerStamp(t + s.skew) ELSE NoStamp
    IN  [query |-> q,
         originate |-> IF s.echoes THEN encode_ntp_timestamp(q.t1) ELSE NoStamp,
         receive |-> Stamped(received),
         transmit |-> Stamped(now)]

\* A server answers from the address and to the port of the query.
Answer ==
    /\ Cardinality(answers) < MaxAnswers
    /\ \E q \in queries : \E received \in q.sent .. now :
          answers' = answers \cup {AnswerTo(q, received)}
    /\ UNCHANGED <<clockVars, pollVars, queries, summary>>

\* Mutant of T1Used: the echo is ignored.
LocalT1(p, answer) == p.t1
\* poll_once: the echoed time, or the own one where a server does not echo.
T1Used(p, answer) ==
    LET echo == decode_ntp_timestamp(answer.originate)
    IN  IF echo = 0 THEN p.t1 ELSE echo

\* Mutant of DriftSince: the offset itself instead of its change.
DriftOfOffset(prev, offset, ts) ==
    [num |-> offset, den |-> IF ts > prev.ts THEN ts - prev.ts ELSE 1]
\* drift_ppm, as a fraction; 0 when the timestamp did not grow.
DriftSince(prev, offset, ts) ==
    IF ts > prev.ts THEN [num |-> offset - prev.offset, den |-> ts - prev.ts]
                    ELSE [num |-> 0, den |-> 1]

\* The sample of an answer received when clock c reads t4, after those taken; with
\* the clock t1 was read on and whether the answer is to this very poll.
SampleOf(p, answer, c, before) ==
    LET t4 == Reading(c)
        calc == compute_offset_delay(T1Used(p, answer),
                    decode_ntp_timestamp(answer.receive),
                    decode_ntp_timestamp(answer.transmit), t4)
    IN  [offset |-> calc.offset, delay |-> calc.delay, ts |-> t4,
         drift |-> IF before = <<>> THEN [num |-> 0, den |-> 1]
                   ELSE DriftSince(before[Len(before)], calc.offset, t4),
         addr |-> p.addr,
         own |-> answer.query = p,
         echoed |-> answer.originate # NoStamp,
         clock1 |-> answer.query.clock, clock4 |-> c]

\* Mutant of Arrives: the socket is not connected.
ArrivesAtPort(answer, p) == answer.query.port = p.port
\* The socket is connected: it gets what comes from its server to its port.
Arrives(answer, p) == answer.query.port = p.port /\ answer.query.addr = p.addr

\* The sample goes to the store (FusionLoop) and then to the comparison.
Receive(w) ==
    /\ npc[w] = "wait"
    /\ fd' = Opened
    /\ \E p \in poll[w], answer \in answers, c \in Clocks :
          /\ Arrives(answer, p)
          /\ IF c = "error" THEN EndPoll(w) /\ UNCHANGED taken
             ELSE /\ taken' = [taken EXCEPT ![w] =
                        Append(@, SampleOf(p, answer, c, @))]
                  /\ npc' = [npc EXCEPT ![w] = "compare"]
                  /\ poll' = [poll EXCEPT ![w] = {}]
    /\ cursor' = [cursor EXCEPT ![w] = 1]
    /\ others' = [others EXCEPT ![w] = <<>>]
    /\ UNCHANGED <<now, device, changes, netVars, nextPoll, polls, summary>>

\* A short datagram, or an error of the socket.
RecvFails(w) ==
    /\ npc[w] = "wait"
    /\ EndPoll(w)
    /\ UNCHANGED <<clockVars, netVars, nextPoll, polls, taken, cursor, others, summary>>

\* Mutant of TimedOut: the timer is set on receipt of something.
TimedOutIfAnswered(p) == p.deadline <= now /\ \E a \in answers : a.query = p
TimedOut(p) == p.deadline <= now
\* The timer fires; a datagram that waits is taken first (Receive).
TimeoutPoll(w) ==
    /\ npc[w] = "wait"
    /\ \E p \in poll[w] : TimedOut(p)
    /\ EndPoll(w)
    /\ UNCHANGED <<clockVars, netVars, nextPoll, polls, taken, cursor, others, summary>>

\* Mutant of IsOther: a source is compared with itself.
EverySource(w, i) == TRUE
IsOther(w, i) == Sources[i].id # Sources[w].id
\* compute_offset_vs_mean reads one summary after another, those of sources that
\* share an id as often as they are listed.
CompareOne(w) ==
    /\ npc[w] = "compare"
    /\ cursor[w] <= Len(Sources)
    /\ \E found \in {summary[Sources[cursor[w]].id]}
                    \cup (IF StoreFails THEN {{}} ELSE {}) :
          others' = [others EXCEPT ![w] =
             IF IsOther(w, cursor[w]) /\ found # {}
             THEN Append(@, (CHOOSE s \in found : TRUE).offset) ELSE @]
    /\ cursor' = [cursor EXCEPT ![w] = @ + 1]
    /\ UNCHANGED <<clockVars, netVars, npc, nextPoll, polls, poll, taken, summary>>

\* HSET leaves the difference of an earlier poll in place when there is nothing
\* to compare with.  The ping before it takes its time; its result is left out.
WriteSummary(w) ==
    /\ npc[w] = "compare"
    /\ cursor[w] > Len(Sources)
    /\ LET id == Sources[w].id
           offset == taken[w][Len(taken[w])].offset
           kept == UNION {s.diff : s \in summary[id]}
           written == {[offset |-> 2 * offset,
                        diff |-> IF others[w] = <<>> THEN kept
                                 ELSE {Difference(offset, others[w])}]}
       IN  \E hash \in {written} \cup (IF StoreFails THEN {summary[id]} ELSE {}) :
              summary' = [summary EXCEPT ![id] = hash]
    /\ npc' = [npc EXCEPT ![w] = "tick"]
    /\ UNCHANGED <<clockVars, netVars, nextPoll, polls, poll, taken, cursor, others>>

\* What the series of a source may hold: its samples, and those of an earlier run,
\* which may have measured an offset more than once.
Entries(id) ==
    {[by |-> 0, nth |-> n, offset |-> o] : n \in 1 .. Limit, o \in Leftover[id]} \cup
        UNION {{[by |-> w, nth |-> i, offset |-> taken[w][i].offset] : i \in DOMAIN taken[w]} :
                  w \in {v \in Pollers : Sources[v].id = id}}
OffsetsOf(id) == {e.offset : e \in Entries(id)}

\* The fusion loop writes the median of the source's last offsets to the same hash,
\* if there are Limit of them: one of them, or half the sum of two.  Which of them are
\* within the window, and which were never stored, is left open.
FusionSummary ==
    /\ \E id \in Ids : \E e, f \in Entries(id) :
          /\ Cardinality(Entries(id)) >= Limit
          /\ e = f <=> Limit % 2 = 1
          /\ summary' = [summary EXCEPT ![id] =
                {[offset |-> e.offset + f.offset, diff |-> UNION {s.diff : s \in @}]}]
    /\ UNCHANGED <<clockVars, pollVars, netVars>>

Poller(w) ==
    \/ Tick(w) \/ PollFails(w) \/ Send(w)
    \/ Receive(w) \/ RecvFails(w) \/ TimeoutPoll(w)
    \/ CompareOne(w) \/ WriteSummary(w)
Next ==
    \/ Environment
    \/ Answer
    \/ FusionSummary
    \/ \E w \in Pollers : Poller(w)

Spec == Init /\ [][Next]_vars

\* Time passes, timers fire and store operations return; no server and no
\* resolver has to answer, and no socket has to fail.
FairSpec ==
    /\ Spec
    /\ WF_vars(Advance /\ UNCHANGED <<pollVars, netVars, summary>>)
    /\ \A w \in Pollers :
          /\ WF_vars(TimeoutPoll(w))
          /\ WF_vars(CompareOne(w) \/ WriteSummary(w))
-----------------------------------------------------------------------------
(***************************************************************************)
(* Properties.                                                             *)
(***************************************************************************)
TypeOK ==
    /\ ClockTypeOK
    /\ npc \in [Pollers -> {"tick", "lookup", "wait", "compare"}]
    /\ nextPoll \in [Pollers -> Nat] /\ polls \in 0 .. MaxPolls
    /\ \A w \in Pollers :
          /\ Cardinality(poll[w]) = (IF npc[w] = "wait" THEN 1 ELSE 0)
          /\ Len(taken[w]) <= polls
          /\ cursor[w] \in 1 .. Len(Sources) + 1 /\ Len(others[w]) < cursor[w]
    /\ poll \in [Pollers -> SUBSET queries]
    /\ \A a \in answers : a.query \in queries /\ a.originate \in Stamp
    /\ \A id \in Ids : Cardinality(summary[id]) <= 1

Samples == UNION {{taken[w][i] : i \in DOMAIN taken[w]} : w \in Pollers}

\* What the four encoded and halved timestamps may lose, in nanoseconds.
Loss == IF FracPerSec % NsPerSec = 0 THEN 0 ELSE 2

\* The offset of the server's clock to the clock t4 was read on.
TrueOffset(s) == Server[s.addr].skew - Lead[s.clock4]

\* t1 and t4 are of one exchange and one clock, and the server knows the time.
OneExchange(s) ==
    /\ s.clock1 = s.clock4
    /\ Server[s.addr].synced
    /\ s.own \/ s.echoed

\* poll_once: however late the answer is, and though a port may be given to a later
\* poll, the offset of a sample is within half its delay of the true one if
\* the server echoes t1; if it does not, when the answer is to this poll.
NtpSampleAccurate ==
    \A s \in Samples : OneExchange(s) =>
        2 * Abs(s.offset - TrueOffset(s)) <= s.delay + 1 + Loss

\* PhcReader::now_ns in poll_once: the device is opened once and kept, so that a poll
\* or a poller may go from CLOCK_TAI to the PHC when it is found, and never back:
\* when the device is lost the readings fail rather than jump to another clock.
ClockKept ==
    \A w \in Pollers : \A i \in DOMAIN taken[w] :
        LET s == taken[w][i]
        IN  /\ s.own /\ s.clock1 = "phc" => s.clock4 = "phc"
            /\ \A j \in 1 .. i - 1 : taken[w][j].clock4 = "phc" => s.clock4 = "phc"

\* spawn_ntp_pollers: between two samples of the same server and clock the drift
\* stored is the change of the clocks' offset, up to the delays of both.
DriftWithinDelays ==
    \A w \in Pollers : \A i \in 2 .. Len(taken[w]) :
        LET s == taken[w][i]  prev == taken[w][i - 1]
        IN  OneExchange(s) /\ OneExchange(prev)
            /\ s.addr = prev.addr /\ s.clock4 = prev.clock4
            => 2 * Abs(s.drift.num) <= s.delay + prev.delay + 2 * (1 + Loss)

\* compute_offset_vs_mean: whatever pollers and fusion loop write meanwhile, and an
\* earlier run left, the difference stored is that of an offset measured of the
\* source to a mean of offsets and medians of sources with other ids, never its own.
ComparedWithOthers ==
    \A id \in Ids : \A d \in UNION {s.diff : s \in summary[id]} :
        LET theirs == UNION {OffsetsOf(other) : other \in Ids \ {id}}
        IN  /\ d.of \in OffsetsOf(id)
            /\ \E low, high \in theirs :
                  /\ (d.of - high) * d.den <= d.num
                  /\ d.num <= (d.of - low) * d.den

\* poll_once: a poll ends, by an answer, an error or its timeout, whether or
\* not the server answers, if time goes on until its deadline, and the comparison
\* after it ends as well.
Polling ==
    {w \in Pollers :
        \/ npc[w] = "wait" /\ \A p \in poll[w] : p.deadline <= MaxTime
        \/ npc[w] = "compare"}
EveryPollEnds == (Polling # {}) ~> (Polling = {})

\* PhcReader::now_ns: "Returns the best time source available (PHC if configured,
\* otherwise TAI/REALTIME)" (reader.rs:50), whatever becomes of the device: when it is
\* lost "PHC access failed; falling back to system clock" (reader.rs:76).
SomeClockIsRead == Clocks # {"error"}

\* poll_once: "receive timestamp missing", "transmit timestamp missing" (ntp.rs:198):
\* a sample comes from a server that gave both.
NoMadeUpTimes == \A s \in Samples : Server[s.addr].synced
=============================================================================
