----------------------------- MODULE FusionLoop -----------------------------
(***************************************************************************)
(* The fusion loop of src/net/node.rs with the time series it shares,      *)
(* through the store, with the tasks that measure: rx_loop, which stores a *)
(* sample of a peer, and one poller per NTP source (src/net/ntp.rs).  A    *)
(* sample is stored by separate writes of offset, delay and jitter; the    *)
(* loop reads the three series of every source one after another, fuses,   *)
(* smooths and publishes, each store operation being awaited.  Every store *)
(* operation may fail when StoreFails holds.                               *)
(*                                                                         *)
(* `now` is the system clock the loop reads; samples are stamped with the  *)
(* node's best clock, which is ahead of it by Lead (a PHC or CLOCK_TAI     *)
(* keeps TAI).  Medians, and what is computed from them, are doubled as in *)
(* Fuse.  The process may be killed and started again at any time; the     *)
(* store outlives it.  What adjtimex makes of a correction is left out.    *)
(***************************************************************************)
EXTENDS Fuse, Drift, Slew, Telemetry

CONSTANTS
    Self,         \* node_id
    Peers,        \* cfg.peers, a sequence of [id, weight]
    Ntps,         \* cfg.ntp_sources, likewise
    Offsets, Delays, Jitters,  \* values a measurement may have
    Limit,        \* filter.min_samples_per_peer.max(1)
    Window,       \* sampling.window_sec
    Lead,         \* clock of the samples minus system clock
    Period,       \* ticks of the loop (1 s)
    RingMax,      \* entries of fused_ring (512)
    Control,      \* mode.control_enable and not mode.observer_only
    Fresh,        \* age at which /health finds the loop stale (5 s)
    StoreFails,   \* store operations may fail
    PhcFails,     \* phc_system_offset may fail
    MaxTime,      \* bound: the clock stops there
    MaxSamples,   \* bound: samples stored
    MaxRestarts   \* bound: restarts of the process

ASSUME FusionAssumption ==
    /\ Self \in Nat
    /\ Peers \in Seq([id: Nat, weight: Nat \ {0}])
    /\ Ntps \in Seq([id: Nat, weight: Nat \ {0}])
    /\ Offsets \subseteq Int /\ Delays \subseteq Int /\ Jitters \subseteq Nat
    /\ Limit \in Nat \ {0} /\ Window \in Nat /\ Lead \in Int
    /\ Period \in Nat \ {0} /\ RingMax \in Nat \ {0}
    /\ Control \in BOOLEAN /\ Fresh \in Nat
    /\ StoreFails \in BOOLEAN /\ PhcFails \in BOOLEAN
    /\ MaxTime \in Nat /\ MaxSamples \in Nat /\ MaxRestarts \in Nat

VARIABLES
    now,        \* system clock
    stored,     \* samples taken so far; stands for SAMPLE_COUNTER, which a restart
                \* resets: entries of two runs still differ, in their times
    series,     \* ts:<kind>:<id>:<field>, sets of [ts, val, n]
    writing,    \* per writer, the sample it is storing and the next field
    summary,    \* hash:<kind>:<id>:summary
    fpc,        \* where run_fusion_iteration is
    due,        \* deadline of the loop's timer
    started,    \* when the iteration read the clock for `since`
    at,         \* the source it reads
    got,        \* what it has read of this source
    samples,    \* the PeerSamples of the iteration, with what they come from
    ewma,       \* WeightedEwma: the state, once initialised (Option)
    ring,       \* fused_ring
    fusedEwma,  \* the last entry of ts:fused:ewma, with what it rests on
    fusedSummary, \* smoothed_offset_ns of hash:fused:summary
    corrected,  \* the last correction handed to adjtimex
    cut,        \* history: the last iteration to publish ended before its summary
    restarts,   \* how often the process was started again
    measured    \* history: the offsets ever measured of a source

storeVars == <<stored, series, writing, summary, measured>>
valueVars == <<ewma, ring, fusedEwma, fusedSummary, corrected>>
outVars == <<valueVars, cut>>
vars == <<now, restarts, storeVars, fpc, due, started, at, got, samples, outVars>>

Fields == {"offset", "delay", "jitter"}
Key(kind, s) == [kind |-> kind, id |-> s.id]
\* cfg.peers without the node itself.
Others ==
    LET Without[i \in 0 .. Len(Peers)] ==
            IF i = 0 THEN <<>>
            ELSE IF Peers[i].id = Self THEN Without[i - 1]
            ELSE Append(Without[i - 1], Peers[i])
    IN  Without[Len(Peers)]
\* The order in which run_fusion_iteration reads.
Sources ==
    [i \in DOMAIN Others |-> [key |-> Key("peer", Others[i]), weight |-> Others[i].weight]]
    \o [i \in DOMAIN Ntps |-> [key |-> Key("ntp", Ntps[i]), weight |-> Ntps[i].weight]]
Keys == {Sources[i].key : i \in DOMAIN Sources}

\* The kind of a summary is looked up by the sample's id, among the peers first.
SummaryKey(id) ==
    [kind |-> IF \E i \in DOMAIN Peers : Peers[i].id = id THEN "peer"
              ELSE IF \E i \in DOMAIN Ntps : Ntps[i].id = id THEN "ntp"
              ELSE "peer",
     id |-> id]

HashKeys == Keys \cup {SummaryKey(k.id) : k \in Keys}

\* rx_loop stores the samples of all peers; every entry of ntp_sources has a
\* poller of its own, also when two entries have the same id.
Writers == {0} \cup DOMAIN Ntps
KeysOf(w) ==
    IF w = 0 THEN {Key("peer", Others[i]) : i \in DOMAIN Others}
             ELSE {Key("ntp", Ntps[w])}
WritersOf(key) == {w \in Writers : key \in KeysOf(w)}

Entry == [ts: Int, val: Int, n: Nat]
NoReading == [offset |-> {}, delay |-> {}, jitter |-> {}]

TypeOK ==
    /\ now \in Nat /\ stored \in Nat /\ due \in Nat /\ started \in Nat
    /\ restarts \in 0 .. MaxRestarts
    /\ \A k \in Keys, f \in Fields : series[k][f] \subseteq Entry
    /\ \A w \in Writers : \A x \in writing[w] :
          /\ x.key \in KeysOf(w)
          /\ x.next \in Fields \cup {"summary"}
    /\ \A k \in HashKeys : Cardinality(summary[k]) <= 1
    /\ fpc \in {"wait", "offset", "delay", "jitter", "publish", "phc", "summary"}
    /\ at \in Nat /\ (fpc \in {"delay", "jitter"} => at \in DOMAIN Sources)
    /\ \A f \in Fields : got[f] \subseteq Entry /\ Cardinality(got[f]) <= Limit
    /\ Len(samples) < at
    /\ Cardinality(ewma) <= 1 /\ Cardinality(corrected) <= 1 /\ cut \in BOOLEAN

Init ==
    /\ now = 0 /\ stored = 0 /\ due = 0 /\ started = 0
    /\ series = [k \in Keys |-> [f \in Fields |-> {}]]
    /\ writing = [w \in Writers |-> {}]
    /\ summary = [k \in HashKeys |-> {}]
    /\ measured = [k \in Keys |-> {}]
    /\ fpc = "wait" /\ at = 1 /\ got = NoReading /\ samples = <<>>
    /\ ewma = {} /\ ring = <<>> /\ fusedEwma = {} /\ fusedSummary = {}
    /\ corrected = {} /\ cut = FALSE /\ restarts = 0

Advance ==
    /\ now < MaxTime
    /\ now' = now + 1
    /\ UNCHANGED <<restarts, storeVars, fpc, due, started, at, got, samples, outVars>>

(***************************************************************************)
(* The store.                                                              *)
(***************************************************************************)
\* Outcomes of a write: done, not done, or done without the clean-up.
Outcomes == IF StoreFails THEN {"done", "lost", "untrimmed"} ELSE {"done"}

\* ts_add: ZADD, then entries up to the cutoff are removed.
ts_add(set, e, window, outcome) ==
    CASE outcome = "lost" -> set
      [] outcome = "done" /\ window > 0 ->
            {x \in set \cup {e} : x.ts > AtLeast(e.ts - window, 0)}
      [] OTHER -> set \cup {e}

\* Mutant of ts_recent: no limit.
RecentUnlimited(set, since, limit) == {{x \in set : x.ts >= since}}

\* ts_recent: the `limit` newest entries since `since`; the order of entries with
\* equal scores is that of their member strings, so any of them may be left out.
ts_recent(set, since, limit) ==
    LET E == {x \in set : x.ts >= since}
    IN  {R \in SUBSET E :
            /\ Cardinality(R) = AtMost(limit, Cardinality(E))
            /\ \A r \in R, x \in E \ R : x.ts <= r.ts}

(***************************************************************************)
(* The measuring tasks: handle_response and the NTP pollers.               *)
(***************************************************************************)
Measure(w) ==
    /\ writing[w] = {}
    /\ stored < MaxSamples
    /\ stored' = stored + 1
    /\ \E k \in KeysOf(w), o \in Offsets, d \in Delays, j \in Jitters :
          /\ writing' = [writing EXCEPT ![w] =
                {[key |-> k, next |-> "offset", ts |-> now + Lead, n |-> stored,
                  offset |-> o, delay |-> d, jitter |-> j]}]
          /\ measured' = [measured EXCEPT ![k] = @ \cup {o}]
    /\ UNCHANGED <<now, restarts, series, summary, fpc, due, started, at, got, samples,
                   outVars>>

\* Mutant of NextField: the jitter is not written.
JitterForgotten(x) ==
    CASE x.next = "offset" -> {[x EXCEPT !.next = "delay"]}
      [] x.next = "delay" /\ x.key.kind = "ntp" -> {[x EXCEPT !.next = "summary"]}
      [] OTHER -> {}

NextField(x) ==
    CASE x.next = "offset" -> {[x EXCEPT !.next = "delay"]}
      [] x.next = "delay" -> {[x EXCEPT !.next = "jitter"]}
      [] x.next = "jitter" /\ x.key.kind = "ntp" -> {[x EXCEPT !.next = "summary"]}
      [] OTHER -> {}

\* The pollers take a window of 0 as 1; the other tasks keep everything then.
WindowOf(w) == IF w = 0 THEN Window ELSE AtLeast(Window, 1)

\* One ts_add of the sample; its error is ignored.
WriteField(w) ==
    /\ \E x \in writing[w], outcome \in Outcomes :
          /\ x.next \in Fields
          /\ series' = [series EXCEPT ![x.key][x.next] =
                ts_add(@, [ts |-> x.ts, val |-> x[x.next], n |-> x.n],
                       WindowOf(w), outcome)]
          /\ writing' = [writing EXCEPT ![w] = NextField(x)]
    /\ UNCHANGED <<now, restarts, stored, summary, measured, fpc, due, started, at, got,
                   samples, outVars>>

\* One HSET writes all the fields.
hm_set(hash, fields, outcome) == IF outcome = "lost" THEN hash ELSE {fields}

\* Mutant of ScoreOf: the jitter is left out.
ScoreOfDelay(x) == 2 * Magnitude(x.delay)
ScoreOf(x) == 2 * (Magnitude(x.delay) + x.jitter)

\* A poller ends with the summary hash the fusion loop writes as well; the hash
\* holds the latest values here, and medians (doubled, both) when fused.
WriteSummary(w) ==
    /\ \E x \in writing[w], outcome \in Outcomes :
          /\ x.next = "summary"
          /\ summary' = [summary EXCEPT ![x.key] =
                hm_set(@, [offset |-> 2 * x.offset, delay |-> 2 * x.delay,
                           jitter |-> 2 * x.jitter,
                           score |-> ScoreOf(x)], outcome)]
          /\ writing' = [writing EXCEPT ![w] = {}]
    /\ UNCHANGED <<now, restarts, stored, series, measured, fpc, due, started, at, got,
                   samples, outVars>>

(***************************************************************************)
(* run_fusion_iteration.                                                   *)
(***************************************************************************)
\* The loop does nothing at all without peers, whatever NTP sources there are.
Tick ==
    /\ fpc = "wait"
    /\ due <= now
    /\ Peers # <<>>
    /\ due' = due + Period
    /\ started' = now
    /\ at' = 1
    /\ samples' = <<>>
    /\ got' = NoReading
    /\ fpc' = "offset"
    /\ UNCHANGED <<now, restarts, storeVars, outVars>>

\* Mutant of since: the window is not applied on reading.
SinceEver == 0
since == AtLeast(started - Window, 0)
Reading(field) == ts_recent(series[Sources[at].key][field], since, Limit)

\* Mutants of ReadOffset: the offsets are not counted; a source with too few ends
\* the iteration.
ReadUncounted ==
    /\ fpc = "offset"
    /\ at \in DOMAIN Sources
    /\ \E R \in Reading("offset") :
          got' = [NoReading EXCEPT !.offset = R] /\ fpc' = "delay" /\ at' = at
    /\ UNCHANGED <<now, restarts, storeVars, due, started, samples, outVars>>
ReadOrReturn ==
    /\ fpc = "offset"
    /\ at \in DOMAIN Sources
    /\ \E R \in Reading("offset") :
          IF Cardinality(R) < Limit
          THEN fpc' = "wait" /\ UNCHANGED <<got, at>>
          ELSE got' = [NoReading EXCEPT !.offset = R] /\ fpc' = "delay" /\ at' = at
    /\ UNCHANGED <<now, restarts, storeVars, due, started, samples, outVars>>

\* A source with too few offsets is passed over.
ReadOffset ==
    /\ fpc = "offset"
    /\ at \in DOMAIN Sources
    /\ \E R \in Reading("offset") :
          IF Cardinality(R) < Limit
          THEN at' = at + 1 /\ UNCHANGED <<got, fpc>>
          ELSE got' = [NoReading EXCEPT !.offset = R] /\ fpc' = "delay" /\ at' = at
    /\ UNCHANGED <<now, restarts, storeVars, due, started, samples, outVars>>

ReadDelay ==
    /\ fpc = "delay"
    /\ \E R \in Reading("delay") : got' = [got EXCEPT !.delay = R]
    /\ fpc' = "jitter"
    /\ UNCHANGED <<now, restarts, storeVars, due, started, at, samples, outVars>>

\* The values of a reading, whose order no median depends on.
Vals(R) ==
    LET seq == CHOOSE f \in [1 .. Cardinality(R) -> R] : \A r \in R : \E i \in DOMAIN f : f[i] = r
    IN  [i \in DOMAIN seq |-> seq[i].val]

ReadJitter ==
    /\ fpc = "jitter"
    /\ \E R \in Reading("jitter") :
          samples' = Append(samples,
                [stats |-> from_series(Sources[at].key.id, Sources[at].weight,
                              Vals(got.offset), Vals(got.delay), Vals(R)),
                 used |-> [got EXCEPT !.jitter = R]])
    /\ got' = NoReading
    /\ at' = at + 1
    /\ fpc' = "offset"
    /\ UNCHANGED <<now, restarts, storeVars, due, started, outVars>>

\* ts_recent(..).await? ends the iteration.
ReadFails ==
    /\ StoreFails
    /\ fpc \in {"offset", "delay", "jitter"}
    /\ at \in DOMAIN Sources
    /\ fpc' = "wait"
    /\ samples' = <<>>
    /\ got' = NoReading
    /\ UNCHANGED <<now, restarts, storeVars, due, started, at, outVars>>

NothingToFuse ==
    /\ fpc = "offset"
    /\ at \notin DOMAIN Sources
    /\ samples = <<>>
    /\ fpc' = "wait"
    /\ UNCHANGED <<now, restarts, storeVars, due, started, at, got, samples, outVars>>

Stats == [i \in DOMAIN samples |-> samples[i].stats]
MeanOf(kept) == mean_offset(kept).num \div mean_offset(kept).den
\* The fused offset, as a singleton.
FusedOffsets == {MeanOf(kept) : kept \in {Kept(select_best_peers(Stats))}}

\* Mutant of PushEwma: the state starts at 0.
PushFromZero ==
    /\ fpc = "offset"
    /\ at \notin DOMAIN Sources
    /\ samples # <<>>
    /\ \E raw \in FusedOffsets :
       \E old \in (IF ewma = {} THEN {0} ELSE ewma) :
       \E v \in AtMost(old, raw) .. AtLeast(old, raw) :
          ewma' = {v}
    /\ fpc' = "publish"
    /\ UNCHANGED <<now, restarts, storeVars, due, started, at, got, samples, ring, fusedEwma,
                   fusedSummary, corrected, cut>>

\* WeightedEwma::push: the first value as it is, then a mean of state and value
\* with some factor in [0, 1]; the loop's clock is read again.
PushEwma ==
    /\ fpc = "offset"
    /\ at \notin DOMAIN Sources
    /\ samples # <<>>
    /\ \E raw \in FusedOffsets :
       \E old \in (IF ewma = {} THEN {raw} ELSE ewma) :
       \E v \in AtMost(old, raw) .. AtLeast(old, raw) :
          ewma' = {v}
    /\ fpc' = "publish"
    /\ UNCHANGED <<now, restarts, storeVars, due, started, at, got, samples, ring, fusedEwma,
                   fusedSummary, corrected, cut>>

Gathered == {samples[i] : i \in DOMAIN samples}

\* `smoothed as i64`, of a doubled value: towards zero.
Whole(v) == IF v >= 0 THEN 2 * (v \div 2) ELSE -(2 * ((-v) \div 2))

\* Mutant of Published: the value before smoothing.
PublishedRaw(v) ==
    [ts |-> now, val |-> CHOOSE raw \in FusedOffsets : TRUE, from |-> started, newest |-> now]
\* The entry of ts:fused:ewma, with its iteration's start and the time of the newest
\* measurement it rests on.
Published(v) ==
    LET times == {e.ts - Lead : e \in UNION {s.used.offset : s \in Gathered}}
    IN  [ts |-> now, val |-> v, from |-> started,
         newest |-> CHOOSE t \in times : \A u \in times : u <= t]

\* Mutants of Pushed: the ring is not cut; it is cut at its new end.
PushedUncut(v) == Append(ring, [t |-> now, o |-> Whole(v)])
PushedIfRoom(v) ==
    IF Len(ring) < RingMax THEN Append(ring, [t |-> now, o |-> Whole(v)]) ELSE ring
\* The ring with one more entry, for which the oldest ones make room.
Pushed(v) ==
    LET longer == Append(ring, [t |-> now, o |-> Whole(v)])
    IN  SubSeq(longer, AtLeast(Len(longer) - RingMax, 0) + 1, Len(longer))

\* Mutant of Correction: the doubled value is handed on.
CorrectionTwice(v, entries) == apply([num |-> v, den |-> 1], [num |-> 0, den |-> 1])
\* What slew::apply is called with; smoothed value and ring are doubled.
Correction(v, entries) ==
    LET slope == linreg_slope_ppm(entries)
    IN  apply([num |-> v, den |-> 2], [slope EXCEPT !.den = 2 * @])

\* The clock is read, the smoothed offset is added to ts:fused:ewma and to the
\* ring; with three entries there is a drift, and maybe a correction.
Publish ==
    /\ fpc = "publish"
    /\ \E v \in ewma, outcome \in Outcomes :
          /\ fusedEwma' = hm_set(fusedEwma, Published(v), outcome)
          /\ ring' = Pushed(v)
          /\ corrected' = IF Control /\ Len(ring') >= 3
                          THEN {Correction(v, ring')} ELSE corrected
    /\ fpc' = "phc"
    /\ UNCHANGED <<now, restarts, storeVars, due, started, at, got, samples, ewma,
                   fusedSummary, cut>>

\* phc_system_offset()? ends the iteration on an error.
ReadPhc ==
    /\ fpc = "phc"
    /\ \/ fpc' = "summary" /\ UNCHANGED <<samples, cut>>
       \/ PhcFails /\ fpc' = "wait" /\ samples' = <<>> /\ cut' = TRUE
    /\ UNCHANGED <<now, restarts, storeVars, due, started, at, got, valueVars>>

\* Sources that share an id share the samples' hash.
SummarizeSource ==
    /\ fpc = "summary"
    /\ samples # <<>>
    /\ LET s == Head(samples).stats IN
       \E outcome \in Outcomes :
          summary' = [summary EXCEPT ![SummaryKey(s.peer_id)] =
              hm_set(@, [offset |-> s.offset, delay |-> s.delay,
                         jitter |-> s.jitter, score |-> peer_score(s)], outcome)]
    /\ samples' = Tail(samples)
    /\ UNCHANGED <<now, restarts, stored, series, writing, measured, fpc, due, started, at,
                   got, outVars>>

SummarizeFused ==
    /\ fpc = "summary"
    /\ samples = <<>>
    /\ \E v \in ewma, outcome \in Outcomes :
          fusedSummary' = hm_set(fusedSummary, v, outcome)
    /\ fpc' = "wait" /\ cut' = FALSE
    /\ UNCHANGED <<now, restarts, storeVars, due, started, at, got, samples, ewma, ring,
                   fusedEwma, corrected>>

\* The process is killed, or ends as a task panics, and is started again: samples
\* half stored stay so, the smoothed value and the ring begin anew.
Restart ==
    /\ restarts < MaxRestarts
    /\ restarts' = restarts + 1
    /\ writing' = [w \in Writers |-> {}]
    /\ fpc' = "wait" /\ due' = now /\ started' = now
    /\ at' = 1 /\ got' = NoReading /\ samples' = <<>>
    /\ ewma' = {} /\ ring' = <<>> /\ cut' = FALSE
    /\ UNCHANGED <<now, stored, series, summary, measured, fusedEwma, fusedSummary,
                   corrected>>

Write(w) == WriteField(w) \/ WriteSummary(w)
Iterate ==
    \/ Tick \/ ReadOffset \/ ReadDelay \/ ReadJitter \/ ReadFails
    \/ NothingToFuse \/ PushEwma \/ Publish \/ ReadPhc
    \/ SummarizeSource \/ SummarizeFused
Next ==
    \/ Advance \/ Restart
    \/ \E w \in Writers : Measure(w) \/ Write(w)
    \/ Iterate

Spec == Init /\ [][Next]_vars

\* Time passes and the runtime keeps polling every task; nothing has to answer.
FairSpec ==
    /\ Spec
    /\ WF_vars(Advance)
    /\ WF_vars(Iterate)
    /\ \A w \in Writers : WF_vars(Write(w))
-----------------------------------------------------------------------------
(***************************************************************************)
(* Properties.                                                             *)
(***************************************************************************)
UsedOf(s) == UNION {s.used[f] : f \in Fields}

\* run_fusion_iteration: what it fuses was measured at most the configured window
\* before the iteration began, "Sliding window size for statistics (seconds)."
\* (config.rs:17), also when a source has stopped answering.
WindowHonoured ==
    \A s \in Gathered : \A e \in UsedOf(s) : started - (e.ts - Lead) <= Window

\* run_fusion_iteration, handle_response: the three series are read while they
\* are being written; as long as nothing is lost, and fewer tasks write a source
\* than offsets are required of it, no median of an empty series (0.0, the best
\* of scores) gets into the statistics.
DelaysKnown ==
    ~ StoreFails /\ restarts = 0 =>
        \A s \in Gathered :
            \A key \in Keys :
                /\ key.id = s.stats.peer_id
                /\ \A other \in Keys : other.id = key.id => other = key
                /\ Cardinality(WritersOf(key)) < Limit
                => s.used.delay # {} /\ s.used.jitter # {}

\* run_fusion_iteration: a sample it fuses rests on min_samples_per_peer values of
\* each kind, "Minimum samples required per peer in the window." (config.rs:32).
MinSamplesEach ==
    \A s \in Gathered : \A f \in Fields : Cardinality(s.used[f]) >= Limit

\* WeightedEwma, TrimmedStats, PeerSample: whatever is lost, late or torn, the
\* smoothed offset and the ring the drift comes from stay between the smallest and
\* the largest offset ever measured: no default value leaks in.
SmoothedInHull ==
    LET all == {2 * o : o \in UNION {measured[k] : k \in Keys}}
        Inside(v) == \E a, b \in all : a <= v /\ v <= b
    IN  /\ \A v \in ewma \cup {e.val : e \in fusedEwma} \cup fusedSummary : Inside(v)
        /\ \A i \in DOMAIN ring : Inside(ring[i].o)

\* run_fusion_iteration: also when the iteration ends early with an error, the
\* smoothed value, the ring and the published series agree, and the ring is short,
\* in order of time and as new as what was published.  The summary agrees but
\* from an iteration that the PHC ended after it published to the next that ends well.
OutputsAgree ==
    fpc = "wait" =>
        /\ Len(ring) <= RingMax
        /\ \A i, j \in DOMAIN ring : i < j => ring[i].t <= ring[j].t
        /\ ring = <<>> <=> ewma = {}
        /\ \A v \in ewma : ring[Len(ring)].o = Whole(v)
        /\ \A e \in fusedEwma : ewma # {} => e.ts <= ring[Len(ring)].t
        /\ ~ StoreFails /\ ewma # {} => {e.val : e \in fusedEwma} = ewma
        /\ ~ StoreFails /\ ~ cut /\ ewma # {} => fusedSummary = ewma

\* slew::apply in run_fusion_iteration: whatever was torn, lost or restarted, the
\* clock is never pushed farther than the farthest offset ever measured, nor
\* against the sign of all of them.
CorrectionInHull ==
    \A c \in corrected :
        LET all == UNION {measured[k] : k \in Keys}
        IN  /\ \E o \in all : c.offset * NsPerUs <= AtLeast(o, 0)
            /\ \E o \in all : AtMost(o, 0) <= c.offset * NsPerUs

\* health: "ok" means that a source was measured at most the window, the duration of
\* an iteration and the freshness limit ago, also after a restart, when the
\* entry may be one of the run before.
HealthyIsRecent ==
    health(now, {e.ts : e \in fusedEwma}, FALSE, Fresh) = "ok" =>
        \E e \in fusedEwma : now - e.newest < Fresh + Window + (e.ts - e.from)

\* hm_set by the pollers and by run_fusion_iteration: when no two sources have
\* the same id, a summary holds offsets measured of its own source only, and the
\* score that belongs to its delay and jitter, whoever wrote it last.
SummaryOfItsSource ==
    (\A k, m \in Keys : k.id = m.id => k = m) =>
        \A k \in Keys : \A h \in summary[k] :
            /\ \E a, b \in measured[k] : 2 * a <= h.offset /\ h.offset <= 2 * b
            /\ h.score = Magnitude(h.delay) + h.jitter

\* fusion_loop: a source with enough offsets in the store is fused, if the loop
\* has an iteration left, the window is too long for them to expire and the
\* process is not started again.
EnoughIsFused ==
    (/\ fpc = "wait" /\ due <= MaxTime
     /\ \E k \in Keys : Cardinality(series[k].offset) >= Limit)
    ~> ewma # {} \/ restarts > 0
=============================================================================
