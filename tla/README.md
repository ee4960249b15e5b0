# Zeitpeer: specifications, model checking and proofs

TLA+ modules for the Zeitpeer daemon, written in Rust. Paths below are relative to the
crate's source directory (`src/src/src`). TLC checks small instances, TLAPS proves the
theorems named here for every value of the constants.

## 1. The system

A node is one process. It probes its peers over UDP with a four-timestamp exchange,
polls NTP servers, writes what it measures to time series in Redis, and once per
second fuses the recent series into one offset, smooths it, estimates the drift and
may correct the system clock.

| Component | Source | State | Operations |
|---|---|---|---|
| probe client (`tx_loop`) | `net/node.rs` 111-185, 342-370 | `seq`, the interval timer, where it is in the burst | send probes, insert in `pending`, sweep timeouts |
| receive task (`rx_loop`) | `net/node.rs` 67-109, 228-340 | `runtime` (last delay of each peer) | answer a request, match a response, store a sample |
| `pending` | `net/node.rs` 33-38, 63 | map sequence number -> (peer, t1, sent_at), a mutex | insert, remove, retain |
| wire format | `net/proto.rs` | - | version, kind, sequence number, timestamps |
| four-timestamp equations | `time/calc.rs` | - | offset, delay |
| statistics | `time/fuse.rs` | `WeightedEwma` | medians, selection, trimming, weighted mean, EWMA |
| drift | `time/drift.rs` | - | slope of `fused_ring` |
| fusion loop | `net/node.rs` 187-222, 372-533 | `ewma`, `fused_ring`, its timer | read series, fuse, publish, correct, summarise |
| store | `store/redis.rs` | sorted sets and hashes in Redis, one connection behind a mutex | `ts_add`, `ts_recent`, `ts_last`, `hm_set`, `hm_get_all` |
| NTP pollers | `net/ntp.rs` | per source: last delay, offset, time; one socket per poll | resolve, poll with timeout, store, compare, summarise |
| PHC reader | `phc/reader.rs` | lazily opened device | best clock, PHC minus system |
| clock correction | `time/slew.rs` | the kernel's | `adjtimex` with clamped offset and frequency |
| telemetry | `telemetry/metrics.rs` | - | `/health`, `/metrics` |
| configuration, start, helpers | `config.rs`, `main.rs`, `util/mod.rs` | - | load, defaults, wiring |

Interaction. `tx_loop` and `rx_loop` of one process share `pending` (mutex released
between operations) and nothing else; two processes share only the network.
`rx_loop` and every NTP poller write series that the fusion loop reads; all of them
go through one connection mutex, one command sequence at a time, so single store
operations are atomic to one another and sequences of them are not. Pollers and
fusion loop write the same `hash:ntp:<id>:summary`, and every poller reads the
summaries of the others. All tasks read one `PhcReader`, whose descriptor is behind
a mutex of its own. Telemetry only reads.

What is hard here: answers racing the timeout sweep; a request that is sent before
it is recorded; loss, duplication and reordering of datagrams; restarts that reuse
sequence numbers while answers and the store outlive the process; ports given out
again while an answer is under way; a name that resolves to different servers; a
device that comes and goes; timers that catch up missed ticks; series written field
by field while they are read field by field; two clocks (the sample's and the
window's); errors that end an iteration half way; boundaries of trimming, selection,
medians, quantiles, clamps, eras and the ring.

What makes each component correct: a probe has one outcome, and its sample the error
the equations allow (probe protocol, pollers); a poll ends and leaves no socket
behind (pollers); readings do not go back to a worse clock (PHC reader); a minority
of bad sources moves nothing, no index leaves its vector (statistics); nothing older
than the window and nothing never measured is fused, and the outputs of an iteration
agree (fusion loop, store); a correction never exceeds or reverses what it corrects
(clock correction); "ok" means recent (telemetry). `PROJECT.json` lists the hazards
at their lines with the properties that cover them.

## 2. The modules

| Module | Models | Composition |
|---|---|---|
| `TimeCalc` | `calc.rs` | used by `PeerProbe`, `NtpPoller` |
| `ProbeLedger` | what a probe may become: abstract specification | implemented by `PeerProbe` |
| `PeerProbe` | the probe protocol of all nodes with network and restarts | EXTENDS `TimeCalc`, INSTANCE `ProbeLedger` |
| `NtpTime` | NTP timestamps of `ntp.rs` | used by `NtpPoller` |
| `PhcClock` | `reader.rs`: device, descriptor, readings | used by `NtpPoller` |
| `Lists` | the sums and products that `ntp.rs`, `fuse.rs` and `drift.rs` accumulate | used by `NtpPoller`, `Fuse`, `Drift` |
| `NtpPoller` | `ntp.rs`: all pollers, network, servers, summaries | EXTENDS `PhcClock`, `TimeCalc`, `NtpTime`, `Lists` |
| `Fuse` | `fuse.rs` as operators | EXTENDS `Lists`; used by `FusionLoop` |
| `Drift` | `drift.rs` | EXTENDS `Lists`; used by `FusionLoop` |
| `Slew` | `slew.rs` | used by `FusionLoop` |
| `Telemetry` | `/health` and the quantiles of `metrics.rs` | used by `FusionLoop` |
| `FusionLoop` | fusion loop, store, the tasks that measure, restarts | EXTENDS `Fuse`, `Drift`, `Slew`, `Telemetry` |
| `MCPeerProbe`, `MCNtpPoller`, `MCFusionLoop` | instances for TLC | |
| `MCStatistics` | bounded inputs | EXTENDS `Fuse`, `Drift`, `Slew`, `Telemetry`, `NtpTime` |
| `ArithmeticProofs` | theorems | integers, induction, sums, `TimeCalc` |
| `StatisticsProofs` | theorems | operators of `Fuse`, `Drift`, `Slew`, `Telemetry` |
| `MCStatisticsProofs` | theorems | the properties of `MCStatistics`, from those of the operators |
| `PeerProbeProofs`, `PeerProbeAccuracy` | theorems | `PeerProbe` and its refinement |
| `NtpTimeProofs`, `NtpPollerProofs` | theorems | `NtpTime`, `NtpPoller` |
| `FusionLoopProofs` | theorems | `FusionLoop` |

Definitions named "Mutant of X" in a module are X with a plausible bug. They are not
used by the specification; replacing X by one of them makes the property named in
`PROJECT.json` fail, which shows that the property depends on that piece of code.

### PeerProbe

One action per step between two awaits or mutex operations. `TxTick`, `SkipPeer`,
`SendProbe`, `SendFails`, `InsertPending`, `Sweep`, `RecordTimeout`, `SweepDone` are
`tx_loop` with `cleanup_timeouts`, in the order of its program counter `txpc`.
`RecvRequest`, `SendReply`, `ReplyFails`, `RecvBadVersion` are `handle_request`;
`RecvResponse` (t4 is read) and then `Orphan`, `Mismatch` or `Match` (the entry is
removed) are `handle_response`; `StoreDone` ends the writes `rx_loop` awaits. The
network is a set of datagrams each with a recipient: a datagram never received is
lost, a received one may stay for a second delivery (bounded by `MaxDups`), and sets
have no order. `Restart` clears what a process keeps in memory and resets the counter
to 1; datagrams survive. A process that restarts is ready at once.

Time: `now` is true time; the clock of node n reads `now + Skew[n]`, and the nodes in
`Flaky` may read `now + WallSkew[n]` instead (the PHC cannot be opened or read).
Clocks run at the rate of true time during a run: frequency errors over one exchange
are far below the delays measured. `xid`, `issued`, `boot`, `accepted`, `taken` (the
samples of this run of the process, in order) and `shots` (those taken at each peer
entry in this run) are history.

Left out: payload fields nobody reads (quality, signature, reserved), the sender id,
datagrams that do not parse, and the service latency series.

### NtpPoller, PhcClock, NtpTime

One task per entry of `ntp_sources`, with program counter `npc`. `Tick` is its timer,
which catches up with missed ticks. `Send` is lookup, bind, connect and send: the
address is any the name stands for, the port any that is free; `PollFails` is an
error on the way. Two datagrams with the same socket, t1 and time are the same query.
`Receive` takes an answer that `Arrives` at the connected socket, reads t4 and
computes the sample (`T1Used` takes the echo unless it decodes to 0) and the drift
against the sample before it; `RecvFails` and `TimeoutPoll` end the poll without one.
`CompareOne` reads one summary of another source, as the code awaits each;
`WriteSummary` writes the poller's own. A failing store reads nothing or writes nothing.

`FusionSummary` is the other writer of that hash: it leaves the median of as many
offsets of the source as `min_samples_per_peer` says (`Limit`), one of them or, if
that is even, half the sum of two, and keeps the difference already there. Which
offsets are recent, and which writes were lost, is left open. The series outlive the
process, so the offsets (`Entries`) are those of this run and, in any number, those of
`Leftover`, which an earlier run measured. The hashes outlive it too: `Init` starts
from any summaries the earlier run can have left, with a latest value or a median as
offset, and with or without a difference to such offsets of the other sources
(`LeftSummaries`). Offsets in summaries are kept doubled, for the halves.

External: the servers (`Answer`: whether a server echoes t1 and whether it knows the
time are its manners; an answer is stamped at any two times between query and now),
the resolver, and Redis. Answers stay in the network, so they may be late, twice,
or never received. `own`, `clock1` and `clock4` of a sample, and `of` of a
difference, are history.

`PhcClock` has `now`, the device, which appears and disappears at most `MaxChanges`
times, and the descriptor: none, open, or dead once its device is gone. `Opened` is
what a reading leaves of the descriptor, `Clocks` what it may return: CLOCK_TAI as
long as nothing was ever opened, the PHC, or an error. The mutex around the
descriptor is held throughout, so a reading is one step.

`NtpTime` is `encode_ntp_timestamp` and `decode_ntp_timestamp` with the widths as
parameters (nanoseconds per second, fractions per second, seconds of an era, and the
seconds from 1900 to 1970). The saturation of the seconds in 2036 is in the model;
servers wrap instead, as the RFC says.

### Fuse, Drift, Slew, Telemetry

Values are integers. The median of an even number of integers may end in one half, so
medians and what is computed from them are kept doubled; weighted means, slopes and
quantiles are fractions. `Lists!SumOf` and `ProductOf` are functions of the number of
elements taken, so that proofs can go through a list one element at a time.
Floating-point rounding is not modelled, NaN cannot occur. `Slew!apply` is the two
numbers handed to `adjtimex`: clamped, and cut off towards zero. `Telemetry` has the
verdict of `/health` and `percentile`.

### FusionLoop

One action per store operation of the iteration (`ReadOffset`, `ReadDelay`,
`ReadJitter`), `PushEwma` for the computation between awaits, `Publish` (the clock is
read, the entry published, the ring pushed and cut, the drift taken from three
entries on and handed to `Slew!apply` under `Control`), `ReadPhc`,
`SummarizeSource`, `SummarizeFused`. The measuring tasks are `Measure` (a sample
exists) and `WriteField`/`WriteSummary` (its store operations). A write may be done,
lost, or done without the trimming; a failing read ends the iteration (`ReadFails`).
`ts_recent` is nondeterministic among entries of equal score. Smoothing takes any
value between state and input, which covers every `lambda` and weight. A sample's
delay and jitter are arbitrary members of small sets: how they are obtained is the
matter of `PeerProbe` and `NtpPoller`. Scores are exact (in Redis they are doubles,
256 ns apart for current times). The counter `stored` stands for `SAMPLE_COUNTER`, but for
its reset by a restart: it tells entries apart, and those of two runs differ in time.
`Restart` is a process killed at any point, or ended by a task that panics, and
started again: half-stored samples stay half stored, ring and smoothed value begin
anew, the store keeps what it has. History are `measured`, `cut` (an iteration ended
between publishing and its summary, and none ended well since), and `from` and `newest`
of what is published.
`Publish` performs its writes in one step, as only telemetry could tell. What
`adjtimex` makes of a correction is left out: no clock of the model is moved by it.

## 3. The runs

| Run | Checks | Shows |
|---|---|---|
| `race` | `TypeOK`, `MatchedWithinOneRun`, `NoStalePending`, `CadenceBudget`, `JitterIsDelayChange`, `OneOutcome`, `OneSamplePerProbe`, `EchoedSampleAccurate`, `ImplementsLedger`, `EveryProbeCloses` | late, lost and duplicated datagrams against sweep and insertion, over two ticks with a crash of either process anywhere; no entry stays for ever |
| `misconfigured` | `SampleFromNamedPeer`, `JitterIsDelayChange` | answers of several peers interleaved; wrong and unusable addresses, two wire versions, flaky PHC |
| `poll` | `TypeOK`, `NtpSampleAccurate`, `ClockKept`, `DriftWithinDelays`, `ComparedWithOthers`, `EveryPollEnds` | late answers to a port given out again, a name of two servers, a server that does not echo, a PHC that comes or goes, a failing store, what an earlier run left |
| `statistics` | `MedianOfMajority`, `SelectionKeepsBest`, `FusedDespiteLiars`, `FusedDelayOfKept`, `SliceFits`, `EstimateWithinPairs`, `QuantilesAgree`, `CorrectionFits`, `StampsSurvive`, `StampsAreSome` | statistics, slope, quantiles, corrections and timestamps over all short inputs |
| `outputs` | `WindowHonoured`, `SmoothedInHull`, `OutputsAgree`, `CorrectionInHull`, `HealthyIsRecent` | the loop with a failing store and PHC and a restart: ring and smoothed value agree, and mislead neither the clock nor `/health` |
| `fused` | `TypeOK`, `DelaysKnown`, `SmoothedInHull`, `OutputsAgree`, `SummaryOfItsSource`, `EnoughIsFused` | reads interleaved with writes, two offsets required, two writers of a summary, a PHC that fails after the loop published: series and summary agree with the smoothed value; enough samples are fused |

Six runs find a disagreement between a statement in the repository and the code, and
are expected to end in a violation:

| Run | Property | The code |
|---|---|---|
| `crossed` | `SamplesOfOneExchange` | never compares the echoed t1, so after a restart t1 and t2, t3 may come from two exchanges |
| `lost` | `SomeClockIsRead` | falls back to the system clock only when the device cannot be opened; when the opened device is lost, a reading is an error from then on, though `reader.rs` 50 promises the best source available and `reader.rs` 76 a fallback when "PHC access failed" |
| `unsynchronised` | `NoMadeUpTimes` | decodes an empty timestamp to 0 and not to an error, so the errors for a missing receive or transmit timestamp (`ntp.rs` 198, 199) never occur and the answer of a server that does not know the time becomes a sample |
| `units` | `EstimateInPpm` | multiplies ns/ns by 10^3 and calls it ppm |
| `empty` | `MinSamplesEach` | requires the minimum of the offsets only; a delay not yet written counts as 0.0 |
| `stale` | `WindowHonoured` | compares samples stamped by PHC or TAI with the system clock |

More was met while reading, of which no document of the repository says otherwise.
The client timer catches up missed ticks at once, so after a stall bursts follow one
another without the spacing configured, though `node.rs` 111 speaks of a steady cadence;
`CadenceBudget` bounds the shots, not their spacing. `Tick` needs a nonempty peer
list (`node.rs` 202): with NTP sources only, as `config/ntp_public.toml` has it,
nothing is ever fused, and `EnoughIsFused` is checked with peers.
`zeitpeer_peer_timeouts_total` exports the newest entry of a series of ones. The
frequency given to `adjtimex` is clamped to 512 000 after scaling by 2^16, which is
less than 8 ppm. `/health` is "ok" up to the window and a whole iteration after the last
measurement, which is what `HealthyIsRecent` states.

### Bounds

`PeerProbe`: `race` has two processes and one prober, one shot per burst, ticks at 0
and 2 and a timeout of 0, so an entry is too old one unit later. That is two bursts with two
sweeps: an entry can be young at the first sweep and old at the second, and an answer
can arrive before the insertion, before and after either sweep, and twice. One crash
of either process, anywhere, is enough for number 1 to be used again. The counter has
three values and does not wrap in the run; the theorems hold with wrap-around.
`misconfigured` has four processes, two of which send one burst each without time
passing: its properties are about identities and the order of samples, not about ages.
One prober has three other peers, one of them at the address of another, so samples of
two peers and mismatches come in every order.
`MaxTime`, `MaxDups`, `MaxRestarts` are in the guards of `Advance`, the deliveries and
`Restart`; the proofs hold for every value of them.

`NtpPoller`: `poll` has two sources, of which one name stands for both servers, one port,
two polls, one answer, one change of the device, time up to 1, two offsets to a
median, and one offset that an earlier run measured of each source. The port is given
out again after a timeout, so the answer to the first poll can meet the second; two
polls of one source give a drift, one of each a comparison, with a value of either
writer or of the earlier run; the device may come between t1 and t4, between two
polls, or go. `lost` needs one device that comes or goes once, and no poll.
Leads of 6 and 2 make a mixed-up clock visible against
delays of at most 2. A second has two nanoseconds of two fractions each, so encoding
loses nothing; an era has 32 seconds, which the run does not reach (`statistics`
passes its end). `MaxPolls` and `MaxAnswers` are in the guards of `Tick` and
`Answer`, `MaxTime` and `MaxChanges` in those of `PhcClock`.

`MCStatistics`: the values, offsets, delays, weights and steps its lists are made of
are constants, which the theorems leave open. Lists of up to five values or four
peers, with outliers, ties, negative delays and unequal weights; the quantile of 3/5
selects three of four peers, the trim ratio of 1/3 cuts one sample at each end of
three or four, and none of fewer. Rings of up to five entries with equal timestamps.
Times from the epoch past the end of an era of 16 seconds of five nanoseconds, with
eight fractions per second, so that encoding does lose.

`FusionLoop`: `outputs` has one sample, four units of time with a window of three and
a ring of three: enough for a correction, for the sample to expire, and for a restart
anywhere between. The clock of the samples is `Lead` ahead, 0 there. `fused` has three
samples of a peer and an NTP source, of each of which two are required, and an
iteration may see a series at any point of its writing; the offsets of a source may
differ, and so may its median, the smoothed value and the latest offset. The store
does not fail there and the PHC may, so that series and summary are compared after
iterations of both ends; the ring is cut at one entry instead of 512. `stale` and
`empty` need no more than the bounds their counterexamples fit in. `MaxTime`,
`MaxSamples` and `MaxRestarts` are in the guards of `Advance`, `Measure` and
`Restart`.

Every run ends because the clock stops at its bound or the lists reach their
length, so every `.cfg` says `CHECK_DEADLOCK FALSE`.

### Fairness

`PeerProbe!FairSpec`: weak fairness of time and of each client task: tokio polls a
task whose timer, mutex or socket is ready, and no other task keeps the mutex across
an await. Nothing is assumed of the network, of peers or of the receive task.

`NtpPoller!FairSpec`: weak fairness of time, of a poll's timeout and of the store
operations of a poller (they return, with success or not). Nothing is assumed of
servers, answers, resolver or device.

`FusionLoop!FairSpec`: weak fairness of time, of the iteration and of the writers:
the store operations they await end, with success or not. No fairness of `Measure`.

## 4. The proofs

Every safety property that a passing run checks is also a theorem, for all values of
the constants that satisfy the assumptions named; so are the refinement and the type
invariants. `PROJECT.json` lists them with what they establish.

### Induction, sums and orders

`ArithmeticProofs` starts with division and with products of signed integers, as what
the prover finds about them does not go far. `Least` (a nonempty set of naturals has
a least element) gives `Induction` and `BoundedInduction`, which are stated of a *set*
of naturals, not of an operator, and can therefore be used: `SumExists` and
`ProductExists` show with them that the recursive functions of `Lists` exist and
satisfy their equations, and the laws of sums follow (`SumMonotone`, `SumScaled`,
`SumAdded`, `SumCombined`, `SumConstant`, `ProductOfPositive`).
`OffsetErrorBound`: for all integers, a measured offset is within half the measured
delay of the true one (plus the half nanosecond truncation may lose).

`StatisticsProofs`. A list is sorted by an order of its indices, which is defined by
counting: the index of rank r is one that r - 1 others precede. `OrderIsSorted` proves
that there is exactly one of each rank (different indices have different ranks, and a
set of n numbers in 1..n is 1..n) and that ranks grow with keys. On it rest

- `EveryMedianRobust`: a minority cannot fill the places from the median on, nor those
  up to it, so an honest value is on either side;
- `EveryBestIsKept`: those kept are the first ranks, so none with a smaller score is
  dropped, and none is kept twice;
- `SliceStaysInBounds`: trimming stays inside the vector and leaves a sample, for ratios
  below one. For a ratio of one or more the slice starts at the length and the code
  panics; nothing in `config.rs` forbids it. What needs a sample to be left assumes
  `TrimRatio[1] < TrimRatio[2]`, and says so in its statement;
- `EveryLiarTrimmed`: as many liars as are cut at one end leave an honest sample below
  and one above everything kept, and a mean with positive weights lies between the
  values it is taken of (`MeanOfKept`; `EveryDelayOfKept` and `FusedMeanBetween` are
  the same argument for delays and for what becomes of the fused offset);
- `EveryQuantileAgrees`: `percentile` of one half interpolates between the two places
  that `robust_median` averages, or stands on the one in the middle.

`EverySlopeWithinPairs` does not need the order. Were the slope below those of all
pairs, the residuals of the line through the mean would grow with time. The deviations
from the mean time add up to 0, so some are negative and some positive (`BothSides`),
and what grows with them is positively correlated with them (`Correlated`). But the
residuals of a least-squares line are not. `EveryCorrectionWithin` is
`CorrectionWithin` for every offset, drift, unit and limit.

`MCStatisticsProofs` proves that the lists of `MCStatistics` keep their types and
states each of its properties as a theorem of its specification.

### Probe protocol

`PeerProbeProofs`. The inductive invariant is `TypeOK /\ Books /\ Control` with
`Deadlines` for the sweep. `OneOutcome` alone is not inductive: that a swept or
matched probe is in no other place needs `BookedOnce` (a probe is booked in one
place at most: being sent, pending, or expired), `BookedOpen` (no booked probe has an
outcome, all are numbered up to `issued`), and `ClosedOnce`; that the place "being
sent" is empty when another probe is sent needs `Control`. From it follow
`TypeCorrect`, `ProbeHasOneOutcome`, `ProbeHasOneSample`, and
`ProbesImplementLedger`: every step of `PeerProbe` maps to `Issue`, `Sample`,
`Expire`, `Forget` or a stutter of `ProbeLedger` under the mapping
`open <- Open, sampled <- Sampled`. `SweepLeavesNothingStale` proves `NoStalePending`
from `Deadlines`.

`CadenceIsKept` needs to know how far a burst has come, which `CadenceBudget` does not
say. `CadenceInv` has a witness k, the ticks since the process started: the next tick
is due k intervals after that, and the shots taken at a target are exactly k bursts
or, while the last is under way, k - 1 of them and what this one has fired (`Fired`: a
whole burst at the entries before the cursor, none at those after it, those counted at
the one under it); at other entries none. A restart sets shots and `boot` back
together, so both bounds are of the present run.

`PeerProbeAccuracy`. `SampleOrigin` rests on `Named` (responses carry the id of their
sender). `EchoedSamplesAccurate` rests on `Timely`: corrected for the clock offsets,
the timestamps of one exchange never decrease along its way, so `OffsetErrorBound`
applies when the sample is computed. `MatchedRight` rests on `NumbersIdentify`: while
no process restarted and no counter wrapped, everything that carries a sequence
number of a node - entries, requests, responses, what is being served or matched -
belongs to one probe. `AccurateInFirstRun` combines the two.
`JitterIsAlwaysDelayChange` rests on `Remembered`: the delay kept of a peer is that of
its last sample in this run of the process, and there is none if it has no sample.

### NTP pollers

`NtpTimeProofs`. `EveryStampSurvives`: a time of the era comes back from encode and
decode as it was or one nanosecond less, for all widths with at least one fraction
per nanosecond. It is a fact about two truncating divisions in a row (`FractionBack`);
`ExactBack` says when nothing is lost. `EveryStampIsSome`: no time is encoded as the
stamp that stands for none, and times beyond the era stay in its last second.

`NtpPollerProofs`. `TypeCorrect` needs `Books`: a poll and its socket exist exactly
while the poller waits, samples taken and polls under way never exceed the polls
started, and a summary has one value. `ClockIsKept` needs `ClockInv`: the descriptor
is never closed, and is open or dead once a query or a sample was stamped by the PHC.
`SamplesAreAccurate` and `DriftIsBounded` need `Timely` (a query carries the reading
of its clock at its time, an answer the stamps of two later times in order) and
`Samplewise`; the step that takes a sample combines `EveryStampSurvives`,
`LossyExchange` and `OffsetErrorBound`, for an answer to this poll or to an earlier
one on the same port. They assume `WithinEra`: every clock of the run stays before
the end of the NTP era, which is in 2036.

`AlwaysComparedWithOthers` needs `CompareInv`: each value a poller has read so far is an
offset, or the half-sum of two, of another source, and so is what each summary holds
of its own, whichever of its two writers wrote last (`Summarised`, `OthersRead`).
`LeftSummaryIs` shows this of every summary an earlier run can have left, `FusionWrites`
of what the fusion loop writes. Offsets are only added (`OffsetsGrow`), so what was
true of a difference stays true. A mean lies between two elements of its list
(`MeanBetween`) and the half-sum of two offsets between these (`TheirMedians`,
`LeftMedians`), which is the rest (`DifferenceCompared`).

### Fusion loop

`FusionLoopProofs`. `TypeCorrect` rests on `StoreInv` (series are finite sets of
entries, a writer stores a sample of a source it writes, summaries have one value) and
`LoopInv` (a reading has at most `Limit` entries, an iteration has fewer samples than
sources looked at). `WindowIsHonoured` needs `Recent`: what has been read and what the
samples come from is from after `since`; it assumes `Lead <= 0`, and the run `stale`
shows that it fails without. `OutputsDoAgree` needs `OutInv`, of `RingInv` (length,
order, nothing newer than now), `RingAgrees` and `SummaryAgrees`, which say for every
place in an iteration which of smoothed value, ring, series and summary agree there;
`OutputsAgree` only speaks of the place between two iterations. The summary is excused
by `cut` alone: set where `ReadPhc` ends an iteration that has published, cleared
where one ends well.

`SmoothedAlwaysInHull` and `CorrectionAlwaysInHull` follow an offset from its
measurement to the clock. `DataInv`: whatever is being stored, is stored or was read
of a source was measured of it, and the median of what was read lies between two of
the offsets measured. `HullInv`: smoothed value, published entries, ring and summary
lie between two of the offsets measured of any source; its step uses
`FusedMeanBetween`, so both assume that less than all is trimmed.
`SummaryAlwaysOfItsSource` rests on `DataInv` too.

`HealthyAlwaysRecent` needs `UsedInv` (a sample rests on offsets, at least one is
published) and `NewestInv` (a published entry is no older against its newest offset
than the window); it assumes `Lead <= 0`, as `WindowIsHonoured` does.

`DelaysAlwaysKnown` needs `LossInv`. `Follow`: the delay of every offset in the store is
there, or newer ones are, or the task that stored the offset is still at it; the
same of jitter. `ReadOn`: once the offsets of a source were read, a delay of the
window is there to be read. The step between the two is a pigeonhole argument
(`SomeArrived`): at least `Limit` offsets were read, fewer tasks than that write the
source, and each is on at most one sample (`OneEach`), so one offset read has its delay
already. That trimming leaves it in the store is `NewestStays`, which needs every
entry to be later than the epoch (`Stamped`).

### What the proofs assume, and what they do not reach

Assumptions used, all evaluated by TLC on the runs: `ConfigAssumption` (node ids of
processes are distinct), `TimingAssumption`, `FuseAssumption`, `NtpTimeAssumption`
(a fraction is no longer than a nanosecond), `SlewAssumption`, `ClockAssumption`,
`PollerAssumption` (no clock reads the Unix epoch), `FusionAssumption` and
`InputsAssumption` (the inputs of `MCStatistics` are integers, weights positive).
Three hypotheses stand in the theorems that need them: `WithinEra`,
`TrimRatio[1] < TrimRatio[2]` and `Lead <= 0`. The constants of every run that is
expected to pass satisfy the one its properties need.

Only model-checked: liveness (`EveryProbeCloses`, `EveryPollEnds`, `EnoughIsFused`), as
the provers used here do not support ENABLED.

## 5. Not modelled, and what is left

Not modelled: logging, HTTP, TOML, bincode layouts and datagrams that do not parse;
the configuration (`ensure_defaults` adds public servers when there is neither a PHC
device nor an NTP source; the constants stand for what results); `util/mod.rs`, which
nothing calls; the rendering of `/metrics`, which changes no state; the result of the
ping after a poll and the fields copied from an answer (stratum, remote time); series
and hashes that only `/metrics` or a chart reads (`ts:fused:offset`, `ts:fused:delay`,
`ts:fused:drift_ppm`, `ts:phc:*`, `fused_delta`, `hash:peer:<id>:self`); loss of the
Redis connection (it is never reopened: every later operation fails, which
`StoreFails` covers); floating-point rounding; what the kernel makes of a correction;
the deployment files and vendored crates.

Left, in this order:

1. `Node`: the composition of `PeerProbe`, `NtpPoller` and `FusionLoop` through the
   store, and what ends the process. Each of the three is a state space of its own
   size, so the composition needs abstract versions of the writers first.
2. Abstract specifications of the poller (a poll is started, and answered or given up
   once) and of the loop (an iteration replaces all outputs or none), and proofs that
   the detailed ones implement them, as `ProbesImplementLedger` does.
3. A model of the kernel's PLL, to ask whether measurement and correction converge.
