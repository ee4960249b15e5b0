----------------------------- MODULE PeerProbe ------------------------------
(***************************************************************************)
(* The probe protocol of src/net/node.rs: every node runs a client task    *)
(* (tx_loop), which sends a burst of time requests to its peers at every   *)
(* tick of an interval timer and then sweeps the requests nobody answered, *)
(* and a receive task (rx_loop), which answers requests and matches        *)
(* responses with the pending requests.  The two tasks of a node share the *)
(* map `pending` under a mutex they release between an insertion, a        *)
(* removal and a sweep; the network loses, delays, reorders and duplicates *)
(* datagrams, and a process may crash and start again on the same port.    *)
(*                                                                         *)
(* `now` is true time.  The reading of node n's clock is now + Skew[n], or *)
(* now + WallSkew[n] when its PHC cannot be used and the code falls back   *)
(* to the system clock.                                                    *)
(*                                                                         *)
(* History, on which no guard depends: xid numbers the probes and is       *)
(* carried by datagrams and entries to say which probe they belong to;     *)
(* issued, boot, accepted, taken and shots record what has happened.       *)
(***************************************************************************)
EXTENDS Integers, Sequences, FiniteSets, TimeCalc

CONSTANTS
    Nodes,       \* processes, each listening at its own address
    Ids,         \* configured peer and node ids (u32)
    NodeId,      \* [Nodes -> Ids], node_id of each process
    Peers,       \* [Nodes -> Seq([id, addr])], the configured peer list
    NoAddr,      \* address of an entry whose ip:port does not parse
    Probers,     \* nodes with a phc_device: the others never probe
    Version,     \* [Nodes -> Nat], WIRE_VERSION each process is built with
    Skew,        \* [Nodes -> Int], clock minus true time
    WallSkew,    \* [Nodes -> Int], fallback system clock minus true time
    Flaky,       \* nodes whose PHC reads may fail
    Burst,       \* probes per peer and tick
    Interval,    \* sampling.interval_ms
    Timeout,     \* RESPONSE_TIMEOUT_MS
    SeqMod,      \* sequence numbers wrap at SeqMod (2^32 in the code)
    MaxTime,     \* bound: true time stops there
    MaxDups,     \* bound: datagrams delivered twice
    MaxRestarts  \* bound: crashes

SeqNos == 0 .. SeqMod - 1
PeerEntry == [id: Ids, addr: Nodes \cup {NoAddr}]

ASSUME ConfigAssumption ==
    /\ NodeId \in [Nodes -> Ids]
    /\ \A m, n \in Nodes : NodeId[m] = NodeId[n] => m = n
    /\ Peers \in [Nodes -> Seq(PeerEntry)]
    /\ NoAddr \notin Nodes
    /\ Probers \subseteq Nodes
    /\ Flaky \subseteq Nodes
    /\ Version \in [Nodes -> Nat]
    /\ Skew \in [Nodes -> Int]
    /\ WallSkew \in [Nodes -> Int]

ASSUME TimingAssumption ==
    /\ Burst \in Nat \ {0}
    /\ Interval \in Nat \ {0}
    /\ Timeout \in Nat
    /\ SeqMod \in Nat \ {0, 1}
    /\ MaxTime \in Nat
    /\ MaxDups \in Nat
    /\ MaxRestarts \in Nat

VARIABLES
    now,         \* true time
    reqs,        \* time requests in the network
    resps,       \* time responses in the network
    dups,        \* datagrams delivered twice so far
    restarts,    \* crashes so far
    issued,      \* probes sent so far, by all nodes (history)
    shots,       \* [Nodes -> [1 .. Len(Peers[n]) -> Nat]], shots taken at each
                 \* entry of the peer list, sent or not, in this run (history)
    boot,        \* [Nodes -> Nat], when the process started (history)
    count,       \* [Nodes -> Nat], value of the counter seq before wrapping
    due,         \* [Nodes -> Nat], deadline of the interval timer
    txpc,        \* where tx_loop is
    cursor,      \* the peer and the shot of the burst tx_loop is at
    sending,     \* the request sent but not yet inserted in pending
    pending,     \* requests waiting for their response
    expired,     \* swept requests whose timeout mark is not yet written
    timedOut,    \* probes whose timeout mark was written to the store
    rxpc,        \* where rx_loop is
    serving,     \* the request rx_loop is answering, with t2
    matching,    \* the response rx_loop is about to match, with t4
    lastDelay,   \* runtime: delay of the last sample of each peer (Option)
    accepted,    \* samples computed from matched responses (history)
    taken        \* those of this run of the process, in order (history)

txVars == <<count, due, txpc, cursor, sending, expired, timedOut, issued, shots>>
rxVars == <<rxpc, serving, matching, lastDelay, accepted, taken>>
netVars == <<reqs, resps, dups>>
vars == <<now, restarts, boot, pending, txVars, rxVars, netVars>>

Entry == [seq: SeqNos, peer: Ids, t1: Int, xid: Nat]
PendingRequest == [seq: SeqNos, peer: Ids, t1: Int, xid: Nat, sent_at: Nat]
TimeRequest == [to: Nodes, from: Nodes, ver: Nat, seq: SeqNos, t1: Int, xid: Nat]
TimeResponse == [to: Nodes, from: Nodes, ver: Nat, seq: SeqNos, server_id: Ids,
                 t1_echo: Int, t2: Int, t3: Int, xid: Nat]
Sample == [xid: Nat, rxid: Nat, peer: Ids, server: Nodes, t1: Int, echo: Int,
           offset: Int, delay: Int, jitter: Int]

TypeOK ==
    /\ now \in Nat /\ dups \in Nat /\ restarts \in Nat /\ issued \in Nat
    /\ reqs \subseteq TimeRequest
    /\ resps \subseteq TimeResponse
    /\ boot \in [Nodes -> Nat]
    /\ count \in [Nodes -> Nat]
    /\ due \in [Nodes -> Nat]
    /\ txpc \in [Nodes -> {"tick", "probe", "insert", "record"}]
    /\ cursor \in [Nodes -> [peer: Nat \ {0}, shot: Nat \ {0}]]
    /\ sending \in [Nodes -> SUBSET Entry]
    /\ pending \in [Nodes -> SUBSET PendingRequest]
    /\ expired \in [Nodes -> SUBSET PendingRequest]
    /\ timedOut \subseteq Nat
    /\ rxpc \in [Nodes -> {"recv", "reply", "match", "store"}]
    /\ serving \in [Nodes -> SUBSET [req: TimeRequest, t2: Int]]
    /\ matching \in [Nodes -> SUBSET [resp: TimeResponse, t4: Int]]
    /\ lastDelay \in [Nodes -> [Ids -> SUBSET Int]]
    /\ accepted \in [Nodes -> SUBSET Sample]
    /\ taken \in [Nodes -> Seq(Sample)]
    /\ DOMAIN shots = Nodes
    /\ \A n \in Nodes : shots[n] \in [DOMAIN Peers[n] -> Nat]

Init ==
    /\ now = 0 /\ dups = 0 /\ restarts = 0 /\ issued = 0
    /\ reqs = {} /\ resps = {} /\ timedOut = {}
    /\ boot = [n \in Nodes |-> 0]
    /\ count = [n \in Nodes |-> 1]
    /\ due = [n \in Nodes |-> 0]
    /\ txpc = [n \in Nodes |-> "tick"]
    /\ cursor = [n \in Nodes |-> [peer |-> 1, shot |-> 1]]
    /\ sending = [n \in Nodes |-> {}]
    /\ pending = [n \in Nodes |-> {}]
    /\ expired = [n \in Nodes |-> {}]
    /\ rxpc = [n \in Nodes |-> "recv"]
    /\ serving = [n \in Nodes |-> {}]
    /\ matching = [n \in Nodes |-> {}]
    /\ lastDelay = [n \in Nodes |-> [i \in Ids |-> {}]]
    /\ accepted = [n \in Nodes |-> {}]
    /\ taken = [n \in Nodes |-> <<>>]
    /\ shots = [n \in Nodes |-> [i \in DOMAIN Peers[n] |-> 0]]

(***************************************************************************)
(* Time and clocks.  Readings(n) is what phc.now_ns() may return: the PHC, *)
(* or the system clock while the device cannot be opened, or, on the       *)
(* receive path, when a read fails.                                        *)
(***************************************************************************)
Advance ==
    /\ now < MaxTime
    /\ now' = now + 1
    /\ UNCHANGED <<restarts, boot, pending, txVars, rxVars, netVars>>

Readings(n) ==
    {now + Skew[n]} \cup {now + WallSkew[m] : m \in Flaky \cap {n}}

(***************************************************************************)
(* tx_loop.  The interval timer keeps its schedule: a tick missed while    *)
(* the loop was busy fires at once (tokio's default for missed ticks).     *)
(***************************************************************************)
TxTick(n) ==
    /\ txpc[n] = "tick"
    /\ n \in Probers
    /\ due[n] <= now
    /\ due' = [due EXCEPT ![n] = @ + Interval]
    /\ txpc' = [txpc EXCEPT ![n] = "probe"]
    /\ cursor' = [cursor EXCEPT ![n] = [peer |-> 1, shot |-> 1]]
    /\ UNCHANGED <<now, restarts, boot, pending, count, sending, expired,
                   timedOut, issued, shots, rxVars, netVars>>

AtPeer(n) == txpc[n] = "probe" /\ cursor[n].peer <= Len(Peers[n])
PeerAt(n) == Peers[n][cursor[n].peer]

\* Mutant of NextPeer: shots are counted from 0.
ShotsFromZero(c) == [peer |-> c.peer + 1, shot |-> 0]
NextPeer(c) == [peer |-> c.peer + 1, shot |-> 1]
\* Mutant of NextShot: one shot too many.
LongBurst(c) ==
    IF c.shot <= Burst THEN [c EXCEPT !.shot = @ + 1] ELSE NextPeer(c)
NextShot(c) ==
    IF c.shot < Burst THEN [c EXCEPT !.shot = @ + 1] ELSE NextPeer(c)

\* The node itself, or an entry whose address does not parse.
Skipped(n) == PeerAt(n).id = NodeId[n] \/ PeerAt(n).addr = NoAddr

SkipPeer(n) ==
    /\ AtPeer(n)
    /\ Skipped(n)
    /\ cursor' = [cursor EXCEPT ![n] = NextPeer(@)]
    /\ UNCHANGED <<now, restarts, boot, pending, count, due, txpc, sending,
                   expired, timedOut, issued, shots, rxVars, netVars>>

\* Mutant of SeqOf: probes are numbered within their burst only.
BurstNumber(n) == cursor[n].shot
\* seq.fetch_add(1): the number of the probe now being sent.
SeqOf(n) == count[n] % SeqMod

\* History only: one more shot at the peer the burst is at.
Shot(n) == shots' = [shots EXCEPT ![n][cursor[n].peer] = @ + 1]

\* t1 is read and the datagram handed to the socket; the entry is inserted
\* only afterwards, under the mutex, by InsertPending.
SendProbe(n) ==
    /\ AtPeer(n)
    /\ ~Skipped(n)
    /\ \E t1 \in Readings(n) :
       LET e == [seq |-> SeqOf(n), peer |-> PeerAt(n).id,
                 t1 |-> t1, xid |-> issued + 1]
       IN  /\ reqs' = reqs \cup
                 {[to |-> PeerAt(n).addr, from |-> n, ver |-> Version[n],
                   seq |-> e.seq, t1 |-> e.t1, xid |-> e.xid]}
           /\ sending' = [sending EXCEPT ![n] = {e}]
    /\ issued' = issued + 1
    /\ Shot(n)
    /\ count' = [count EXCEPT ![n] = @ + 1]
    /\ txpc' = [txpc EXCEPT ![n] = "insert"]
    /\ UNCHANGED <<now, restarts, boot, pending, due, cursor, expired, timedOut,
                   rxVars, resps, dups>>

\* The clock cannot be read or send_to fails: the number is spent for nothing.
SendFails(n) ==
    /\ AtPeer(n)
    /\ ~Skipped(n)
    /\ Shot(n)
    /\ count' = [count EXCEPT ![n] = @ + 1]
    /\ cursor' = [cursor EXCEPT ![n] = NextShot(@)]
    /\ UNCHANGED <<now, restarts, boot, pending, due, txpc, sending, expired,
                   timedOut, issued, rxVars, netVars>>

\* HashMap::insert replaces an entry with the same sequence number.
InsertPending(n) ==
    /\ txpc[n] = "insert"
    /\ \E e \in sending[n] :
          pending' = [pending EXCEPT ![n] =
             {p \in @ : p.seq # e.seq} \cup
             {[seq |-> e.seq, peer |-> e.peer, t1 |-> e.t1, xid |-> e.xid,
               sent_at |-> now]}]
    /\ sending' = [sending EXCEPT ![n] = {}]
    /\ cursor' = [cursor EXCEPT ![n] = NextShot(@)]
    /\ txpc' = [txpc EXCEPT ![n] = "probe"]
    /\ UNCHANGED <<now, restarts, boot, count, due, expired, timedOut, issued, shots,
                   rxVars, netVars>>

\* Mutants of TooOld: the period of the timer is waited for as well; swapped operands.
TooOldLate(p) == now - p.sent_at > Timeout + Interval
NeverTooOld(p) == p.sent_at - now > Timeout
TooOld(p) == now - p.sent_at > Timeout

\* Mutant of Sweep: the expired entries are reported but retained.
SweepRetains(n) ==
    /\ txpc[n] = "probe"
    /\ cursor[n].peer > Len(Peers[n])
    /\ expired' = [expired EXCEPT ![n] = {p \in pending[n] : TooOld(p)}]
    /\ txpc' = [txpc EXCEPT ![n] = "record"]
    /\ UNCHANGED <<now, restarts, boot, pending, count, due, cursor, sending,
                   timedOut, issued, shots, rxVars, netVars>>

\* cleanup_timeouts: one pass over the map under the mutex.
Sweep(n) ==
    /\ txpc[n] = "probe"
    /\ cursor[n].peer > Len(Peers[n])
    /\ expired' = [expired EXCEPT ![n] = {p \in pending[n] : TooOld(p)}]
    /\ pending' = [pending EXCEPT ![n] = {p \in @ : ~TooOld(p)}]
    /\ txpc' = [txpc EXCEPT ![n] = "record"]
    /\ UNCHANGED <<now, restarts, boot, count, due, cursor, sending, timedOut,
                   issued, shots, rxVars, netVars>>

\* ts_add(timeouts) for one swept request; an error is ignored.
RecordTimeout(n) ==
    /\ txpc[n] = "record"
    /\ \E p \in expired[n], ok \in BOOLEAN :
          /\ timedOut' = IF ok THEN timedOut \cup {p.xid} ELSE timedOut
          /\ expired' = [expired EXCEPT ![n] = @ \ {p}]
    /\ UNCHANGED <<now, restarts, boot, pending, count, due, txpc, cursor,
                   sending, issued, shots, rxVars, netVars>>

SweepDone(n) ==
    /\ txpc[n] = "record"
    /\ expired[n] = {}
    /\ txpc' = [txpc EXCEPT ![n] = "tick"]
    /\ UNCHANGED <<now, restarts, boot, pending, count, due, cursor, sending,
                   expired, timedOut, issued, shots, rxVars, netVars>>

TxStep(n) ==
    \/ TxTick(n) \/ SkipPeer(n) \/ SendProbe(n) \/ SendFails(n)
    \/ InsertPending(n) \/ Sweep(n) \/ RecordTimeout(n) \/ SweepDone(n)

(***************************************************************************)
(* rx_loop: one datagram at a time; the loop awaits the reply and the      *)
(* store's writes before it takes the next datagram.                       *)
(***************************************************************************)
Delivered(net, m, keep) == IF keep THEN net ELSE net \ {m}
Duplicated(keep) ==
    /\ keep => dups < MaxDups
    /\ dups' = IF keep THEN dups + 1 ELSE dups

\* handle_request: the deserialized request and t2.
RecvRequest(n) ==
    /\ rxpc[n] = "recv"
    /\ \E m \in reqs, keep \in BOOLEAN, t2 \in Readings(n) :
          /\ m.to = n
          /\ m.ver = Version[n]
          /\ reqs' = Delivered(reqs, m, keep)
          /\ Duplicated(keep)
          /\ serving' = [serving EXCEPT ![n] = {[req |-> m, t2 |-> t2]}]
    /\ rxpc' = [rxpc EXCEPT ![n] = "reply"]
    /\ UNCHANGED <<now, restarts, boot, pending, txVars, matching, lastDelay,
                   accepted, taken, resps>>

\* handle_request: t3, the response to the sender, then the latency record.
SendReply(n) ==
    /\ rxpc[n] = "reply"
    /\ \E s \in serving[n], t3 \in Readings(n) :
          resps' = resps \cup
             {[to |-> s.req.from, from |-> n, ver |-> Version[n],
               seq |-> s.req.seq, server_id |-> NodeId[n],
               t1_echo |-> s.req.t1, t2 |-> s.t2, t3 |-> t3, xid |-> s.req.xid]}
    /\ serving' = [serving EXCEPT ![n] = {}]
    /\ rxpc' = [rxpc EXCEPT ![n] = "store"]
    /\ UNCHANGED <<now, restarts, boot, pending, txVars, matching, lastDelay,
                   accepted, taken, reqs, dups>>

ReplyFails(n) ==
    /\ rxpc[n] = "reply"
    /\ serving' = [serving EXCEPT ![n] = {}]
    /\ rxpc' = [rxpc EXCEPT ![n] = "recv"]
    /\ UNCHANGED <<now, restarts, boot, pending, txVars, matching, lastDelay,
                   accepted, taken, netVars>>

\* handle_response up to its first await: t4 is read before the mutex is taken.
RecvResponse(n) ==
    /\ rxpc[n] = "recv"
    /\ \E m \in resps, keep \in BOOLEAN, t4 \in Readings(n) :
          /\ m.to = n
          /\ m.ver = Version[n]
          /\ resps' = Delivered(resps, m, keep)
          /\ Duplicated(keep)
          /\ matching' = [matching EXCEPT ![n] = {[resp |-> m, t4 |-> t4]}]
    /\ rxpc' = [rxpc EXCEPT ![n] = "match"]
    /\ UNCHANGED <<now, restarts, boot, pending, txVars, serving, lastDelay,
                   accepted, taken, reqs>>

\* No pending entry: an orphan.
Orphan(n) ==
    /\ rxpc[n] = "match"
    /\ \A a \in matching[n], p \in pending[n] : p.seq # a.resp.seq
    /\ matching' = [matching EXCEPT ![n] = {}]
    /\ rxpc' = [rxpc EXCEPT ![n] = "recv"]
    /\ UNCHANGED <<now, restarts, boot, pending, txVars, serving, lastDelay,
                   accepted, taken, netVars>>

\* The entry is removed before the server's id is compared with it.
Mismatch(n) ==
    /\ rxpc[n] = "match"
    /\ \E a \in matching[n], p \in pending[n] :
          /\ p.seq = a.resp.seq
          /\ p.peer # a.resp.server_id
          /\ pending' = [pending EXCEPT ![n] = @ \ {p}]
    /\ matching' = [matching EXCEPT ![n] = {}]
    /\ rxpc' = [rxpc EXCEPT ![n] = "recv"]
    /\ UNCHANGED <<now, restarts, boot, txVars, serving, lastDelay, accepted,
                   taken, netVars>>

JitterOf(prev, delay) ==
    IF prev = {} THEN 0 ELSE Abs(delay - (CHOOSE d \in prev : TRUE))

\* The sample the code computes from the pending entry p, the response m and t4.
\* The echoed t1 is recorded here but the code does not look at it.
SampleOf(n, p, m, t4) ==
    LET calc == compute_offset_delay(p.t1, m.t2, m.t3, t4)
    IN  [xid |-> p.xid, rxid |-> m.xid, peer |-> p.peer, server |-> m.from,
         t1 |-> p.t1, echo |-> m.t1_echo,
         offset |-> calc.offset, delay |-> calc.delay,
         jitter |-> JitterOf(lastDelay[n][p.peer], calc.delay)]

\* Mutants of Book: the delay is not remembered; the peers share one memory.
BookForgets(n, sample) ==
    /\ accepted' = [accepted EXCEPT ![n] = @ \cup {sample}]
    /\ taken' = [taken EXCEPT ![n] = Append(@, sample)]
    /\ UNCHANGED lastDelay
BookForAll(n, sample) ==
    /\ accepted' = [accepted EXCEPT ![n] = @ \cup {sample}]
    /\ taken' = [taken EXCEPT ![n] = Append(@, sample)]
    /\ lastDelay' = [lastDelay EXCEPT ![n] = [i \in Ids |-> {sample.delay}]]
\* The sample is stored and its delay remembered for the peer's next jitter.
Book(n, sample) ==
    /\ accepted' = [accepted EXCEPT ![n] = @ \cup {sample}]
    /\ taken' = [taken EXCEPT ![n] = Append(@, sample)]
    /\ lastDelay' = [lastDelay EXCEPT ![n][sample.peer] = {sample.delay}]

\* Mutants of Match: the entry is looked up but stays; any server's answer will do.
MatchByGet(n) ==
    /\ rxpc[n] = "match"
    /\ \E a \in matching[n], p \in pending[n] :
          /\ p.seq = a.resp.seq
          /\ p.peer = a.resp.server_id
          /\ Book(n, SampleOf(n, p, a.resp, a.t4))
    /\ matching' = [matching EXCEPT ![n] = {}]
    /\ rxpc' = [rxpc EXCEPT ![n] = "store"]
    /\ UNCHANGED <<now, restarts, boot, pending, txVars, serving, netVars>>

MatchAnyServer(n) ==
    /\ rxpc[n] = "match"
    /\ \E a \in matching[n], p \in pending[n] :
          /\ p.seq = a.resp.seq
          /\ pending' = [pending EXCEPT ![n] = @ \ {p}]
          /\ Book(n, SampleOf(n, p, a.resp, a.t4))
    /\ matching' = [matching EXCEPT ![n] = {}]
    /\ rxpc' = [rxpc EXCEPT ![n] = "store"]
    /\ UNCHANGED <<now, restarts, boot, txVars, serving, netVars>>

\* A match: the four-timestamp equations and the runtime map.
Match(n) ==
    /\ rxpc[n] = "match"
    /\ \E a \in matching[n], p \in pending[n] :
          /\ p.seq = a.resp.seq
          /\ p.peer = a.resp.server_id
          /\ pending' = [pending EXCEPT ![n] = @ \ {p}]
          /\ Book(n, SampleOf(n, p, a.resp, a.t4))
    /\ matching' = [matching EXCEPT ![n] = {}]
    /\ rxpc' = [rxpc EXCEPT ![n] = "store"]
    /\ UNCHANGED <<now, restarts, boot, txVars, serving, netVars>>

\* A request of another wire version is dropped.  (So is such a response, but
\* none is ever sent: a server answers only requests of its own version.)
RecvBadVersion(n) ==
    /\ rxpc[n] = "recv"
    /\ \E m \in reqs :
          /\ m.to = n
          /\ m.ver # Version[n]
          /\ reqs' = reqs \ {m}
    /\ UNCHANGED <<now, restarts, boot, pending, txVars, rxVars, resps, dups>>

\* The awaited store writes end, with or without success.
StoreDone(n) ==
    /\ rxpc[n] = "store"
    /\ rxpc' = [rxpc EXCEPT ![n] = "recv"]
    /\ UNCHANGED <<now, restarts, boot, pending, txVars, serving, matching,
                   lastDelay, accepted, taken, netVars>>

RxStep(n) ==
    \/ RecvRequest(n) \/ SendReply(n) \/ ReplyFails(n) \/ RecvBadVersion(n)
    \/ RecvResponse(n) \/ Orphan(n) \/ Mismatch(n) \/ Match(n) \/ StoreDone(n)

(***************************************************************************)
(* A crash and a restart: the process state is lost, datagrams in flight   *)
(* are not, and the counter starts at 1 again.                             *)
(***************************************************************************)
Restart(n) ==
    /\ restarts < MaxRestarts
    /\ restarts' = restarts + 1
    /\ boot' = [boot EXCEPT ![n] = now]
    /\ count' = [count EXCEPT ![n] = 1]
    /\ due' = [due EXCEPT ![n] = now]
    /\ txpc' = [txpc EXCEPT ![n] = "tick"]
    /\ cursor' = [cursor EXCEPT ![n] = [peer |-> 1, shot |-> 1]]
    /\ sending' = [sending EXCEPT ![n] = {}]
    /\ pending' = [pending EXCEPT ![n] = {}]
    /\ expired' = [expired EXCEPT ![n] = {}]
    /\ rxpc' = [rxpc EXCEPT ![n] = "recv"]
    /\ serving' = [serving EXCEPT ![n] = {}]
    /\ matching' = [matching EXCEPT ![n] = {}]
    /\ lastDelay' = [lastDelay EXCEPT ![n] = [i \in Ids |-> {}]]
    /\ taken' = [taken EXCEPT ![n] = <<>>]
    /\ shots' = [shots EXCEPT ![n] = [i \in DOMAIN Peers[n] |-> 0]]
    /\ UNCHANGED <<now, issued, timedOut, accepted, netVars>>

Next ==
    \/ Advance
    \/ \E n \in Nodes : TxStep(n) \/ RxStep(n) \/ Restart(n)

Spec == Init /\ [][Next]_vars

\* The runtime polls the client task again whenever it is ready.
FairSpec == Spec /\ WF_vars(Advance) /\ \A n \in Probers : WF_vars(TxStep(n))
-----------------------------------------------------------------------------
(***************************************************************************)
(* Properties.                                                             *)
(***************************************************************************)
OpenOf(n) == {e.xid : e \in sending[n] \cup pending[n] \cup expired[n]}
Open == UNION {OpenOf(n) : n \in Nodes}
Sampled == {s.xid : s \in UNION {accepted[n] : n \in Nodes}}

\* A probe is open, or sampled, or timed out, never two of them: the mutex on
\* `pending`, with handle_response removing what it matches and cleanup_timeouts
\* removing what it reports, decides every race of a late answer and a sweep.
OneOutcome ==
    /\ Sampled \cap timedOut = {}
    /\ Open \cap (Sampled \cup timedOut) = {}

\* handle_response yields at most one sample per probe, however often the
\* network delivers the request or the response.
OneSamplePerProbe ==
    \A m, n \in Nodes : \A s \in accepted[m], t \in accepted[n] :
        s.xid = t.xid => s = t

\* The probe protocol keeps the books of the abstract ledger.
Ledger == INSTANCE ProbeLedger WITH open <- Open, sampled <- Sampled
ImplementsLedger == Ledger!Spec

\* A sample whose response echoes the t1 of the pending entry is as accurate as
\* its delay: queueing in either rx_loop, duplicates and reordering cannot move
\* the measured offset further than half the measured delay from the true one.
EchoedSampleAccurate ==
    \A n \in Nodes \ Flaky : \A s \in accepted[n] :
        s.t1 = s.echo /\ s.server \notin Flaky =>
            WithinHalfDelay(s, Skew[s.server] - Skew[n])

\* A sample booked under a peer's id comes from the process that has this id,
\* also when a configured address leads to another one: handle_response
\* compares the ids though a mismatch spends the probe.
SampleFromNamedPeer ==
    \A n \in Nodes : \A s \in accepted[n] : NodeId[s.server] = s.peer

\* No process restarted and no counter wrapped yet.
FirstRun == restarts = 0 /\ \A n \in Nodes : count[n] <= SeqMod

\* As long as no process restarted and no counter wrapped, handle_response only
\* matches a response with the probe it answers, though it compares nothing but
\* the sequence number and the server's id.
MatchedWithinOneRun ==
    FirstRun =>
        \A n \in Nodes : \A s \in accepted[n] : s.xid = s.rxid /\ s.t1 = s.echo

\* The offset and the delay stored are those of one exchange ("classic
\* four-timestamp equations", calc.rs:7; t1_echo "from request", proto.rs:33).
\* The code drops the echoed t1, so a restart breaks it.
SamplesOfOneExchange ==
    \A n \in Nodes : \A s \in accepted[n] : s.t1 = s.echo

\* cleanup_timeouts leaves nothing stale behind: when tx_loop waits for its
\* timer, no entry will be older than Timeout + Interval at the deadline, so no
\* answer later than that is turned into a sample if the timer fires on time.
NoStalePending ==
    \A n \in Nodes : txpc[n] = "tick" =>
        \A p \in pending[n] : due[n] <= p.sent_at + Timeout + Interval

\* tx_loop takes no more shots at a peer than the cadence allows for the time
\* since the process started, whatever ticks it missed and caught up and whatever
\* failed, and it is never more than a burst ahead at one peer of another.
Targets(n) ==
    {i \in DOMAIN Peers[n] :
        Peers[n][i].id # NodeId[n] /\ Peers[n][i].addr # NoAddr}
CadenceBudget ==
    \A n \in Nodes : \A i \in DOMAIN Peers[n] :
        /\ shots[n][i] <= Burst * ((now - boot[n]) \div Interval + 1)
        /\ \A j \in Targets(n) : shots[n][i] - shots[n][j] <= Burst

\* The jitter stored with a sample is the change of delay since the last sample of
\* the same peer in this run of the process, and zero for the first one: samples
\* of other peers in between, and those of an earlier run, play no part.
EarlierOf(n, k) ==
    {j \in 1 .. k - 1 : taken[n][j].peer = taken[n][k].peer}
JitterIsDelayChange ==
    \A n \in Nodes : \A k \in DOMAIN taken[n] :
        /\ EarlierOf(n, k) = {} => taken[n][k].jitter = 0
        /\ \A j \in EarlierOf(n, k) : (\A i \in EarlierOf(n, k) : i <= j) =>
              taken[n][k].jitter = Abs(taken[n][k].delay - taken[n][j].delay)

\* Every entry of pending leaves the books, answered, swept or replaced, if the
\* timer and the client task keep running long enough after it was inserted.
Early(n) ==
    {p \in pending[n] \cup expired[n] : p.sent_at + Timeout + Interval <= MaxTime}
EveryProbeCloses ==
    \A n \in Probers : (Early(n) # {}) ~> (Early(n) = {})
-----------------------------------------------------------------------------
(***************************************************************************)
(* The inductive invariants behind the theorems of PeerProbeProofs.        *)
(***************************************************************************)
\* The three places where an open probe may be booked.
Places == {"sending", "pending", "expired"}
Held(n, k) ==
    IF k = "sending" THEN sending[n]
    ELSE IF k = "pending" THEN pending[n]
    ELSE expired[n]

\* A probe is booked in one place at most, and not once it has an outcome.
BookedOnce ==
    \A m, n \in Nodes, j, k \in Places : \A e \in Held(m, j), f \in Held(n, k) :
        e.xid = f.xid => m = n /\ j = k /\ e = f
BookedOpen ==
    \A n \in Nodes, k \in Places : \A e \in Held(n, k) :
        e.xid \in (1 .. issued) \ (Sampled \cup timedOut)
ClosedOnce ==
    /\ Sampled \cup timedOut \subseteq 1 .. issued
    /\ Sampled \cap timedOut = {}
Books == BookedOnce /\ BookedOpen /\ ClosedOnce /\ OneSamplePerProbe

\* Each place is in use in one part of tx_loop only.
Control ==
    \A n \in Nodes :
        /\ sending[n] # {} => txpc[n] = "insert"
        /\ expired[n] # {} => txpc[n] = "record"

\* The deadline is never further away than an interval while a burst is under
\* way, and no kept entry is too old for it afterwards.
Deadlines ==
    \A n \in Nodes :
        /\ txpc[n] \in {"probe", "insert"} => due[n] <= now + Interval
        /\ txpc[n] \in {"record", "tick"} =>
              \A p \in pending[n] : due[n] <= p.sent_at + Timeout + Interval

\* A response carries the id of the process that sent it.
Named ==
    /\ \A m \in resps : m.server_id = NodeId[m.from]
    /\ \A n \in Nodes : \A a \in matching[n] :
          a.resp.server_id = NodeId[a.resp.from]
    /\ SampleFromNamedPeer

\* Corrected for the clock errors, the timestamps of one exchange increase.
Timely ==
    /\ \A m \in reqs : m.from \notin Flaky => m.t1 - Skew[m.from] <= now
    /\ \A n \in Nodes \ Flaky : \A s \in serving[n] :
          s.req.from \notin Flaky =>
              s.req.t1 - Skew[s.req.from] <= s.t2 - Skew[n]
    /\ \A m \in resps : m.from \notin Flaky /\ m.to \notin Flaky =>
          /\ m.t1_echo - Skew[m.to] <= m.t2 - Skew[m.from]
          /\ m.t3 - Skew[m.from] <= now
    /\ \A n \in Nodes \ Flaky : \A a \in matching[n] :
          /\ a.resp.to = n
          /\ a.resp.from \notin Flaky =>
                /\ a.resp.t1_echo - Skew[n] <= a.resp.t2 - Skew[a.resp.from]
                /\ a.resp.t3 - Skew[a.resp.from] <= a.t4 - Skew[n]
    /\ EchoedSampleAccurate

\* Everything that carries a sequence number of node n, wherever it is.
Mark(seq, xid, t1) == [seq |-> seq, xid |-> xid, t1 |-> t1]
Marks(n) ==
    {Mark(e.seq, e.xid, e.t1) : e \in sending[n]}
        \cup {Mark(e.seq, e.xid, e.t1) : e \in pending[n]}
        \cup {Mark(m.seq, m.xid, m.t1) : m \in {r \in reqs : r.from = n}}
        \cup {Mark(s.req.seq, s.req.xid, s.req.t1) :
                 s \in {u \in UNION {serving[i] : i \in Nodes} : u.req.from = n}}
        \cup {Mark(m.seq, m.xid, m.t1_echo) : m \in {r \in resps : r.to = n}}
        \cup {Mark(a.resp.seq, a.resp.xid, a.resp.t1_echo) : a \in matching[n]}

\* While no process restarted and no counter wrapped, a sequence number of a
\* node belongs to one probe, wherever it turns up.
NumbersIdentify ==
    FirstRun =>
        \A n \in Nodes : \A u, v \in Marks(n) :
            /\ u.seq < count[n]
            /\ u.seq = v.seq => u = v
=============================================================================
