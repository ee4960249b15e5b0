-------------------------- MODULE PeerProbeProofs ---------------------------
(***************************************************************************)
(* Theorems about PeerProbe, for every set of nodes, configuration, clock  *)
(* error, sequence-number width and bound.                                 *)
(***************************************************************************)
EXTENDS PeerProbe, ArithmeticProofs, TLAPS

-----------------------------------------------------------------------------
(* Type correctness. *)

\* A clock reading is an integer.
LEMMA ReadingsType ==
  ASSUME NEW n \in Nodes, now \in Nat
  PROVE  Readings(n) \subseteq Int
BY ConfigAssumption DEF Readings

\* The entry tx_loop is at is a configured one.
LEMMA PeerAtType ==
  ASSUME NEW n \in Nodes, TypeOK, AtPeer(n)
  PROVE  PeerAt(n) \in PeerEntry
<1>1. cursor[n].peer \in Nat \ {0}
  BY DEF TypeOK
<1>2. Peers[n] \in Seq(PeerEntry)
  BY ConfigAssumption
<1>3. cursor[n].peer \in 1 .. Len(Peers[n])
  BY <1>1, <1>2 DEF AtPeer
<1> QED  BY <1>2, <1>3 DEF PeerAt

\* The sequence number of a probe fits its width.
LEMMA SeqOfType ==
  ASSUME NEW n \in Nodes, TypeOK
  PROVE  SeqOf(n) \in SeqNos
<1>1. count[n] \in Nat /\ SeqMod \in Nat \ {0}
  BY TimingAssumption DEF TypeOK
<1> QED  BY <1>1 DEF SeqOf, SeqNos

\* tx_loop moves on to another shot or another peer.
LEMMA NextShotType ==
  ASSUME NEW k \in [peer: Nat \ {0}, shot: Nat \ {0}]
  PROVE  /\ NextPeer(k) \in [peer: Nat \ {0}, shot: Nat \ {0}]
         /\ NextShot(k) \in [peer: Nat \ {0}, shot: Nat \ {0}]
BY TimingAssumption DEF NextPeer, NextShot

\* A shot is counted at a configured entry.
LEMMA ShotType ==
  ASSUME TypeOK, NEW n \in Nodes, AtPeer(n), Shot(n)
  PROVE  DOMAIN shots' = Nodes /\ \A m \in Nodes : shots'[m] \in [DOMAIN Peers[m] -> Nat]
<1>1. DOMAIN shots = Nodes /\ \A m \in Nodes : shots[m] \in [DOMAIN Peers[m] -> Nat]
  BY DEF TypeOK
<1>2. shots' = [shots EXCEPT ![n] = [shots[n] EXCEPT ![cursor[n].peer] = @ + 1]]
  BY DEF Shot
<1>3. [shots[n] EXCEPT ![cursor[n].peer] = @ + 1] \in [DOMAIN Peers[n] -> Nat]
  <2>1. cursor[n].peer \in Nat \ {0} /\ Peers[n] \in Seq(PeerEntry)
    BY ConfigAssumption DEF TypeOK
  <2>2. cursor[n].peer \in DOMAIN Peers[n]
    BY <2>1 DEF AtPeer
  <2>3. shots[n][cursor[n].peer] + 1 \in Nat
    BY <1>1, <2>2
  <2> QED  BY <1>1, <2>3
<1> QED  BY <1>1, <1>2, <1>3

\* A sample computed from typed data is well-typed.
LEMMA SampleType ==
  ASSUME TypeOK, NEW n \in Nodes, NEW p \in PendingRequest,
         NEW m \in TimeResponse, NEW t4 \in Int
  PROVE  SampleOf(n, p, m, t4) \in Sample
<1> DEFINE calc == compute_offset_delay(p.t1, m.t2, m.t3, t4)
<1>1. calc.delay \in Int /\ calc.offset \in Int
  BY CalcType DEF PendingRequest, TimeResponse
<1>2. lastDelay[n][p.peer] \in SUBSET Int
  BY DEF TypeOK, PendingRequest
<1>3. JitterOf(lastDelay[n][p.peer], calc.delay) \in Int
  <2> DEFINE prev == lastDelay[n][p.peer]
  <2>1. CASE prev = {}
    BY <2>1 DEF JitterOf
  <2>2. CASE prev # {}
    <3>1. (CHOOSE d \in prev : TRUE) \in Int
      BY <1>2, <2>2
    <3> QED  BY <2>2, <3>1, <1>1 DEF JitterOf, Abs
  <2> QED  BY <2>1, <2>2
<1> HIDE DEF calc
<1>4. SampleOf(n, p, m, t4) =
        [xid |-> p.xid, rxid |-> m.xid, peer |-> p.peer, server |-> m.from,
         t1 |-> p.t1, echo |-> m.t1_echo,
         offset |-> calc.offset, delay |-> calc.delay,
         jitter |-> JitterOf(lastDelay[n][p.peer], calc.delay)]
  BY DEF SampleOf, calc
<1> QED  BY <1>1, <1>3, <1>4 DEF Sample, PendingRequest, TimeResponse

\* A step of either task, of the network or a crash keeps the types.
LEMMA TypeStep ==
  ASSUME TypeOK, [Next]_vars
  PROVE  TypeOK'
<1>1. CASE Advance
  BY <1>1 DEF Advance, TypeOK, txVars, rxVars, netVars
<1>2. ASSUME NEW n \in Nodes, TxTick(n) PROVE TypeOK'
  <2>1. due' \in [Nodes -> Nat] /\ cursor' \in [Nodes -> [peer: Nat \ {0}, shot: Nat \ {0}]]
    BY <1>2, TimingAssumption DEF TxTick, TypeOK
  <2>2. txpc' \in [Nodes -> {"tick", "probe", "insert", "record"}]
    BY <1>2 DEF TxTick, TypeOK
  <2> QED  BY <1>2, <2>1, <2>2 DEF TxTick, TypeOK, rxVars, netVars
<1>3. ASSUME NEW n \in Nodes, SkipPeer(n) PROVE TypeOK'
  BY <1>3, NextShotType DEF SkipPeer, TypeOK, rxVars, netVars
<1>4. ASSUME NEW n \in Nodes, SendProbe(n) PROVE TypeOK'
  <2>1. PICK t1 \in Readings(n) :
          LET e == [seq |-> SeqOf(n), peer |-> PeerAt(n).id,
                    t1 |-> t1, xid |-> issued + 1]
          IN  /\ reqs' = reqs \cup
                   {[to |-> PeerAt(n).addr, from |-> n, ver |-> Version[n],
                     seq |-> e.seq, t1 |-> e.t1, xid |-> e.xid]}
              /\ sending' = [sending EXCEPT ![n] = {e}]
    BY <1>4 DEF SendProbe
  <2>2. PeerAt(n).id \in Ids /\ PeerAt(n).addr \in Nodes
    BY <1>4, PeerAtType DEF SendProbe, Skipped, PeerEntry
  <2>3. SeqOf(n) \in SeqNos /\ t1 \in Int /\ issued + 1 \in Nat
    <3>1. now \in Nat /\ issued \in Nat
      BY DEF TypeOK
    <3>2. SeqOf(n) \in SeqNos
      BY SeqOfType
    <3>3. t1 \in Int
      BY <3>1, ReadingsType
    <3> QED  BY <3>1, <3>2, <3>3
  <2>4. [seq |-> SeqOf(n), peer |-> PeerAt(n).id, t1 |-> t1,
         xid |-> issued + 1] \in Entry
    BY <2>2, <2>3 DEF Entry
  <2>5. [to |-> PeerAt(n).addr, from |-> n, ver |-> Version[n],
         seq |-> SeqOf(n), t1 |-> t1, xid |-> issued + 1] \in TimeRequest
    BY <2>2, <2>3, ConfigAssumption DEF TimeRequest
  <2>6. reqs' \subseteq TimeRequest /\ sending' \in [Nodes -> SUBSET Entry]
    BY <2>1, <2>4, <2>5 DEF TypeOK
  <2>7. DOMAIN shots' = Nodes /\ \A m \in Nodes : shots'[m] \in [DOMAIN Peers[m] -> Nat]
    BY <1>4, ShotType DEF SendProbe
  <2> QED  BY <1>4, <2>6, <2>7, SMTT(60) DEF SendProbe, TypeOK, rxVars
<1>5. ASSUME NEW n \in Nodes, SendFails(n) PROVE TypeOK'
  <2>1. DOMAIN shots' = Nodes /\ \A m \in Nodes : shots'[m] \in [DOMAIN Peers[m] -> Nat]
    BY <1>5, ShotType DEF SendFails
  <2> QED  BY <1>5, <2>1, NextShotType, SMTT(60) DEF SendFails, TypeOK, rxVars, netVars
<1>6. ASSUME NEW n \in Nodes, InsertPending(n) PROVE TypeOK'
  <2>1. PICK e \in sending[n] :
          pending' = [pending EXCEPT ![n] =
             {p \in @ : p.seq # e.seq} \cup
             {[seq |-> e.seq, peer |-> e.peer, t1 |-> e.t1, xid |-> e.xid,
               sent_at |-> now]}]
    BY <1>6 DEF InsertPending
  <2>2. [seq |-> e.seq, peer |-> e.peer, t1 |-> e.t1, xid |-> e.xid,
         sent_at |-> now] \in PendingRequest
    BY DEF TypeOK, Entry, PendingRequest
  <2>3. pending' \in [Nodes -> SUBSET PendingRequest]
    BY <2>1, <2>2 DEF TypeOK
  <2> QED
    BY <1>6, <2>3, NextShotType DEF InsertPending, TypeOK, rxVars, netVars
<1>7. ASSUME NEW n \in Nodes, Sweep(n) PROVE TypeOK'
  BY <1>7 DEF Sweep, TypeOK, rxVars, netVars
<1>8. ASSUME NEW n \in Nodes, RecordTimeout(n) PROVE TypeOK'
  <2>1. PICK p \in expired[n], ok \in BOOLEAN :
          /\ timedOut' = IF ok THEN timedOut \cup {p.xid} ELSE timedOut
          /\ expired' = [expired EXCEPT ![n] = @ \ {p}]
    BY <1>8 DEF RecordTimeout
  <2>2. p.xid \in Nat
    BY DEF TypeOK, PendingRequest
  <2>3. timedOut' \subseteq Nat
    BY <2>1, <2>2 DEF TypeOK
  <2>4. expired' \in [Nodes -> SUBSET PendingRequest]
    BY <2>1 DEF TypeOK
  <2> QED  BY <1>8, <2>3, <2>4 DEF RecordTimeout, TypeOK, rxVars, netVars
<1>9. ASSUME NEW n \in Nodes, SweepDone(n) PROVE TypeOK'
  BY <1>9 DEF SweepDone, TypeOK, rxVars, netVars
<1>10. ASSUME NEW n \in Nodes, RecvRequest(n) PROVE TypeOK'
  BY <1>10, ReadingsType, SMTT(60)
     DEF RecvRequest, TypeOK, txVars, Delivered, Duplicated
<1>11. ASSUME NEW n \in Nodes, SendReply(n) PROVE TypeOK'
  <2>1. PICK s \in serving[n], t3 \in Readings(n) :
          resps' = resps \cup
           {[to |-> s.req.from, from |-> n, ver |-> Version[n],
             seq |-> s.req.seq, server_id |-> NodeId[n],
             t1_echo |-> s.req.t1, t2 |-> s.t2, t3 |-> t3, xid |-> s.req.xid]}
    BY <1>11 DEF SendReply
  <2>2. s.req \in TimeRequest /\ s.t2 \in Int /\ t3 \in Int
    BY ReadingsType DEF TypeOK
  <2>3. [to |-> s.req.from, from |-> n, ver |-> Version[n],
         seq |-> s.req.seq, server_id |-> NodeId[n],
         t1_echo |-> s.req.t1, t2 |-> s.t2, t3 |-> t3, xid |-> s.req.xid]
        \in TimeResponse
    BY <2>2, ConfigAssumption DEF TimeRequest, TimeResponse
  <2> QED  BY <1>11, <2>1, <2>3 DEF SendReply, TypeOK, txVars
<1>12. ASSUME NEW n \in Nodes, ReplyFails(n) PROVE TypeOK'
  BY <1>12 DEF ReplyFails, TypeOK, txVars, netVars
<1>13. ASSUME NEW n \in Nodes, RecvResponse(n) PROVE TypeOK'
  BY <1>13, ReadingsType, SMTT(60)
     DEF RecvResponse, TypeOK, txVars, Delivered, Duplicated
<1>14. ASSUME NEW n \in Nodes, Orphan(n) PROVE TypeOK'
  BY <1>14 DEF Orphan, TypeOK, txVars, netVars
<1>15. ASSUME NEW n \in Nodes, Mismatch(n) PROVE TypeOK'
  BY <1>15, SMTT(60) DEF Mismatch, TypeOK, txVars, netVars
<1>16. ASSUME NEW n \in Nodes, Match(n) PROVE TypeOK'
  <2>1. PICK a \in matching[n], p \in pending[n] :
          /\ pending' = [pending EXCEPT ![n] = @ \ {p}]
          /\ Book(n, SampleOf(n, p, a.resp, a.t4))
    BY <1>16 DEF Match
  <2> DEFINE sample == SampleOf(n, p, a.resp, a.t4)
  <2>2. p \in PendingRequest /\ a.resp \in TimeResponse /\ a.t4 \in Int
    BY DEF TypeOK
  <2>3. sample \in Sample
    BY <2>2, SampleType
  <2>4. sample.delay \in Int /\ sample.peer \in Ids
    BY <2>2, <2>3 DEF Sample, PendingRequest
  <2> HIDE DEF sample
  <2>5. /\ pending' = [pending EXCEPT ![n] = @ \ {p}]
        /\ Book(n, sample)
    BY <2>1 DEF sample
  <2>6. /\ pending' \in [Nodes -> SUBSET PendingRequest]
        /\ accepted' \in [Nodes -> SUBSET Sample]
        /\ lastDelay' \in [Nodes -> [Ids -> SUBSET Int]]
    BY <2>3, <2>4, <2>5 DEF TypeOK, Book
  <2>7. taken' \in [Nodes -> Seq(Sample)]
    <3>1. Append(taken[n], sample) \in Seq(Sample)
      BY <2>3 DEF TypeOK
    <3> QED  BY <2>5, <3>1 DEF TypeOK, Book
  <2> QED  BY <1>16, <2>6, <2>7 DEF Match, TypeOK, txVars, netVars
<1>17. ASSUME NEW n \in Nodes, RecvBadVersion(n) PROVE TypeOK'
  BY <1>17 DEF RecvBadVersion, TypeOK, txVars, rxVars
<1>18. ASSUME NEW n \in Nodes, StoreDone(n) PROVE TypeOK'
  BY <1>18 DEF StoreDone, TypeOK, txVars, netVars
<1>19. ASSUME NEW n \in Nodes, Restart(n) PROVE TypeOK'
  <2>1. DOMAIN shots' = Nodes /\ \A m \in Nodes : shots'[m] \in [DOMAIN Peers[m] -> Nat]
    BY <1>19 DEF Restart, TypeOK
  <2>2. taken' \in [Nodes -> Seq(Sample)]
    BY <1>19 DEF Restart, TypeOK
  <2> QED  BY <1>19, <2>1, <2>2, SMTT(60) DEF Restart, TypeOK, netVars
<1>20. CASE UNCHANGED vars
  BY <1>20 DEF vars, TypeOK, txVars, rxVars, netVars
<1> QED
  BY <1>1, <1>2, <1>3, <1>4, <1>5, <1>6, <1>7, <1>8, <1>9, <1>10, <1>11,
     <1>12, <1>13, <1>14, <1>15, <1>16, <1>17, <1>18, <1>19, <1>20
     DEF Next, TxStep, RxStep

\* Every state of the probe protocol has its type.
THEOREM TypeCorrect == Spec => []TypeOK
<1>1. Init => TypeOK
  BY TimingAssumption DEF Init, TypeOK
<1> QED  BY <1>1, TypeStep, PTL DEF Spec
-----------------------------------------------------------------------------
(* The books: one outcome per probe. *)

\* The probes with a sample, spelled out.
LEMMA SampledDef ==
  ASSUME NEW x
  PROVE  x \in Sampled <=> \E n \in Nodes : \E s \in accepted[n] : x = s.xid
BY DEF Sampled

\* The open probes, spelled out.
LEMMA OpenDef ==
  ASSUME NEW x
  PROVE  x \in Open <=>
           \E n \in Nodes, k \in Places : \E e \in Held(n, k) : x = e.xid
<1>1. \A n \in Nodes :
        sending[n] \cup pending[n] \cup expired[n]
          = UNION {Held(n, k) : k \in Places}
  BY DEF Held, Places
<1>2. x \in Open <=>
        \E n \in Nodes :
          \E e \in sending[n] \cup pending[n] \cup expired[n] : x = e.xid
  BY DEF Open, OpenOf
<1> QED  BY <1>1, <1>2

\* Booked probes are records with a number.
LEMMA HeldType ==
  ASSUME TypeOK, NEW n \in Nodes, NEW k \in Places, NEW e \in Held(n, k)
  PROVE  e.xid \in Nat
BY DEF TypeOK, Held, Places, Entry, PendingRequest

\* Dropping entries, or moving one to another place, keeps the books.
LEMMA BooksShrink ==
  ASSUME Books,
         \A n \in Nodes, k \in Places : Held(n, k)' \subseteq Held(n, k),
         UNCHANGED <<accepted, timedOut, issued>>
  PROVE  Books'
<1>1. Sampled' = Sampled
  BY DEF Sampled
<1>2. BookedOnce'
  BY DEF Books, BookedOnce
<1>3. BookedOpen'
  BY <1>1 DEF Books, BookedOpen
<1>4. ClosedOnce' /\ OneSamplePerProbe'
  BY <1>1 DEF Books, ClosedOnce, OneSamplePerProbe
<1> QED  BY <1>2, <1>3, <1>4 DEF Books
\* A step that keeps no more entries than before and closes no probe.
Quiet ==
  /\ \A n \in Nodes, k \in Places : Held(n, k)' \subseteq Held(n, k)
  /\ UNCHANGED <<accepted, timedOut, issued>>

\* Only five actions of the tasks do more to the books than drop entries.
LEMMA StepShape ==
  ASSUME TypeOK, [Next]_vars
  PROVE  \/ Quiet
         \/ \E n \in Nodes : \/ SendProbe(n) \/ InsertPending(n) \/ Sweep(n)
                             \/ RecordTimeout(n) \/ Match(n)
<1> USE DEF Quiet, Held, Places
<1>1. CASE Advance
  BY <1>1 DEF Advance, txVars, rxVars
<1>2. ASSUME NEW n \in Nodes, TxStep(n) PROVE
        \/ Quiet
        \/ SendProbe(n) \/ InsertPending(n) \/ Sweep(n) \/ RecordTimeout(n)
  <2>1. CASE TxTick(n)
    BY <2>1 DEF TxTick, rxVars
  <2>2. CASE SkipPeer(n)
    BY <2>2 DEF SkipPeer, rxVars
  <2>3. CASE SendFails(n)
    BY <2>3 DEF SendFails, rxVars
  <2>4. CASE SweepDone(n)
    BY <2>4 DEF SweepDone, rxVars
  <2> QED  BY <1>2, <2>1, <2>2, <2>3, <2>4 DEF TxStep
<1>3. ASSUME NEW n \in Nodes, RxStep(n) PROVE Quiet \/ Match(n)
  <2>1. CASE RecvRequest(n)
    BY <2>1 DEF RecvRequest, txVars
  <2>2. CASE SendReply(n)
    BY <2>2 DEF SendReply, txVars
  <2>3. CASE ReplyFails(n)
    BY <2>3 DEF ReplyFails, txVars
  <2>4. CASE RecvBadVersion(n)
    BY <2>4 DEF RecvBadVersion, txVars, rxVars
  <2>5. CASE RecvResponse(n)
    BY <2>5 DEF RecvResponse, txVars
  <2>6. CASE Orphan(n)
    BY <2>6 DEF Orphan, txVars
  <2>7. CASE Mismatch(n)
    <3>1. pending' \in [Nodes -> SUBSET PendingRequest]
      BY <2>7 DEF Mismatch, TypeOK
    <3>2. \A m \in Nodes : pending'[m] \subseteq pending[m]
      BY <2>7 DEF Mismatch, TypeOK
    <3> QED  BY <2>7, <3>2 DEF Mismatch, txVars
  <2>8. CASE StoreDone(n)
    BY <2>8 DEF StoreDone, txVars
  <2> QED
    BY <1>3, <2>1, <2>2, <2>3, <2>4, <2>5, <2>6, <2>7, <2>8 DEF RxStep
<1>4. ASSUME NEW n \in Nodes, Restart(n) PROVE Quiet
  BY <1>4 DEF Restart, TypeOK
<1>5. CASE UNCHANGED vars
  BY <1>5 DEF vars, txVars, rxVars
<1> QED  BY <1>1, <1>2, <1>3, <1>4, <1>5 DEF Next
\* SendProbe books a probe nobody has seen before.
LEMMA BooksSend ==
  ASSUME TypeOK, Books, NEW n \in Nodes, SendProbe(n)
  PROVE  Books'
<1>1. PICK e \in [seq: Int, peer: Ids, t1: Int, xid: Int] :
        /\ e.xid = issued + 1
        /\ sending' = [sending EXCEPT ![n] = {e}]
  <2>1. PICK t1 \in Readings(n) :
          sending' = [sending EXCEPT ![n] =
            {[seq |-> SeqOf(n), peer |-> PeerAt(n).id, t1 |-> t1,
              xid |-> issued + 1]}]
    BY DEF SendProbe
  <2>2. t1 \in Int /\ SeqOf(n) \in Int /\ PeerAt(n).id \in Ids /\ issued + 1 \in Int
    <3>1. now \in Nat /\ issued \in Nat
      BY DEF TypeOK
    <3>2. SeqOf(n) \in Int
      BY SeqOfType DEF SeqNos
    <3>3. PeerAt(n).id \in Ids
      BY PeerAtType DEF PeerEntry, SendProbe
    <3>4. t1 \in Int
      BY <3>1, ReadingsType
    <3> QED  BY <3>1, <3>2, <3>3, <3>4
  <2>3. [seq |-> SeqOf(n), peer |-> PeerAt(n).id, t1 |-> t1, xid |-> issued + 1]
          \in [seq: Int, peer: Ids, t1: Int, xid: Int]
    BY <2>2
  <2> QED  BY <2>1, <2>3
<1>2. /\ pending' = pending /\ expired' = expired /\ accepted' = accepted
      /\ timedOut' = timedOut /\ issued' = issued + 1
  BY DEF SendProbe, rxVars
<1>3. Sampled' = Sampled
  BY <1>2 DEF Sampled
<1>4. \A m \in Nodes, k \in Places : \A f \in Held(m, k)' :
        \/ f \in Held(m, k)
        \/ m = n /\ k = "sending" /\ f = e
  BY <1>1, <1>2 DEF Held, TypeOK
<1>5. issued \in Nat
  BY DEF TypeOK
<1>6. \A m \in Nodes, k \in Places : \A f \in Held(m, k) : f.xid # issued + 1
  BY <1>5 DEF Books, BookedOpen
<1>7. BookedOnce'
  BY <1>1, <1>4, <1>6 DEF Books, BookedOnce
<1>8. BookedOpen'
  <2>1. issued + 1 \notin Sampled \cup timedOut
    BY <1>5 DEF Books, ClosedOnce
  <2> QED  BY <1>1, <1>2, <1>3, <1>4, <1>5, <2>1 DEF Books, BookedOpen
<1>9. ClosedOnce' /\ OneSamplePerProbe'
  BY <1>2, <1>3, <1>5 DEF Books, ClosedOnce, OneSamplePerProbe
<1> QED  BY <1>7, <1>8, <1>9 DEF Books

\* InsertPending moves the probe from `sending` to `pending`.
LEMMA BooksInsert ==
  ASSUME TypeOK, Books, NEW n \in Nodes, InsertPending(n)
  PROVE  Books'
<1>1. PICK e \in sending[n] :
        pending' = [pending EXCEPT ![n] =
          {p \in @ : p.seq # e.seq} \cup
          {[seq |-> e.seq, peer |-> e.peer, t1 |-> e.t1, xid |-> e.xid,
            sent_at |-> now]}]
  BY DEF InsertPending
<1> DEFINE q == [seq |-> e.seq, peer |-> e.peer, t1 |-> e.t1, xid |-> e.xid,
                 sent_at |-> now]
<1>2. q.xid = e.xid
  OBVIOUS
<1>3. pending' = [pending EXCEPT ![n] = {p \in @ : p.seq # e.seq} \cup {q}]
  BY <1>1
<1> HIDE DEF q
<1>4. /\ sending' = [sending EXCEPT ![n] = {}]
      /\ expired' = expired /\ accepted' = accepted
      /\ timedOut' = timedOut /\ issued' = issued
  BY DEF InsertPending, rxVars
<1>5. Sampled' = Sampled
  BY <1>4 DEF Sampled
<1>6. e \in Held(n, "sending") /\ "sending" \in Places
  BY DEF Held, Places
<1>7. \A m \in Nodes, k \in Places : \A f \in Held(m, k)' :
        \/ f \in Held(m, k) /\ ~(m = n /\ k = "sending")
        \/ m = n /\ k = "pending" /\ f = q
  BY <1>3, <1>4 DEF Held, TypeOK
<1>8. \A m \in Nodes, k \in Places : \A f \in Held(m, k) :
        f.xid = e.xid => m = n /\ k = "sending"
  BY <1>6 DEF Books, BookedOnce
<1>9. BookedOnce'
  BY <1>2, <1>7, <1>8 DEF Books, BookedOnce
<1>10. BookedOpen'
  BY <1>2, <1>4, <1>5, <1>6, <1>7 DEF Books, BookedOpen
<1>11. ClosedOnce' /\ OneSamplePerProbe'
  BY <1>4, <1>5 DEF Books, ClosedOnce, OneSamplePerProbe
<1> QED  BY <1>9, <1>10, <1>11 DEF Books

\* Sweep moves the old entries from `pending` to `expired`, which was empty.
LEMMA BooksSweep ==
  ASSUME TypeOK, Books, NEW n \in Nodes, Sweep(n)
  PROVE  Books'
<1>1. /\ expired' = [expired EXCEPT ![n] = {p \in pending[n] : TooOld(p)}]
      /\ pending' = [pending EXCEPT ![n] = {p \in @ : ~TooOld(p)}]
      /\ sending' = sending /\ accepted' = accepted
      /\ timedOut' = timedOut /\ issued' = issued
  BY DEF Sweep, rxVars
<1>2. Sampled' = Sampled
  BY <1>1 DEF Sampled
<1>3. \A m \in Nodes, k \in Places : \A f \in Held(m, k)' :
        \/ m # n /\ f \in Held(m, k)
        \/ m = n /\ k = "sending" /\ f \in Held(n, "sending")
        \/ m = n /\ k = "pending" /\ f \in Held(n, "pending") /\ ~TooOld(f)
        \/ m = n /\ k = "expired" /\ f \in Held(n, "pending") /\ TooOld(f)
  <2> SUFFICES ASSUME NEW m \in Nodes, NEW k \in Places, NEW f \in Held(m, k)'
      PROVE  \/ m # n /\ f \in Held(m, k)
             \/ m = n /\ k = "sending" /\ f \in Held(n, "sending")
             \/ m = n /\ k = "pending" /\ f \in Held(n, "pending") /\ ~TooOld(f)
             \/ m = n /\ k = "expired" /\ f \in Held(n, "pending") /\ TooOld(f)
    OBVIOUS
  <2>1. CASE k = "sending"
    BY <1>1, <2>1 DEF Held
  <2>2. CASE k = "pending"
    BY <1>1, <2>2 DEF Held, TypeOK
  <2>3. CASE k = "expired"
    BY <1>1, <2>3 DEF Held, TypeOK
  <2> QED  BY <2>1, <2>2, <2>3 DEF Places
<1>4. "pending" \in Places /\ "sending" \in Places
  BY DEF Places
<1> HIDE DEF TooOld
<1>5. BookedOnce'
  BY <1>3, <1>4 DEF Books, BookedOnce
<1>6. BookedOpen'
  BY <1>1, <1>2, <1>3, <1>4 DEF Books, BookedOpen
<1>7. ClosedOnce' /\ OneSamplePerProbe'
  BY <1>1, <1>2 DEF Books, ClosedOnce, OneSamplePerProbe
<1> QED  BY <1>5, <1>6, <1>7 DEF Books
\* RecordTimeout closes the probe of a swept entry, or drops the entry.
LEMMA BooksTimeout ==
  ASSUME TypeOK, Books, NEW n \in Nodes, RecordTimeout(n)
  PROVE  Books'
<1>1. PICK p \in expired[n], ok \in BOOLEAN :
        /\ timedOut' = IF ok THEN timedOut \cup {p.xid} ELSE timedOut
        /\ expired' = [expired EXCEPT ![n] = @ \ {p}]
  BY DEF RecordTimeout
<1>2. /\ sending' = sending /\ pending' = pending /\ accepted' = accepted
      /\ issued' = issued
  BY DEF RecordTimeout, rxVars
<1>3. Sampled' = Sampled
  BY <1>2 DEF Sampled
<1>4. p \in Held(n, "expired") /\ "expired" \in Places
  BY DEF Held, Places
<1>5. \A m \in Nodes, k \in Places : \A f \in Held(m, k)' :
        f \in Held(m, k) /\ ~(m = n /\ k = "expired" /\ f = p)
  BY <1>1, <1>2 DEF Held, TypeOK
<1>6. \A m \in Nodes, k \in Places : \A f \in Held(m, k)' : f.xid # p.xid
  BY <1>4, <1>5 DEF Books, BookedOnce
<1>7. BookedOnce'
  BY <1>5 DEF Books, BookedOnce
<1>8. timedOut' \subseteq timedOut \cup {p.xid}
  BY <1>1
<1>9. BookedOpen'
  BY <1>2, <1>3, <1>5, <1>6, <1>8 DEF Books, BookedOpen
<1>10. ClosedOnce'
  <2>1. p.xid \in (1 .. issued) \ (Sampled \cup timedOut)
    BY <1>4 DEF Books, BookedOpen
  <2> QED  BY <1>2, <1>3, <1>8, <2>1 DEF Books, ClosedOnce
<1>11. OneSamplePerProbe'
  BY <1>2 DEF Books, OneSamplePerProbe
<1> QED  BY <1>7, <1>9, <1>10, <1>11 DEF Books

\* Match closes the probe of the entry it removes.
LEMMA BooksMatch ==
  ASSUME TypeOK, Books, NEW n \in Nodes, Match(n)
  PROVE  Books'
<1>1. PICK a \in matching[n], p \in pending[n] :
        /\ pending' = [pending EXCEPT ![n] = @ \ {p}]
        /\ accepted' = [accepted EXCEPT
                          ![n] = @ \cup {SampleOf(n, p, a.resp, a.t4)}]
  BY DEF Match, Book
<1> DEFINE sample == SampleOf(n, p, a.resp, a.t4)
<1>2. sample.xid = p.xid
  BY DEF SampleOf
<1>3. accepted' = [accepted EXCEPT ![n] = @ \cup {sample}]
  BY <1>1
<1> HIDE DEF sample
<1>4. /\ sending' = sending /\ expired' = expired /\ issued' = issued
      /\ timedOut' = timedOut
  BY DEF Match, txVars
<1>5. p \in Held(n, "pending") /\ "pending" \in Places
  BY DEF Held, Places
<1>6. \A m \in Nodes, k \in Places : \A f \in Held(m, k)' :
        f \in Held(m, k) /\ ~(m = n /\ k = "pending" /\ f = p)
  BY <1>1, <1>4 DEF Held, TypeOK
<1>7. \A m \in Nodes, k \in Places : \A f \in Held(m, k)' : f.xid # p.xid
  BY <1>5, <1>6 DEF Books, BookedOnce
<1>8. \A m \in Nodes : \A s \in accepted'[m] :
        s \in accepted[m] \/ s = sample
  BY <1>3 DEF TypeOK
<1>9. Sampled' \subseteq Sampled \cup {p.xid}
  BY <1>2, <1>8 DEF Sampled
<1>10. p.xid \in (1 .. issued) \ (Sampled \cup timedOut)
  BY <1>5 DEF Books, BookedOpen
<1>11. \A m \in Nodes : \A s \in accepted[m] : s.xid # p.xid
  BY <1>10 DEF Sampled
<1>12. OneSamplePerProbe'
  BY <1>2, <1>8, <1>11 DEF Books, OneSamplePerProbe
<1>13. BookedOnce'
  BY <1>6 DEF Books, BookedOnce
<1>14. BookedOpen'
  BY <1>4, <1>6, <1>7, <1>9 DEF Books, BookedOpen
<1>15. ClosedOnce'
  BY <1>4, <1>9, <1>10 DEF Books, ClosedOnce
<1> QED  BY <1>12, <1>13, <1>14, <1>15 DEF Books

\* The books are kept by every step.
LEMMA BooksStep ==
  ASSUME TypeOK, Books, [Next]_vars
  PROVE  Books'
<1>1. CASE Quiet
  BY <1>1, BooksShrink DEF Quiet
<1> QED
  BY <1>1, StepShape, BooksSend, BooksInsert, BooksSweep, BooksTimeout,
     BooksMatch

\* Every reachable state has its books in order.
LEMMA BooksInvariant == Spec => []Books
<1>1. Init => Books
  <2> SUFFICES ASSUME Init PROVE Books
    OBVIOUS
  <2>1. \A n \in Nodes, k \in Places : Held(n, k) = {}
    BY DEF Init, Held, Places
  <2>2. Sampled = {} /\ timedOut = {}
    BY DEF Init, Sampled
  <2> QED
    BY <2>1, <2>2
       DEF Init, Books, BookedOnce, BookedOpen, ClosedOnce, OneSamplePerProbe
<1>2. TypeOK /\ Books /\ [Next]_vars => Books'
  BY BooksStep
<1> QED  BY <1>1, <1>2, TypeCorrect, PTL DEF Spec

\* No interleaving of an answer with a sweep, no duplicate, restart or wrapped
\* sequence number gives a probe two outcomes, or one while it is still open.
THEOREM ProbeHasOneOutcome == Spec => []OneOutcome
<1>1. Books => OneOutcome
  BY OpenDef DEF Books, BookedOpen, ClosedOnce, OneOutcome
<1> QED  BY <1>1, BooksInvariant, PTL

\* No probe yields two samples, however often its answers are delivered.
THEOREM ProbeHasOneSample == Spec => []OneSamplePerProbe
<1>1. Books => OneSamplePerProbe
  BY DEF Books
<1> QED  BY <1>1, BooksInvariant, PTL
-----------------------------------------------------------------------------
(* PeerProbe implements ProbeLedger. *)

\* Init starts tx_loop with nothing sent or swept; every step keeps the two
\* places empty outside the part of the loop that uses them.
LEMMA ControlInvariant == Spec => []Control
<1>1. Init => Control
  BY DEF Init, Control
<1>2. ASSUME TypeOK, Control, [Next]_vars PROVE Control'
  <2> USE DEF Control, TypeOK
  <2>1. CASE Advance
    BY <1>2, <2>1 DEF Advance, txVars
  <2>2. ASSUME NEW n \in Nodes, TxStep(n) PROVE Control'
    <3>1. CASE TxTick(n)
      BY <1>2, <3>1 DEF TxTick
    <3>2. CASE SkipPeer(n)
      BY <1>2, <3>2 DEF SkipPeer
    <3>3. CASE SendProbe(n)
      BY <1>2, <3>3 DEF SendProbe, AtPeer
    <3>4. CASE SendFails(n)
      BY <1>2, <3>4 DEF SendFails
    <3>5. CASE InsertPending(n)
      BY <1>2, <3>5 DEF InsertPending
    <3>6. CASE Sweep(n)
      BY <1>2, <3>6 DEF Sweep
    <3>7. CASE RecordTimeout(n)
      BY <1>2, <3>7 DEF RecordTimeout
    <3>8. CASE SweepDone(n)
      BY <1>2, <3>8 DEF SweepDone
    <3> QED
      BY <2>2, <3>1, <3>2, <3>3, <3>4, <3>5, <3>6, <3>7, <3>8 DEF TxStep
  <2>3. ASSUME NEW n \in Nodes, RxStep(n) PROVE Control'
    <3>1. UNCHANGED txVars
      BY <2>3 DEF RxStep, RecvRequest, SendReply, ReplyFails, RecvBadVersion,
                  RecvResponse, Orphan, Mismatch, Match, StoreDone
    <3> QED  BY <1>2, <3>1 DEF txVars
  <2>4. ASSUME NEW n \in Nodes, Restart(n) PROVE Control'
    BY <1>2, <2>4 DEF Restart
  <2>5. CASE UNCHANGED vars
    BY <1>2, <2>5 DEF vars, txVars
  <2> QED  BY <1>2, <2>1, <2>2, <2>3, <2>4, <2>5 DEF Next
<1> QED  BY <1>1, <1>2, TypeCorrect, PTL DEF Spec

\* The open probes after a step, spelled out.
LEMMA OpenDefNext ==
  ASSUME NEW x
  PROVE  x \in Open' <=>
           \E n \in Nodes, k \in Places : \E e \in Held(n, k)' : x = e.xid
<1>1. \A n \in Nodes :
        sending'[n] \cup pending'[n] \cup expired'[n]
          = UNION {Held(n, k)' : k \in Places}
  BY DEF Held, Places
<1>2. x \in Open' <=>
        \E n \in Nodes :
          \E e \in sending'[n] \cup pending'[n] \cup expired'[n] : x = e.xid
  BY DEF Open, OpenOf
<1> QED  BY <1>1, <1>2

\* A step that books no new probe and closes none forgets probes.
LEMMA StepForgets ==
  ASSUME \A n \in Nodes, k \in Places : \A f \in Held(n, k)' :
           \E m \in Nodes, j \in Places : \E e \in Held(m, j) : e.xid = f.xid,
         UNCHANGED <<accepted, timedOut, issued>>
  PROVE  Ledger!Forget
<1>1. Open' \subseteq Open
  BY OpenDef, OpenDefNext
<1>2. Sampled' = Sampled
  BY DEF Sampled
<1> QED  BY <1>1, <1>2 DEF Ledger!Forget

\* SendProbe issues a probe.
LEMMA SendIssues ==
  ASSUME TypeOK, Control, NEW n \in Nodes, SendProbe(n)
  PROVE  Ledger!Issue
<1>1. sending[n] = {}
  BY DEF Control, SendProbe, AtPeer
<1>2. PICK t1 \in Readings(n) :
        sending' = [sending EXCEPT ![n] =
          {[seq |-> SeqOf(n), peer |-> PeerAt(n).id, t1 |-> t1,
            xid |-> issued + 1]}]
  BY DEF SendProbe
<1> DEFINE e == [seq |-> SeqOf(n), peer |-> PeerAt(n).id, t1 |-> t1,
                 xid |-> issued + 1]
<1>3. e.xid = issued + 1
  OBVIOUS
<1>4. sending' = [sending EXCEPT ![n] = {e}]
  BY <1>2
<1> HIDE DEF e
<1>5. /\ pending' = pending /\ expired' = expired /\ accepted' = accepted
      /\ timedOut' = timedOut /\ issued' = issued + 1
  BY DEF SendProbe, rxVars
<1>6. \A m \in Nodes, k \in Places : \A f :
        f \in Held(m, k)' <=>
          f \in Held(m, k) \/ (m = n /\ k = "sending" /\ f = e)
  BY <1>1, <1>4, <1>5 DEF Held, Places, TypeOK
<1>7. "sending" \in Places
  BY DEF Places
<1>8. ASSUME NEW x PROVE x \in Open' <=> x \in Open \/ x = issued + 1
  BY <1>3, <1>6, <1>7, OpenDef, OpenDefNext
<1>9. Open' = Open \cup {issued + 1}
  BY <1>8
<1>10. Sampled' = Sampled
  BY <1>5 DEF Sampled
<1> QED  BY <1>5, <1>9, <1>10 DEF Ledger!Issue

\* An entry removed from its place is removed from the open probes.
LEMMA OpenLoses ==
  ASSUME TypeOK, Books, NEW n \in Nodes, NEW k \in Places, NEW p \in Held(n, k),
         \A m \in Nodes, j \in Places : \A f :
           f \in Held(m, j)' <=>
             f \in Held(m, j) /\ ~(m = n /\ j = k /\ f = p)
  PROVE  p.xid \in Open /\ Open' = Open \ {p.xid}
<1>1. p.xid \in Open
  BY OpenDef
<1>2. \A m \in Nodes, j \in Places : \A f \in Held(m, j) :
        f.xid = p.xid <=> (m = n /\ j = k /\ f = p)
  BY DEF Books, BookedOnce
<1>3. ASSUME NEW x PROVE x \in Open' <=> x \in Open /\ x # p.xid
  BY <1>2, OpenDef, OpenDefNext
<1> QED  BY <1>1, <1>3

\* RecordTimeout expires a probe or forgets it.
LEMMA TimeoutExpires ==
  ASSUME TypeOK, Books, NEW n \in Nodes, RecordTimeout(n)
  PROVE  Ledger!Forget \/ \E x \in Open : Ledger!Expire(x)
<1>1. PICK p \in expired[n], ok \in BOOLEAN :
        /\ timedOut' = IF ok THEN timedOut \cup {p.xid} ELSE timedOut
        /\ expired' = [expired EXCEPT ![n] = @ \ {p}]
  BY DEF RecordTimeout
<1>2. /\ sending' = sending /\ pending' = pending /\ accepted' = accepted
      /\ issued' = issued
  BY DEF RecordTimeout, rxVars
<1>3. \A m \in Nodes, j \in Places : \A f :
        f \in Held(m, j)' <=>
          f \in Held(m, j) /\ ~(m = n /\ j = "expired" /\ f = p)
  BY <1>1, <1>2 DEF Held, Places, TypeOK
<1>4. p \in Held(n, "expired") /\ "expired" \in Places
  BY DEF Held, Places
<1>5. p.xid \in Open /\ Open' = Open \ {p.xid}
  BY <1>3, <1>4, OpenLoses
<1>6. Sampled' = Sampled
  BY <1>2 DEF Sampled
<1> QED  BY <1>1, <1>2, <1>5, <1>6 DEF Ledger!Forget, Ledger!Expire

\* Match samples a probe.
LEMMA MatchSamples ==
  ASSUME TypeOK, Books, NEW n \in Nodes, Match(n)
  PROVE  \E x \in Open : Ledger!Sample(x)
<1>1. PICK a \in matching[n], p \in pending[n] :
        /\ pending' = [pending EXCEPT ![n] = @ \ {p}]
        /\ accepted' = [accepted EXCEPT
                          ![n] = @ \cup {SampleOf(n, p, a.resp, a.t4)}]
  BY DEF Match, Book
<1> DEFINE sample == SampleOf(n, p, a.resp, a.t4)
<1>2. sample.xid = p.xid
  BY DEF SampleOf
<1>3. accepted' = [accepted EXCEPT ![n] = @ \cup {sample}]
  BY <1>1
<1> HIDE DEF sample
<1>4. /\ sending' = sending /\ expired' = expired /\ issued' = issued
      /\ timedOut' = timedOut
  BY DEF Match, txVars
<1>5. \A m \in Nodes, j \in Places : \A f :
        f \in Held(m, j)' <=>
          f \in Held(m, j) /\ ~(m = n /\ j = "pending" /\ f = p)
  BY <1>1, <1>4 DEF Held, Places, TypeOK
<1>6. p \in Held(n, "pending") /\ "pending" \in Places
  BY DEF Held, Places
<1>7. p.xid \in Open /\ Open' = Open \ {p.xid}
  BY <1>5, <1>6, OpenLoses
<1>8. Sampled' = Sampled \cup {p.xid}
  <2>1. \A m \in Nodes : \A s :
          s \in accepted'[m] <=> s \in accepted[m] \/ (m = n /\ s = sample)
    BY <1>3 DEF TypeOK
  <2> QED  BY <1>2, <2>1 DEF Sampled
<1> QED  BY <1>4, <1>7, <1>8 DEF Ledger!Sample
\* InsertPending and Sweep move entries from one place to another.
LEMMA MoveForgets ==
  ASSUME TypeOK, NEW n \in Nodes, InsertPending(n) \/ Sweep(n)
  PROVE  Ledger!Forget
<1>1. "sending" \in Places /\ "pending" \in Places /\ "expired" \in Places
  BY DEF Places
<1>2. CASE InsertPending(n)
  <2>1. PICK e \in sending[n] :
          pending' = [pending EXCEPT ![n] =
            {p \in @ : p.seq # e.seq} \cup
            {[seq |-> e.seq, peer |-> e.peer, t1 |-> e.t1, xid |-> e.xid,
              sent_at |-> now]}]
    BY <1>2 DEF InsertPending
  <2> DEFINE q == [seq |-> e.seq, peer |-> e.peer, t1 |-> e.t1, xid |-> e.xid,
                   sent_at |-> now]
  <2>2. e.xid = q.xid /\ e \in Held(n, "sending")
    BY DEF Held
  <2>3. pending' = [pending EXCEPT ![n] = {p \in @ : p.seq # e.seq} \cup {q}]
    BY <2>1
  <2> HIDE DEF q
  <2>4. /\ sending' = [sending EXCEPT ![n] = {}] /\ expired' = expired
        /\ UNCHANGED <<accepted, timedOut, issued>>
    BY <1>2 DEF InsertPending, rxVars
  <2>5. \A m \in Nodes, k \in Places : \A f \in Held(m, k)' :
          f \in Held(m, k) \/ f = q
    BY <2>3, <2>4 DEF Held, Places, TypeOK
  <2> QED  BY <1>1, <2>2, <2>4, <2>5, StepForgets
<1>3. CASE Sweep(n)
  <2>1. /\ expired' = [expired EXCEPT ![n] = {p \in pending[n] : TooOld(p)}]
        /\ pending' = [pending EXCEPT ![n] = {p \in @ : ~TooOld(p)}]
        /\ sending' = sending /\ UNCHANGED <<accepted, timedOut, issued>>
    BY <1>3 DEF Sweep, rxVars
  <2>2. \A m \in Nodes, k \in Places : \A f \in Held(m, k)' :
          f \in Held(m, k) \/ f \in Held(m, "pending")
    BY <2>1 DEF Held, Places, TypeOK
  <2> QED  BY <1>1, <2>1, <2>2, StepForgets
<1> QED  BY <1>2, <1>3

\* Sends, matches, sweeps, timeouts, losses and restarts of the probe protocol
\* are steps of the ledger, or leave it as it is.
THEOREM ProbesImplementLedger == Spec => ImplementsLedger
<1>1. Init => Ledger!Init
  <2> SUFFICES ASSUME Init PROVE Ledger!Init
    OBVIOUS
  <2>1. Sampled = {}
    BY DEF Init, Sampled
  <2>2. Open = {}
    BY DEF Init, Open, OpenOf
  <2> QED  BY <2>1, <2>2 DEF Init, Ledger!Init
<1>2. ASSUME TypeOK, Books, Control, [Next]_vars
      PROVE  [Ledger!Next]_Ledger!vars
  <2>1. CASE Quiet
    BY <1>2, <2>1, StepForgets DEF Quiet, Ledger!Next
  <2>2. ASSUME NEW n \in Nodes,
               \/ SendProbe(n) \/ InsertPending(n) \/ Sweep(n)
               \/ RecordTimeout(n) \/ Match(n)
        PROVE  Ledger!Next
    BY <1>2, <2>2, SendIssues, MoveForgets, TimeoutExpires, MatchSamples
       DEF Ledger!Next
  <2> QED  BY <1>2, <2>1, <2>2, StepShape
<1> QED
  BY <1>1, <1>2, TypeCorrect, BooksInvariant, ControlInvariant, PTL
     DEF Spec, ImplementsLedger, Ledger!Spec

-----------------------------------------------------------------------------
(* cleanup_timeouts. *)

\* Deadlines is kept by every step.
LEMMA DeadlinesStep ==
  ASSUME TypeOK, Deadlines, [Next]_vars
  PROVE  Deadlines'
<1> USE TimingAssumption DEF Deadlines, TypeOK
<1>1. CASE Advance
  BY <1>1 DEF Advance, txVars
<1>2. ASSUME NEW n \in Nodes, TxStep(n) PROVE Deadlines'
  <2>1. CASE TxTick(n)
    BY <2>1 DEF TxTick
  <2>2. CASE SkipPeer(n)
    BY <2>2 DEF SkipPeer
  <2>3. CASE SendProbe(n)
    BY <2>3 DEF SendProbe, AtPeer
  <2>4. CASE SendFails(n)
    BY <2>4 DEF SendFails
  <2>5. CASE InsertPending(n)
    BY <2>5 DEF InsertPending
  <2>6. CASE Sweep(n)
    BY <2>6, SMTT(30) DEF Sweep, TooOld, PendingRequest
  <2>7. CASE RecordTimeout(n)
    BY <2>7 DEF RecordTimeout
  <2>8. CASE SweepDone(n)
    BY <2>8 DEF SweepDone
  <2> QED
    BY <1>2, <2>1, <2>2, <2>3, <2>4, <2>5, <2>6, <2>7, <2>8 DEF TxStep
<1>3. ASSUME NEW n \in Nodes, RxStep(n) PROVE Deadlines'
  <2>1. UNCHANGED <<now, txVars>>
    BY <1>3 DEF RxStep, RecvRequest, SendReply, ReplyFails, RecvBadVersion,
                RecvResponse, Orphan, Mismatch, Match, StoreDone
  <2>2. \A m \in Nodes : pending'[m] \subseteq pending[m]
    <3>1. CASE Mismatch(n)
      BY <3>1 DEF Mismatch
    <3>2. CASE Match(n)
      BY <3>2 DEF Match
    <3>3. CASE ~Mismatch(n) /\ ~Match(n)
      <4>1. pending' = pending
        BY <1>3, <3>3
           DEF RxStep, RecvRequest, SendReply, ReplyFails, RecvBadVersion,
               RecvResponse, Orphan, StoreDone
      <4> QED  BY <4>1
    <3> QED  BY <3>1, <3>2, <3>3
  <2> QED  BY <2>1, <2>2 DEF txVars
<1>4. ASSUME NEW n \in Nodes, Restart(n) PROVE Deadlines'
  BY <1>4 DEF Restart
<1>5. CASE UNCHANGED vars
  BY <1>5 DEF vars, txVars
<1> QED  BY <1>1, <1>2, <1>3, <1>4, <1>5 DEF Next

\* When tx_loop waits for its timer, no entry of `pending` outlives the time-out
\* by more than an interval.
THEOREM SweepLeavesNothingStale == Spec => []NoStalePending
<1>1. Init => Deadlines
  BY DEF Init, Deadlines
<1>2. TypeOK /\ Deadlines /\ [Next]_vars => Deadlines'
  BY DeadlinesStep
<1>3. Deadlines => NoStalePending
  BY DEF Deadlines, NoStalePending
<1> QED  BY <1>1, <1>2, <1>3, TypeCorrect, PTL DEF Spec
-----------------------------------------------------------------------------
(* The cadence of tx_loop. *)

\* The shots the burst under way has taken at the entry i of the peer list.
Fired(n, i) ==
  IF i < cursor[n].peer THEN Burst
  ELSE IF i = cursor[n].peer
    THEN (cursor[n].shot - 1) + (IF txpc[n] = "insert" THEN 1 ELSE 0)
    ELSE 0

\* After k ticks of a run every target has had k bursts, the last of them, while it is
\* under way, up to the shot the loop is at; the other entries have had none.
Cadence(n, k) ==
  /\ due[n] = boot[n] + k * Interval
  /\ k > 0 => boot[n] + (k - 1) * Interval <= now
  /\ \A i \in DOMAIN Peers[n] \ Targets(n) : shots[n][i] = 0
  /\ txpc[n] \in {"tick", "record"} =>
        \A i \in Targets(n) : shots[n][i] = k * Burst
  /\ txpc[n] \in {"probe", "insert"} =>
        /\ k > 0 /\ cursor[n].shot <= Burst
        /\ cursor[n].shot > 1 \/ txpc[n] = "insert" => cursor[n].peer \in Targets(n)
        /\ \A i \in Targets(n) : shots[n][i] = (k - 1) * Burst + Fired(n, i)
CadenceInv ==
  \A n \in Nodes : boot[n] <= now /\ \E k \in Nat : Cadence(n, k)

\* The targets are entries of the peer list, counted from 1.
LEMMA TargetsType ==
  ASSUME NEW n \in Nodes
  PROVE  /\ Len(Peers[n]) \in Nat /\ DOMAIN Peers[n] = 1 .. Len(Peers[n])
         /\ Targets(n) \subseteq 1 .. Len(Peers[n])
<1>1. Peers[n] \in Seq(PeerEntry)
  BY ConfigAssumption
<1> QED  BY <1>1 DEF Targets

\* The entry tx_loop probes is a target, one it skips is none.
LEMMA CursorAt ==
  ASSUME TypeOK, NEW n \in Nodes
  PROVE  /\ AtPeer(n) => (Skipped(n) <=> cursor[n].peer \notin Targets(n))
         /\ cursor[n].peer > Len(Peers[n]) => cursor[n].peer \notin Targets(n)
<1>1. cursor[n].peer \in Nat \ {0}
  BY DEF TypeOK
<1> QED  BY <1>1, TargetsType DEF AtPeer, Skipped, PeerAt, Targets

\* Steps elsewhere, and time passing, keep the cadence of a node.
LEMMA CadenceFrame ==
  ASSUME TypeOK, NEW n \in Nodes, NEW k \in Nat, Cadence(n, k), boot[n] <= now,
         now' \in Nat, now <= now',
         due'[n] = due[n], boot'[n] = boot[n], shots'[n] = shots[n],
         txpc'[n] = txpc[n], cursor'[n] = cursor[n]
  PROVE  boot'[n] <= now' /\ Cadence(n, k)'
<1>1. now \in Nat /\ boot[n] \in Nat /\ Interval \in Nat
  BY TimingAssumption DEF TypeOK
<1> DEFINE before == (k - 1) * Interval
<1>2. before \in Int
  <2>1. \A u, v \in Int : u * v \in Int
    OBVIOUS
  <2>2. k - 1 \in Int /\ Interval \in Int
    BY <1>1
  <2> QED  BY <2>1, <2>2
<1>3. k > 0 => boot[n] + before <= now
  BY DEF Cadence
<1> HIDE DEF before
<1>4. k > 0 => boot'[n] + before <= now'
  BY <1>1, <1>2, <1>3
<1>5. Targets(n)' = Targets(n)
  BY DEF Targets
<1>6. \A i : Fired(n, i)' = Fired(n, i)
  BY DEF Fired
<1> QED  BY <1>1, <1>4, <1>5, <1>6 DEF Cadence, before

\* A step of its own keeps it, a burst being owed to every target as the tick fires.
LEMMA CadenceTx ==
  ASSUME TypeOK, NEW n \in Nodes, NEW k \in Nat, Cadence(n, k), boot[n] <= now, TxStep(n)
  PROVE  boot'[n] <= now' /\ \E j \in Nat : Cadence(n, j)'
<1> DEFINE at == cursor[n].peer
           shot == cursor[n].shot
           spent == (k - 1) * Burst
<1>1. /\ now \in Nat /\ boot[n] \in Nat /\ due[n] \in Nat
      /\ at \in Nat \ {0} /\ shot \in Nat \ {0}
      /\ Burst \in Nat \ {0} /\ Interval \in Nat \ {0}
      /\ shots[n] \in [DOMAIN Peers[n] -> Nat]
  BY TimingAssumption DEF TypeOK
<1>2. \A u, v \in Int : u * v \in Int
  OBVIOUS
<1>3. spent \in Int /\ k * Burst \in Int /\ spent + Burst = k * Burst
  <2>1. k - 1 \in Int /\ Burst \in Int
    BY <1>1
  <2> QED  BY <1>1, <1>2, <2>1
<1>4. UNCHANGED <<now, boot>> /\ Targets(n)' = Targets(n)
  BY DEF TxStep, TxTick, SkipPeer, SendProbe, SendFails, InsertPending, Sweep,
         RecordTimeout, SweepDone, Targets
<1>5. \A i \in Targets(n) : i \in Nat \ {0} /\ i \in DOMAIN Peers[n] /\ i <= Len(Peers[n])
  BY TargetsType
<1>6. \A i \in DOMAIN Peers[n] \ Targets(n) : shots[n][i] = 0
  BY DEF Cadence
<1>7. CASE TxTick(n)
  <2>1. /\ txpc[n] = "tick" /\ due[n] <= now /\ due'[n] = due[n] + Interval
        /\ txpc'[n] = "probe" /\ cursor'[n] = [peer |-> 1, shot |-> 1] /\ shots' = shots
    BY <1>7 DEF TxTick, TypeOK
  <2>2. due[n] = boot[n] + k * Interval /\ \A i \in Targets(n) : shots[n][i] = k * Burst
    BY <2>1 DEF Cadence
  <2>3. due'[n] = boot[n] + (k + 1) * Interval /\ (k + 1) - 1 = k /\ k + 1 \in Nat /\ k + 1 > 0
    BY <1>1, <2>1, <2>2
  <2>4. boot[n] + k * Interval <= now
    BY <2>1, <2>2
  <2>5. \A i \in Targets(n) : Fired(n, i)' = 0
    BY <1>5, <2>1 DEF Fired
  <2>6. \A i \in Targets(n) : shots'[n][i] = k * Burst + Fired(n, i)'
    BY <1>3, <2>1, <2>2, <2>5
  <2>7. Cadence(n, k + 1)'
    BY <1>1, <1>4, <1>6, <2>1, <2>3, <2>4, <2>6 DEF Cadence
  <2> QED  BY <1>4, <2>3, <2>7
<1>8. CASE SweepDone(n) \/ RecordTimeout(n)
  <2>1. /\ UNCHANGED <<due, shots>>
        /\ txpc[n] \in {"tick", "record"} /\ txpc'[n] \in {"tick", "record"}
    BY <1>8 DEF SweepDone, RecordTimeout, TypeOK
  <2>2. Cadence(n, k)'
    BY <1>4, <2>1 DEF Cadence
  <2> QED  BY <1>4, <2>2
<1>9. txpc[n] \in {"probe", "insert"} =>
        /\ k > 0 /\ shot <= Burst
        /\ shot > 1 \/ txpc[n] = "insert" => at \in Targets(n)
        /\ \A i \in Targets(n) : shots[n][i] = spent + Fired(n, i)
  BY DEF Cadence
\* While the burst goes on, the cadence is kept when the shots grow as Fired does.
<1>10. ASSUME due'[n] = due[n], txpc[n] \in {"probe", "insert"},
              txpc'[n] \in {"probe", "insert"}, cursor'[n].shot <= Burst,
              cursor'[n].shot > 1 \/ txpc'[n] = "insert" => cursor'[n].peer \in Targets(n),
              \A i \in DOMAIN Peers[n] \ Targets(n) : shots'[n][i] = shots[n][i],
              \A i \in Targets(n) :
                shots'[n][i] - shots[n][i] = Fired(n, i)' - Fired(n, i),
              \A i \in Targets(n) : shots'[n][i] \in Int /\ Fired(n, i)' \in Int
       PROVE  boot'[n] <= now' /\ \E j \in Nat : Cadence(n, j)'
  <2>1. ASSUME NEW i \in Targets(n)
        PROVE  shots'[n][i] = spent + Fired(n, i)'
    <3>1. shots[n][i] = spent + Fired(n, i) /\ shots[n][i] \in Int /\ Fired(n, i) \in Int
      BY <1>1, <1>5, <1>9, <1>10 DEF Fired
    <3>2. shots'[n][i] - shots[n][i] = Fired(n, i)' - Fired(n, i)
          /\ shots'[n][i] \in Int /\ Fired(n, i)' \in Int
      BY <1>10
    <3> DEFINE x == shots[n][i]
               y == shots'[n][i]
               f == Fired(n, i)
               g == Fired(n, i)'
    <3>3. x = spent + f /\ y - x = g - f /\ x \in Int /\ y \in Int /\ f \in Int /\ g \in Int
      BY <3>1, <3>2
    <3> HIDE DEF x, y, f, g, spent
    <3>4. y = spent + g
      BY <1>3, <3>3
    <3> QED  BY <3>4 DEF y, g, spent
  <2>2. k > 0 /\ txpc'[n] \notin {"tick", "record"}
    BY <1>9, <1>10
  <2>3. \A i \in DOMAIN Peers[n] \ Targets(n) : shots'[n][i] = 0
    BY <1>6, <1>10
  <2>4. due'[n] = boot[n] + k * Interval /\ boot[n] + (k - 1) * Interval <= now
    BY <1>10, <2>2 DEF Cadence
  <2>5. Cadence(n, k)'
    BY <1>4, <1>10, <2>1, <2>2, <2>3, <2>4 DEF Cadence
  <2> QED  BY <1>4, <2>5
<1>11. CASE Sweep(n)
  <2>1. /\ UNCHANGED <<due, shots>> /\ txpc[n] = "probe" /\ txpc'[n] = "record"
        /\ at > Len(Peers[n])
    BY <1>11 DEF Sweep, TypeOK
  <2>2. ASSUME NEW i \in Targets(n)
        PROVE  shots'[n][i] = k * Burst
    <3>1. i < at
      BY <1>1, <1>5, <2>1, TargetsType
    <3>2. Fired(n, i) = Burst
      BY <3>1 DEF Fired
    <3> QED  BY <1>3, <1>9, <2>1, <3>2
  <2>3. Cadence(n, k)'
    BY <1>4, <2>1, <2>2 DEF Cadence
  <2> QED  BY <1>4, <2>3
<1>12. CASE SkipPeer(n)
  <2>1. /\ UNCHANGED <<due, shots, txpc>> /\ txpc[n] = "probe"
        /\ cursor'[n] = [peer |-> at + 1, shot |-> 1]
        /\ at \notin Targets(n)
    BY <1>12, CursorAt DEF SkipPeer, AtPeer, NextPeer, TypeOK
  <2>2. shot = 1
    BY <1>1, <1>9, <2>1
  <2>3. ASSUME NEW i \in Targets(n)
        PROVE  Fired(n, i)' = Fired(n, i) /\ Fired(n, i) \in Int
    <3>1. i # at /\ i \in Nat
      BY <1>5, <2>1
    <3> QED  BY <1>1, <2>1, <3>1 DEF Fired
  <2>4. \A i \in Targets(n) :
          shots'[n][i] - shots[n][i] = Fired(n, i)' - Fired(n, i) /\ shots'[n][i] \in Int
    BY <1>1, <1>5, <2>1, <2>3
  <2>5. cursor'[n].shot = 1 /\ 1 <= Burst
    BY <1>1, <2>1
  <2> QED  BY <1>10, <2>1, <2>3, <2>4, <2>5
<1>13. CASE SendProbe(n)
  <2>1. /\ UNCHANGED <<due, cursor>> /\ txpc[n] = "probe" /\ txpc'[n] = "insert"
        /\ shots'[n] = [shots[n] EXCEPT ![at] = @ + 1]
        /\ at \in Targets(n)
    BY <1>13, CursorAt DEF SendProbe, Shot, AtPeer, TypeOK
  <2>2. \A i \in DOMAIN Peers[n] : i # at => shots'[n][i] = shots[n][i]
    BY <1>1, <2>1
  <2>3. shots'[n][at] = shots[n][at] + 1
    BY <1>1, <1>5, <2>1
  <2>4. ASSUME NEW i \in Targets(n)
        PROVE  /\ shots'[n][i] - shots[n][i] = Fired(n, i)' - Fired(n, i)
               /\ shots'[n][i] \in Int /\ Fired(n, i)' \in Int
    <3>1. shots[n][i] \in Int /\ i \in Nat /\ i \in DOMAIN Peers[n]
      BY <1>1, <1>5
    <3>2. CASE i = at
      BY <1>1, <2>1, <2>3, <3>1, <3>2 DEF Fired
    <3>3. CASE i # at
      BY <1>1, <2>1, <2>2, <3>1, <3>3 DEF Fired
    <3> QED  BY <3>2, <3>3
  <2>5. cursor'[n].shot <= Burst /\ cursor'[n].peer \in Targets(n)
    BY <1>9, <2>1
  <2> QED  BY <1>10, <2>1, <2>2, <2>4, <2>5
<1>14. ASSUME \/ SendFails(n) /\ shots'[n] = [shots[n] EXCEPT ![at] = @ + 1] /\ txpc[n] = "probe"
              \/ InsertPending(n) /\ shots'[n] = shots[n] /\ txpc[n] = "insert"
       PROVE  boot'[n] <= now' /\ \E j \in Nat : Cadence(n, j)'
  <2>1. /\ due' = due /\ txpc'[n] = "probe" /\ cursor'[n] = NextShot(cursor[n])
        /\ at \in Targets(n)
    <3>1. CASE SendFails(n)
      BY <1>14, <3>1, CursorAt DEF SendFails, AtPeer, TypeOK
    <3>2. CASE InsertPending(n)
      BY <1>9, <1>14, <3>2 DEF InsertPending, SendFails, AtPeer, TypeOK
    <3> QED  BY <1>14, <3>1, <3>2
  <2>2. \A i \in DOMAIN Peers[n] : i # at => shots'[n][i] = shots[n][i]
    BY <1>1, <1>14
  <2>3. shots'[n][at] - shots[n][at] = (IF txpc[n] = "insert" THEN 0 ELSE 1)
        /\ shots[n][at] \in Int /\ shots'[n][at] \in Int
    BY <1>1, <1>5, <1>14, <2>1
  <2>4. shot <= Burst
    BY <1>9, <1>14
  <2>5. /\ shot < Burst => cursor'[n].peer = at /\ cursor'[n].shot = shot + 1
        /\ ~ (shot < Burst) => cursor'[n].peer = at + 1 /\ cursor'[n].shot = 1
    BY <2>1 DEF NextShot, NextPeer, TypeOK
  <2>6. Fired(n, at) = (shot - 1) + (IF txpc[n] = "insert" THEN 1 ELSE 0)
    BY <1>1 DEF Fired
  <2>7. ASSUME NEW i \in Targets(n), i = at
        PROVE  Fired(n, i)' = shot
    <3>1. txpc'[n] # "insert"
      BY <2>1
    <3>2. CASE shot < Burst
      BY <1>1, <2>5, <2>7, <3>1, <3>2 DEF Fired
    <3>3. CASE ~ (shot < Burst)
      BY <1>1, <2>4, <2>5, <2>7, <3>3 DEF Fired
    <3> QED  BY <3>2, <3>3
  <2>8. ASSUME NEW i \in Targets(n)
        PROVE  /\ shots'[n][i] - shots[n][i] = Fired(n, i)' - Fired(n, i)
               /\ shots'[n][i] \in Int /\ Fired(n, i)' \in Int
    <3>1. shots[n][i] \in Int /\ i \in Nat /\ i \in DOMAIN Peers[n]
      BY <1>1, <1>5
    <3>2. CASE i = at
      <4>1. Fired(n, i) = shot - 1 + (IF txpc[n] = "insert" THEN 1 ELSE 0) /\ Fired(n, i)' = shot
        BY <2>6, <2>7, <3>2
      <4>2. shots'[n][i] - shots[n][i] = (IF txpc[n] = "insert" THEN 0 ELSE 1)
            /\ shots'[n][i] \in Int
        BY <2>3, <3>2
      <4> QED  BY <1>1, <4>1, <4>2
    <3>3. CASE i # at
      <4>1. Fired(n, i)' = Fired(n, i) /\ Fired(n, i) \in Int
        BY <1>1, <2>1, <2>5, <3>1, <3>3 DEF Fired
      <4> QED  BY <2>2, <3>1, <3>3, <4>1
    <3> QED  BY <3>2, <3>3
  <2>9. cursor'[n].shot <= Burst /\ (cursor'[n].shot > 1 => cursor'[n].peer \in Targets(n))
    BY <1>1, <2>1, <2>5
  <2> QED  BY <1>10, <1>14, <2>1, <2>2, <2>8, <2>9
<1>15. CASE SendFails(n)
  <2>1. shots'[n] = [shots[n] EXCEPT ![at] = @ + 1] /\ txpc[n] = "probe"
    BY <1>15 DEF SendFails, Shot, AtPeer, TypeOK
  <2> QED  BY <1>14, <1>15, <2>1
<1>16. CASE InsertPending(n)
  <2>1. shots'[n] = shots[n] /\ txpc[n] = "insert"
    BY <1>16 DEF InsertPending, TypeOK
  <2> QED  BY <1>14, <1>16, <2>1
<1> QED  BY <1>7, <1>8, <1>11, <1>12, <1>13, <1>15, <1>16 DEF TxStep

\* Every step keeps the cadence of all nodes.
LEMMA CadenceStep ==
  ASSUME TypeOK, CadenceInv, [Next]_vars
  PROVE  CadenceInv'
<1> SUFFICES ASSUME NEW n \in Nodes
             PROVE  boot'[n] <= now' /\ \E k \in Nat : Cadence(n, k)'
  BY DEF CadenceInv
<1>1. PICK k \in Nat : Cadence(n, k)
  BY DEF CadenceInv
<1>2. boot[n] <= now
  BY DEF CadenceInv
<1>3. CASE /\ now' \in Nat /\ now <= now'
           /\ due'[n] = due[n] /\ boot'[n] = boot[n] /\ shots'[n] = shots[n]
           /\ txpc'[n] = txpc[n] /\ cursor'[n] = cursor[n]
  BY <1>1, <1>2, <1>3, CadenceFrame
<1>4. CASE Advance \/ UNCHANGED vars
  <2>1. now' \in Nat /\ now <= now'
    BY <1>4 DEF Advance, vars, TypeOK
  <2>2. UNCHANGED <<due, boot, shots, txpc, cursor>>
    BY <1>4 DEF Advance, vars, txVars
  <2> QED  BY <1>3, <2>1, <2>2
<1>5. ASSUME NEW m \in Nodes, RxStep(m)
      PROVE  boot'[n] <= now' /\ \E j \in Nat : Cadence(n, j)'
  <2>1. UNCHANGED <<now, due, boot, shots, txpc, cursor>>
    BY <1>5 DEF RxStep, RecvRequest, SendReply, ReplyFails, RecvBadVersion, RecvResponse,
                Orphan, Mismatch, Match, StoreDone, txVars
  <2>2. now \in Nat
    BY DEF TypeOK
  <2> QED  BY <1>3, <2>1, <2>2
<1>6. ASSUME NEW m \in Nodes, TxStep(m)
      PROVE  boot'[n] <= now' /\ \E j \in Nat : Cadence(n, j)'
  <2>1. CASE m = n
    BY <1>1, <1>2, <1>6, <2>1, CadenceTx
  <2>2. CASE m # n
    <3>1. /\ UNCHANGED <<now, boot>>
          /\ due'[n] = due[n] /\ shots'[n] = shots[n]
          /\ txpc'[n] = txpc[n] /\ cursor'[n] = cursor[n]
      BY <1>6, <2>2 DEF TypeOK, TxStep, TxTick, SkipPeer, SendProbe, SendFails, InsertPending,
                        Sweep, RecordTimeout, SweepDone, Shot
    <3>2. now \in Nat
      BY DEF TypeOK
    <3> QED  BY <1>3, <3>1, <3>2
  <2> QED  BY <2>1, <2>2
<1>7. ASSUME NEW m \in Nodes, Restart(m)
      PROVE  boot'[n] <= now' /\ \E j \in Nat : Cadence(n, j)'
  <2>1. now' = now /\ now \in Nat
    BY <1>7 DEF Restart, TypeOK
  <2>2. CASE m = n
    <3>1. /\ boot'[n] = now /\ due'[n] = now /\ txpc'[n] = "tick"
          /\ shots'[n] = [i \in DOMAIN Peers[n] |-> 0]
      BY <1>7, <2>2 DEF Restart, TypeOK
    <3>2. 0 * Burst = 0 /\ 0 * Interval = 0 /\ Targets(n)' = Targets(n)
      BY TimingAssumption DEF Targets
    <3>3. \A i \in DOMAIN Peers[n] : shots'[n][i] = 0
      BY <3>1
    <3>4. Cadence(n, 0)'
      BY <2>1, <3>1, <3>2, <3>3, TargetsType DEF Cadence
    <3> QED  BY <2>1, <3>1, <3>4
  <2>3. CASE m # n
    <3>1. /\ due'[n] = due[n] /\ shots'[n] = shots[n] /\ boot'[n] = boot[n]
          /\ txpc'[n] = txpc[n] /\ cursor'[n] = cursor[n]
      BY <1>7, <2>3 DEF Restart, TypeOK
    <3> QED  BY <1>3, <2>1, <3>1
  <2> QED  BY <2>2, <2>3
<1> QED  BY <1>4, <1>5, <1>6, <1>7 DEF Next

\* tx_loop takes no more shots at an entry of the peer list than a burst for every
\* interval begun since the process started, whatever ticks it missed and caught up and
\* whatever sends failed, and is never more than a burst ahead at one of them.
THEOREM CadenceIsKept == Spec => []CadenceBudget
<1>1. Init => CadenceInv
  <2> SUFFICES ASSUME Init, NEW n \in Nodes
               PROVE  boot[n] <= now /\ Cadence(n, 0)
    BY DEF CadenceInv
  <2>1. now = 0 /\ boot[n] = 0 /\ due[n] = 0 /\ txpc[n] = "tick"
        /\ shots[n] = [i \in DOMAIN Peers[n] |-> 0]
    BY DEF Init
  <2>2. 0 * Burst = 0 /\ 0 * Interval = 0
    BY TimingAssumption
  <2>3. \A i \in DOMAIN Peers[n] : shots[n][i] = 0
    BY <2>1
  <2> QED  BY <2>1, <2>2, <2>3, TargetsType DEF Cadence
<1>2. TypeOK /\ CadenceInv => CadenceBudget
  <2> SUFFICES ASSUME TypeOK, CadenceInv, NEW n \in Nodes, NEW i \in DOMAIN Peers[n]
               PROVE  /\ shots[n][i] <= Burst * ((now - boot[n]) \div Interval + 1)
                      /\ \A j \in Targets(n) : shots[n][i] - shots[n][j] <= Burst
    BY DEF CadenceBudget
  <2>1. PICK k \in Nat : Cadence(n, k)
    BY DEF CadenceInv
  <2> DEFINE q == (now - boot[n]) \div Interval
             base == IF txpc[n] \in {"tick", "record"} THEN k * Burst ELSE (k - 1) * Burst
  <2>2. /\ now - boot[n] \in Nat /\ boot[n] \in Nat /\ now \in Nat
        /\ Interval \in Nat \ {0} /\ Burst \in Nat \ {0}
        /\ cursor[n].peer \in Nat \ {0} /\ cursor[n].shot \in Nat \ {0}
        /\ shots[n] \in [DOMAIN Peers[n] -> Nat]
    BY TimingAssumption DEF CadenceInv, TypeOK
  <2>3. q \in Nat /\ k <= q + 1
    <3> DEFINE t == now - boot[n]
    <3>1. t \in Nat /\ q = t \div Interval
      BY <2>2
    <3>2. k > 0 => (k - 1) * Interval <= t
      <4>1. (k - 1) * Interval \in Int
        <5>1. \A u, v \in Int : u * v \in Int
          OBVIOUS
        <5> QED  BY <2>2, <5>1
      <4>2. k > 0 => boot[n] + (k - 1) * Interval <= now
        BY <2>1 DEF Cadence
      <4> QED  BY <2>2, <4>1, <4>2
    <3> HIDE DEF q, t
    <3>3. q \in Nat /\ Interval * q <= t /\ t < Interval * q + Interval
      BY <2>2, <3>1, Quotient
    <3>4. Interval * q + Interval = (q + 1) * Interval /\ Interval * q \in Int
      BY <2>2, <3>3
    <3>5. ASSUME k > 0 PROVE k - 1 < q + 1
      <4> DEFINE u == k - 1
                 v == q + 1
      <4>1. u \in Int /\ v \in Int /\ u * Interval \in Int /\ v * Interval \in Int
        BY <2>2, <3>3, Factor
      <4>2. u * Interval <= t /\ t < v * Interval
        BY <3>2, <3>3, <3>4, <3>5
      <4> HIDE DEF u, v
      <4>3. u * Interval < v * Interval
        <5> DEFINE uI == u * Interval
                   vI == v * Interval
        <5>1. uI \in Int /\ vI \in Int /\ uI <= t /\ t < vI
          BY <4>1, <4>2
        <5> HIDE DEF uI, vI
        <5>2. uI < vI
          BY <3>1, <5>1
        <5> QED  BY <5>2 DEF uI, vI
      <4>4. u < v
        BY <2>2, <4>1, <4>3, Scaled
      <4> QED  BY <4>4 DEF u, v
    <3> QED  BY <3>3, <3>5
  <2>4. base \in Int /\ base <= k * Burst /\ k * Burst \in Int
        /\ (txpc[n] \notin {"tick", "record"} => base + Burst = k * Burst)
    <3>1. (k - 1) * Burst \in Int /\ k * Burst \in Int /\ (k - 1) * Burst + Burst = k * Burst
      BY <2>2
    <3> QED  BY <2>2, <3>1
  <2>5. \A j \in DOMAIN Peers[n] \ Targets(n) : shots[n][j] = 0
    BY <2>1 DEF Cadence
  \* A target has had the bursts before the one under way, and no more than that one.
  <2>6. ASSUME NEW j \in Targets(n)
        PROVE  shots[n][j] \in Nat /\ base <= shots[n][j] /\ shots[n][j] <= base + Burst
               /\ shots[n][j] <= k * Burst
    <3>1. shots[n][j] \in Nat /\ j \in Nat
      BY <2>2, TargetsType
    <3>2. CASE txpc[n] \in {"tick", "record"}
      <4>1. shots[n][j] = base /\ base = k * Burst
        BY <2>1, <3>2 DEF Cadence
      <4> HIDE DEF base
      <4> QED  BY <2>2, <2>4, <3>1, <4>1
    <3>3. CASE txpc[n] \in {"probe", "insert"}
      <4>1. txpc[n] \notin {"tick", "record"}
        BY <3>3
      <4>2. shots[n][j] = base + Fired(n, j) /\ cursor[n].shot <= Burst
        BY <2>1, <3>3, <4>1 DEF Cadence
      <4>3. Fired(n, j) \in Nat /\ Fired(n, j) <= Burst
        BY <2>2, <3>1, <4>2 DEF Fired
      <4> HIDE DEF base
      <4> QED  BY <2>2, <2>4, <3>1, <4>1, <4>2, <4>3
    <3> QED  BY <3>2, <3>3 DEF TypeOK
  <2> HIDE DEF base
  <2>7. \A j \in Targets(n) : shots[n][i] - shots[n][j] <= Burst
    <3>1. CASE i \in Targets(n)
      BY <2>2, <2>4, <2>6, <3>1
    <3>2. CASE i \notin Targets(n)
      BY <2>2, <2>5, <2>6, <3>2
    <3> QED  BY <3>1, <3>2
  <2>8. k * Burst <= Burst * (q + 1) /\ k * Burst >= 0 /\ Burst * (q + 1) \in Int
    <3> HIDE DEF q
    <3>1. \A u, v \in Nat : u <= v => Burst * u <= Burst * v /\ Burst * u \in Nat
      BY <2>2
    <3>2. k * Burst = Burst * k
      BY <2>2
    <3> QED  BY <2>3, <3>1, <3>2
  <2>9. shots[n][i] <= k * Burst
    <3>1. CASE i \in Targets(n)
      BY <2>6, <3>1
    <3>2. CASE i \notin Targets(n)
      BY <2>5, <2>8, <3>2
    <3> QED  BY <3>1, <3>2
  <2>10. shots[n][i] <= Burst * (q + 1)
    <3> HIDE DEF q
    <3> QED  BY <2>2, <2>4, <2>8, <2>9
  <2> QED  BY <2>7, <2>10
<1> QED  BY <1>1, <1>2, CadenceStep, TypeCorrect, PTL DEF Spec
=============================================================================
