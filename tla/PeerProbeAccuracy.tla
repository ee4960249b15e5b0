------------------------- MODULE PeerProbeAccuracy --------------------------
(***************************************************************************)
(* Theorems about the samples of PeerProbe: whose they are, how accurate   *)
(* they are, and when a response is matched with the probe it answers.     *)
(***************************************************************************)
EXTENDS PeerProbeProofs

-----------------------------------------------------------------------------
(* Origin of a sample. *)

\* Steps that touch no response and no sample keep Named.
LEMMA NamedFrame ==
  ASSUME Named, UNCHANGED accepted, resps' \subseteq resps,
         \A n \in Nodes : \A a \in matching'[n] :
            a \in matching[n] \/ a.resp \in resps
  PROVE  Named'
BY DEF Named, SampleFromNamedPeer

\* Named is kept by every step.
LEMMA NamedStep ==
  ASSUME TypeOK, Named, [Next]_vars
  PROVE  Named'
<1>1. CASE Advance
  BY <1>1, NamedFrame DEF Advance, rxVars, netVars
<1>2. ASSUME NEW n \in Nodes, TxStep(n) PROVE Named'
  <2>1. UNCHANGED <<accepted, resps, matching>>
    BY <1>2 DEF TxStep, TxTick, SkipPeer, SendProbe, SendFails, InsertPending,
                Sweep, RecordTimeout, SweepDone, rxVars, netVars
  <2> QED  BY <2>1, NamedFrame
<1>3. ASSUME NEW n \in Nodes, RxStep(n) PROVE Named'
  <2>1. CASE SendReply(n)
    <3>1. PICK s \in serving[n], t3 \in Readings(n) :
            resps' = resps \cup
             {[to |-> s.req.from, from |-> n, ver |-> Version[n],
               seq |-> s.req.seq, server_id |-> NodeId[n],
               t1_echo |-> s.req.t1, t2 |-> s.t2, t3 |-> t3, xid |-> s.req.xid]}
      BY <2>1 DEF SendReply
    <3>2. UNCHANGED <<accepted, matching>>
      BY <2>1 DEF SendReply
    <3>3. \A m \in resps' : m.server_id = NodeId[m.from]
      BY <3>1 DEF Named
    <3> QED  BY <3>2, <3>3 DEF Named, SampleFromNamedPeer
  <2>2. CASE RecvResponse(n)
    <3>1. PICK m \in resps, keep \in BOOLEAN, t4 \in Readings(n) :
            /\ resps' = Delivered(resps, m, keep)
            /\ matching' = [matching EXCEPT ![n] = {[resp |-> m, t4 |-> t4]}]
      BY <2>2 DEF RecvResponse
    <3>2. \A i \in Nodes : \A a \in matching'[i] :
            a \in matching[i] \/ a.resp \in resps
      BY <3>1 DEF TypeOK
    <3> QED  BY <2>2, <3>1, <3>2, NamedFrame DEF RecvResponse, Delivered
  <2>3. CASE Match(n)
    <3>1. PICK a \in matching[n], p \in pending[n] :
            /\ p.peer = a.resp.server_id
            /\ accepted' = [accepted EXCEPT
                              ![n] = @ \cup {SampleOf(n, p, a.resp, a.t4)}]
      BY <2>3 DEF Match, Book
    <3> DEFINE sample == SampleOf(n, p, a.resp, a.t4)
    <3>2. sample.server = a.resp.from /\ sample.peer = p.peer
      BY DEF SampleOf
    <3>3. accepted' = [accepted EXCEPT ![n] = @ \cup {sample}]
      BY <3>1
    <3> HIDE DEF sample
    <3>4. NodeId[sample.server] = sample.peer
      BY <3>1, <3>2 DEF Named
    <3>5. SampleFromNamedPeer'
      BY <3>3, <3>4 DEF Named, SampleFromNamedPeer, TypeOK
    <3>6. /\ UNCHANGED resps
          /\ \A i \in Nodes : matching'[i] \subseteq matching[i]
      BY <2>3 DEF Match, netVars, TypeOK
    <3> QED  BY <3>5, <3>6 DEF Named
  <2>4. CASE Orphan(n) \/ Mismatch(n)
    <3>1. /\ UNCHANGED <<accepted, resps>>
          /\ matching' = [matching EXCEPT ![n] = {}]
      BY <2>4 DEF Orphan, Mismatch, netVars
    <3> QED  BY <3>1, NamedFrame DEF TypeOK
  <2>5. CASE RecvRequest(n) \/ ReplyFails(n) \/ RecvBadVersion(n) \/ StoreDone(n)
    <3>1. UNCHANGED <<accepted, resps, matching>>
      BY <2>5 DEF RecvRequest, ReplyFails, RecvBadVersion, StoreDone, rxVars,
                  netVars
    <3> QED  BY <3>1, NamedFrame
  <2> QED  BY <1>3, <2>1, <2>2, <2>3, <2>4, <2>5 DEF RxStep
<1>4. ASSUME NEW n \in Nodes, Restart(n) PROVE Named'
  BY <1>4, NamedFrame DEF Restart, netVars, TypeOK
<1>5. CASE UNCHANGED vars
  BY <1>5, NamedFrame DEF vars, rxVars, netVars
<1> QED  BY <1>1, <1>2, <1>3, <1>4, <1>5 DEF Next

\* Also with wrong addresses, restarts and duplicates, a sample is booked under
\* the id of the process that answered.
THEOREM SampleOrigin == Spec => []SampleFromNamedPeer
<1>1. Init => Named
  BY DEF Init, Named, SampleFromNamedPeer
<1>2. TypeOK /\ Named /\ [Next]_vars => Named'
  BY NamedStep
<1>3. Named => SampleFromNamedPeer
  BY DEF Named
<1> QED  BY <1>1, <1>2, <1>3, TypeCorrect, PTL DEF Spec
-----------------------------------------------------------------------------
(* Accuracy of a sample. *)

\* A clock that never falls back reads true time plus its skew.
LEMMA SteadyReading ==
  ASSUME NEW n \in Nodes \ Flaky, NEW r \in Readings(n), now \in Nat
  PROVE  r = now + Skew[n] /\ r - Skew[n] = now
BY ConfigAssumption DEF Readings

\* A clock error is an integer.
LEMMA SkewType ==
  ASSUME NEW n \in Nodes
  PROVE  Skew[n] \in Int
BY ConfigAssumption

\* Steps that start no datagram and make no sample keep Timely.
LEMMA TimelyFrame ==
  ASSUME TypeOK, Timely, UNCHANGED accepted,
         now' = now \/ now' = now + 1,
         reqs' \subseteq reqs, resps' \subseteq resps,
         \A n \in Nodes : serving'[n] \subseteq serving[n]
                          /\ matching'[n] \subseteq matching[n]
  PROVE  Timely'
<1> now \in Nat /\ now <= now'
  BY DEF TypeOK
<1>1. \A m \in reqs' : m.from \notin Flaky => m.t1 - Skew[m.from] <= now'
  <2> SUFFICES ASSUME NEW m \in reqs, m.from \notin Flaky
      PROVE  m.t1 - Skew[m.from] <= now'
    OBVIOUS
  <2>1. m.t1 - Skew[m.from] \in Int
    <3>1. m.t1 \in Int /\ m.from \in Nodes
      BY DEF TypeOK, TimeRequest
    <3> QED  BY <3>1, SkewType
  <2>2. m.t1 - Skew[m.from] <= now
    BY DEF Timely
  <2> QED  BY <2>1, <2>2
<1>2. \A m \in resps' : m.from \notin Flaky /\ m.to \notin Flaky =>
          /\ m.t1_echo - Skew[m.to] <= m.t2 - Skew[m.from]
          /\ m.t3 - Skew[m.from] <= now'
  <2> SUFFICES ASSUME NEW m \in resps, m.from \notin Flaky, m.to \notin Flaky
      PROVE  /\ m.t1_echo - Skew[m.to] <= m.t2 - Skew[m.from]
             /\ m.t3 - Skew[m.from] <= now'
    OBVIOUS
  <2>1. m.t3 - Skew[m.from] \in Int
    <3>1. m.t3 \in Int /\ m.from \in Nodes
      BY DEF TypeOK, TimeResponse
    <3> QED  BY <3>1, SkewType
  <2>2. /\ m.t1_echo - Skew[m.to] <= m.t2 - Skew[m.from]
        /\ m.t3 - Skew[m.from] <= now
    BY DEF Timely
  <2> QED  BY <2>1, <2>2
<1>3. EchoedSampleAccurate'
  BY DEF Timely, EchoedSampleAccurate
<1> QED  BY <1>1, <1>2, <1>3 DEF Timely

\* The request carries the present time.
LEMMA TimelySend ==
  ASSUME TypeOK, Timely, NEW n \in Nodes, SendProbe(n)
  PROVE  Timely'
<1>1. PICK t1 \in Readings(n) :
        reqs' = reqs \cup
          {[to |-> PeerAt(n).addr, from |-> n, ver |-> Version[n],
            seq |-> SeqOf(n), t1 |-> t1, xid |-> issued + 1]}
  BY DEF SendProbe
<1>2. now \in Nat
  BY DEF TypeOK
<1>3. n \notin Flaky => t1 - Skew[n] <= now
  BY <1>2, SteadyReading
<1>4. \A m \in reqs' : m.from \notin Flaky => m.t1 - Skew[m.from] <= now
  BY <1>1, <1>3 DEF Timely
<1>5. UNCHANGED <<now, resps, serving, matching, accepted>>
  BY DEF SendProbe, rxVars
<1>6. EchoedSampleAccurate'
  BY <1>5 DEF Timely, EchoedSampleAccurate
<1> QED  BY <1>4, <1>5, <1>6 DEF Timely

\* t2 is read after the request was sent.
LEMMA TimelyRequest ==
  ASSUME TypeOK, Timely, NEW n \in Nodes, RecvRequest(n)
  PROVE  Timely'
<1>1. PICK m \in reqs, keep \in BOOLEAN, t2 \in Readings(n) :
        /\ reqs' = Delivered(reqs, m, keep)
        /\ serving' = [serving EXCEPT ![n] = {[req |-> m, t2 |-> t2]}]
  BY DEF RecvRequest
<1>2. UNCHANGED <<now, resps, matching, accepted>>
  BY DEF RecvRequest
<1>3. now \in Nat
  BY DEF TypeOK
<1>4. n \notin Flaky /\ m.from \notin Flaky => m.t1 - Skew[m.from] <= t2 - Skew[n]
  BY <1>3, SteadyReading DEF Timely
<1>5. \A i \in Nodes : \A s \in serving'[i] :
        s \in serving[i] \/ (i = n /\ s.req = m /\ s.t2 = t2)
  BY <1>1 DEF TypeOK
<1>6. \A i \in Nodes \ Flaky : \A s \in serving'[i] :
        s.req.from \notin Flaky => s.req.t1 - Skew[s.req.from] <= s.t2 - Skew[i]
  BY <1>4, <1>5 DEF Timely
<1>7. reqs' \subseteq reqs
  BY <1>1 DEF Delivered
<1>8. EchoedSampleAccurate'
  BY <1>2 DEF Timely, EchoedSampleAccurate
<1> QED  BY <1>2, <1>6, <1>7, <1>8 DEF Timely

\* t3 is read when the response is sent.
LEMMA TimelyReply ==
  ASSUME TypeOK, Timely, NEW n \in Nodes, SendReply(n)
  PROVE  Timely'
<1>1. PICK s \in serving[n], t3 \in Readings(n) :
        resps' = resps \cup
          {[to |-> s.req.from, from |-> n, ver |-> Version[n],
            seq |-> s.req.seq, server_id |-> NodeId[n],
            t1_echo |-> s.req.t1, t2 |-> s.t2, t3 |-> t3, xid |-> s.req.xid]}
  BY DEF SendReply
<1>2. /\ UNCHANGED <<now, reqs, matching, accepted>>
      /\ \A i \in Nodes : serving'[i] \subseteq serving[i]
  BY DEF SendReply, TypeOK
<1>3. now \in Nat
  BY DEF TypeOK
<1>4. n \notin Flaky => t3 - Skew[n] <= now
  BY <1>3, SteadyReading
<1>5. n \notin Flaky /\ s.req.from \notin Flaky =>
        s.req.t1 - Skew[s.req.from] <= s.t2 - Skew[n]
  BY DEF Timely
<1>6. \A m \in resps' : m.from \notin Flaky /\ m.to \notin Flaky =>
          /\ m.t1_echo - Skew[m.to] <= m.t2 - Skew[m.from]
          /\ m.t3 - Skew[m.from] <= now
  BY <1>1, <1>4, <1>5 DEF Timely
<1>7. EchoedSampleAccurate'
  BY <1>2 DEF Timely, EchoedSampleAccurate
<1> QED  BY <1>2, <1>6, <1>7 DEF Timely

\* t4 is read after the response was sent.
LEMMA TimelyResponse ==
  ASSUME TypeOK, Timely, NEW n \in Nodes, RecvResponse(n)
  PROVE  Timely'
<1>1. PICK m \in resps, keep \in BOOLEAN, t4 \in Readings(n) :
        /\ m.to = n
        /\ resps' = Delivered(resps, m, keep)
        /\ matching' = [matching EXCEPT ![n] = {[resp |-> m, t4 |-> t4]}]
  BY DEF RecvResponse
<1>2. UNCHANGED <<now, reqs, serving, accepted>>
  BY DEF RecvResponse
<1>3. now \in Nat
  BY DEF TypeOK
<1>4. n \notin Flaky /\ m.from \notin Flaky =>
        /\ m.t1_echo - Skew[n] <= m.t2 - Skew[m.from]
        /\ m.t3 - Skew[m.from] <= t4 - Skew[n]
  BY <1>1, <1>3, SteadyReading DEF Timely
<1>5. \A i \in Nodes : \A a \in matching'[i] :
        a \in matching[i] \/ (i = n /\ a.resp = m /\ a.t4 = t4)
  BY <1>1 DEF TypeOK
<1>6. \A i \in Nodes \ Flaky : \A a \in matching'[i] :
        /\ a.resp.to = i
        /\ a.resp.from \notin Flaky =>
              /\ a.resp.t1_echo - Skew[i] <= a.resp.t2 - Skew[a.resp.from]
              /\ a.resp.t3 - Skew[a.resp.from] <= a.t4 - Skew[i]
  BY <1>1, <1>4, <1>5 DEF Timely
<1>7. resps' \subseteq resps
  BY <1>1 DEF Delivered
<1>8. EchoedSampleAccurate'
  BY <1>2 DEF Timely, EchoedSampleAccurate
<1> QED  BY <1>2, <1>6, <1>7, <1>8 DEF Timely
\* The sample of an exchange with ordered timestamps is accurate.
LEMMA TimelyMatch ==
  ASSUME TypeOK, Timely, NEW n \in Nodes, Match(n)
  PROVE  Timely'
<1>1. PICK a \in matching[n], p \in pending[n] :
        accepted' = [accepted EXCEPT
                       ![n] = @ \cup {SampleOf(n, p, a.resp, a.t4)}]
  BY DEF Match, Book
<1> DEFINE m == a.resp
           calc == compute_offset_delay(p.t1, m.t2, m.t3, a.t4)
           sample == SampleOf(n, p, m, a.t4)
           theta == Skew[m.from] - Skew[n]
<1>2. /\ p.t1 \in Int /\ m.t2 \in Int /\ m.t3 \in Int /\ a.t4 \in Int
      /\ m.from \in Nodes
  <2>1. p \in PendingRequest /\ a \in [resp: TimeResponse, t4: Int]
    BY DEF TypeOK
  <2> QED  BY <2>1 DEF PendingRequest, TimeResponse
<1>3. /\ sample.server = m.from /\ sample.t1 = p.t1 /\ sample.echo = m.t1_echo
      /\ sample.offset = calc.offset /\ sample.delay = calc.delay
  BY DEF SampleOf
<1>4. ASSUME n \notin Flaky, m.from \notin Flaky, p.t1 = m.t1_echo
      PROVE  WithinHalfDelay(calc, theta)
  <2> DEFINE sc == Skew[n]
             ss == Skew[m.from]
  <2>1. sc \in Int /\ ss \in Int
    BY <1>2, SkewType
  <2>2. p.t1 - sc <= m.t2 - ss /\ m.t3 - ss <= a.t4 - sc
    BY <1>4 DEF Timely
  <2> DEFINE t1 == p.t1 - sc
             t2 == m.t2 - ss
             t3 == m.t3 - ss
             t4 == a.t4 - sc
  <2>3. /\ t1 \in Int /\ t2 \in Int /\ t3 \in Int /\ t4 \in Int
        /\ t1 + sc = p.t1 /\ t2 + ss = m.t2 /\ t3 + ss = m.t3 /\ t4 + sc = a.t4
    BY <1>2, <2>1
  <2>4. t1 <= t2 /\ t3 <= t4
    BY <2>2
  <2> HIDE DEF t1, t2, t3, t4, sc, ss
  <2>5. WithinHalfDelay(compute_offset_delay(t1 + sc, t2 + ss, t3 + ss, t4 + sc),
                        ss - sc)
    BY <2>1, <2>3, <2>4, OffsetErrorBound
  <2> QED  BY <2>3, <2>5 DEF ss, sc
<1>5. ASSUME n \notin Flaky, m.from \notin Flaky, p.t1 = m.t1_echo
      PROVE  WithinHalfDelay(sample, theta)
  <2>1. WithinHalfDelay(calc, theta)
    BY <1>4, <1>5
  <2> QED  BY <1>3, <2>1 DEF WithinHalfDelay
<1>6. accepted' = [accepted EXCEPT ![n] = @ \cup {sample}]
  BY <1>1
<1> HIDE DEF sample, m
<1>7. \A i \in Nodes : \A s \in accepted'[i] :
        s \in accepted[i] \/ (i = n /\ s = sample)
  BY <1>6 DEF TypeOK
<1>8. EchoedSampleAccurate'
  BY <1>3, <1>5, <1>7 DEF Timely, EchoedSampleAccurate
<1>9. /\ UNCHANGED <<now, reqs, resps, serving>>
      /\ \A i \in Nodes : matching'[i] \subseteq matching[i]
  BY DEF Match, netVars, TypeOK
<1> QED  BY <1>8, <1>9 DEF Timely

\* Timely is kept by every step.
LEMMA TimelyStep ==
  ASSUME TypeOK, Timely, [Next]_vars
  PROVE  Timely'
<1>1. CASE Advance
  BY <1>1, TimelyFrame DEF Advance, rxVars, netVars
<1>2. ASSUME NEW n \in Nodes, TxStep(n), ~SendProbe(n) PROVE Timely'
  <2>1. UNCHANGED <<now, rxVars, netVars>>
    BY <1>2 DEF TxStep, TxTick, SkipPeer, SendFails, InsertPending, Sweep,
                RecordTimeout, SweepDone
  <2> QED  BY <2>1, TimelyFrame DEF rxVars, netVars
<1>3. ASSUME NEW n \in Nodes, RxStep(n) PROVE Timely'
  <2>1. CASE ReplyFails(n) \/ StoreDone(n) \/ RecvBadVersion(n)
    <3>1. /\ UNCHANGED <<now, accepted, resps>>
          /\ reqs' \subseteq reqs
          /\ \A i \in Nodes : serving'[i] \subseteq serving[i]
                              /\ matching'[i] \subseteq matching[i]
      BY <2>1 DEF ReplyFails, StoreDone, RecvBadVersion, rxVars, netVars, TypeOK
    <3> QED  BY <3>1, TimelyFrame
  <2>2. CASE Orphan(n) \/ Mismatch(n)
    <3>1. /\ UNCHANGED <<now, accepted, serving, netVars>>
          /\ matching' = [matching EXCEPT ![n] = {}]
      BY <2>2 DEF Orphan, Mismatch
    <3> QED  BY <3>1, TimelyFrame DEF netVars, TypeOK
  <2> QED
    BY <1>3, <2>1, <2>2, TimelyRequest, TimelyReply, TimelyResponse, TimelyMatch
       DEF RxStep
<1>4. ASSUME NEW n \in Nodes, Restart(n) PROVE Timely'
  BY <1>4, TimelyFrame DEF Restart, netVars, TypeOK
<1>5. CASE UNCHANGED vars
  BY <1>5, TimelyFrame DEF vars, rxVars, netVars
<1> QED  BY <1>1, <1>2, <1>3, <1>4, <1>5, TimelySend DEF Next

\* Timestamps of an exchange are ordered in every reachable state.
LEMMA TimelyInvariant == Spec => []Timely
<1>1. Init => Timely
  BY DEF Init, Timely, EchoedSampleAccurate
<1>2. TypeOK /\ Timely /\ [Next]_vars => Timely'
  BY TimelyStep
<1> QED  BY <1>1, <1>2, TypeCorrect, PTL DEF Spec

\* The offset of a sample whose response echoes the t1 it was computed with is
\* within half its delay of the true offset of the two clocks.
THEOREM EchoedSamplesAccurate == Spec => []EchoedSampleAccurate
<1>1. Timely => EchoedSampleAccurate
  BY DEF Timely
<1> QED  BY <1>1, TimelyInvariant, PTL
-----------------------------------------------------------------------------
(* Which probe a response is matched with. *)

\* The carriers of a node's sequence numbers, spelled out.
LEMMA MarksDef ==
  ASSUME NEW n \in Nodes, NEW u
  PROVE  u \in Marks(n) <=>
           \/ \E e \in sending[n] : u = Mark(e.seq, e.xid, e.t1)
           \/ \E e \in pending[n] : u = Mark(e.seq, e.xid, e.t1)
           \/ \E m \in reqs : m.from = n /\ u = Mark(m.seq, m.xid, m.t1)
           \/ \E i \in Nodes : \E s \in serving[i] :
                s.req.from = n /\ u = Mark(s.req.seq, s.req.xid, s.req.t1)
           \/ \E m \in resps : m.to = n /\ u = Mark(m.seq, m.xid, m.t1_echo)
           \/ \E a \in matching[n] :
                u = Mark(a.resp.seq, a.resp.xid, a.resp.t1_echo)
BY DEF Marks

\* The same after a step.
LEMMA MarksDefNext ==
  ASSUME NEW n \in Nodes, NEW u
  PROVE  u \in Marks(n)' <=>
           \/ \E e \in sending'[n] : u = Mark(e.seq, e.xid, e.t1)
           \/ \E e \in pending'[n] : u = Mark(e.seq, e.xid, e.t1)
           \/ \E m \in reqs' : m.from = n /\ u = Mark(m.seq, m.xid, m.t1)
           \/ \E i \in Nodes : \E s \in serving'[i] :
                s.req.from = n /\ u = Mark(s.req.seq, s.req.xid, s.req.t1)
           \/ \E m \in resps' : m.to = n /\ u = Mark(m.seq, m.xid, m.t1_echo)
           \/ \E a \in matching'[n] :
                u = Mark(a.resp.seq, a.resp.xid, a.resp.t1_echo)
BY DEF Marks, Mark

\* No step but SendProbe puts a new number into circulation.
LEMMA MarksShrink ==
  ASSUME TypeOK, NEW i \in Nodes,
         [Next]_vars, ~\E n \in Nodes : SendProbe(n)
  PROVE  Marks(i)' \subseteq Marks(i)
<1> SUFFICES ASSUME NEW u \in Marks(i)' PROVE u \in Marks(i)
  OBVIOUS
<1> DEFINE Fewer == /\ reqs' \subseteq reqs /\ resps' \subseteq resps
                    /\ \A n \in Nodes : /\ sending'[n] \subseteq sending[n]
                                        /\ pending'[n] \subseteq pending[n]
                                        /\ serving'[n] \subseteq serving[n]
                                        /\ matching'[n] \subseteq matching[n]
<1>1. CASE Fewer
  BY <1>1, MarksDef, MarksDefNext
<1>2. CASE Advance
  BY <1>1, <1>2 DEF Advance, txVars, rxVars, netVars
<1>3. ASSUME NEW n \in Nodes, TxStep(n) PROVE u \in Marks(i)
  <2>1. CASE InsertPending(n)
    <3>1. PICK e \in sending[n] :
            pending' = [pending EXCEPT ![n] =
              {p \in @ : p.seq # e.seq} \cup
              {[seq |-> e.seq, peer |-> e.peer, t1 |-> e.t1, xid |-> e.xid,
                sent_at |-> now]}]
      BY <2>1 DEF InsertPending
    <3> DEFINE q == [seq |-> e.seq, peer |-> e.peer, t1 |-> e.t1,
                     xid |-> e.xid, sent_at |-> now]
    <3>2. Mark(q.seq, q.xid, q.t1) = Mark(e.seq, e.xid, e.t1)
      OBVIOUS
    <3>3. pending' = [pending EXCEPT ![n] = {p \in @ : p.seq # e.seq} \cup {q}]
      BY <3>1
    <3> HIDE DEF q
    <3>4. /\ \A j \in Nodes : sending'[j] \subseteq sending[j]
          /\ UNCHANGED <<reqs, resps, serving, matching>>
      BY <2>1 DEF InsertPending, rxVars, netVars, TypeOK
    <3>5. \A f \in pending'[i] : f \in pending[i] \/ (i = n /\ f = q)
      BY <3>3 DEF TypeOK
    <3> QED  BY <3>2, <3>4, <3>5, MarksDef, MarksDefNext
  <2>2. CASE TxTick(n) \/ SkipPeer(n) \/ SendFails(n) \/ RecordTimeout(n)
             \/ SweepDone(n)
    <3>1. UNCHANGED <<sending, pending, rxVars, netVars>>
      BY <2>2 DEF TxTick, SkipPeer, SendFails, RecordTimeout, SweepDone
    <3> QED  BY <1>1, <3>1 DEF rxVars, netVars
  <2>3. CASE Sweep(n)
    BY <1>1, <2>3 DEF Sweep, rxVars, netVars, TypeOK
  <2> QED  BY <1>3, <2>1, <2>2, <2>3 DEF TxStep
<1>4. ASSUME NEW n \in Nodes, RxStep(n) PROVE u \in Marks(i)
  <2>1. CASE RecvRequest(n)
    <3>1. PICK m \in reqs, keep \in BOOLEAN, t2 \in Readings(n) :
            /\ reqs' = Delivered(reqs, m, keep)
            /\ serving' = [serving EXCEPT ![n] = {[req |-> m, t2 |-> t2]}]
      BY <2>1 DEF RecvRequest
    <3>2. \A j \in Nodes : \A s \in serving'[j] : s \in serving[j] \/ s.req = m
      BY <3>1 DEF TypeOK
    <3>3. reqs' \subseteq reqs /\ UNCHANGED <<sending, pending, resps, matching>>
      BY <2>1, <3>1 DEF RecvRequest, Delivered, txVars
    <3> QED  BY <3>2, <3>3, MarksDef, MarksDefNext
  <2>2. CASE SendReply(n)
    <3>1. PICK s \in serving[n], t3 \in Readings(n) :
            resps' = resps \cup
             {[to |-> s.req.from, from |-> n, ver |-> Version[n],
               seq |-> s.req.seq, server_id |-> NodeId[n],
               t1_echo |-> s.req.t1, t2 |-> s.t2, t3 |-> t3, xid |-> s.req.xid]}
      BY <2>2 DEF SendReply
    <3>2. \A m \in resps' :
            \/ m \in resps
            \/ /\ m.to = s.req.from
               /\ Mark(m.seq, m.xid, m.t1_echo)
                    = Mark(s.req.seq, s.req.xid, s.req.t1)
      BY <3>1
    <3>3. /\ \A j \in Nodes : serving'[j] \subseteq serving[j]
          /\ UNCHANGED <<sending, pending, reqs, matching>>
      BY <2>2 DEF SendReply, txVars, TypeOK
    <3> QED  BY <3>2, <3>3, MarksDef, MarksDefNext
  <2>3. CASE RecvResponse(n)
    <3>1. PICK m \in resps, keep \in BOOLEAN, t4 \in Readings(n) :
            /\ m.to = n
            /\ resps' = Delivered(resps, m, keep)
            /\ matching' = [matching EXCEPT ![n] = {[resp |-> m, t4 |-> t4]}]
      BY <2>3 DEF RecvResponse
    <3>2. \A a \in matching'[i] : a \in matching[i] \/ (i = n /\ a.resp = m)
      BY <3>1 DEF TypeOK
    <3>3. resps' \subseteq resps /\ UNCHANGED <<sending, pending, reqs, serving>>
      BY <2>3, <3>1 DEF RecvResponse, Delivered, txVars
    <3> QED  BY <3>1, <3>2, <3>3, MarksDef, MarksDefNext
  <2>4. CASE ReplyFails(n) \/ RecvBadVersion(n) \/ StoreDone(n)
    <3>1. Fewer
      BY <2>4 DEF ReplyFails, RecvBadVersion, StoreDone, txVars, rxVars,
                  netVars, TypeOK
    <3> QED  BY <1>1, <3>1
  <2>5. CASE Orphan(n) \/ Mismatch(n) \/ Match(n)
    <3>1. /\ matching' = [matching EXCEPT ![n] = {}]
          /\ UNCHANGED <<sending, serving, netVars>>
      BY <2>5 DEF Orphan, Mismatch, Match, txVars
    <3>2. \A j \in Nodes : pending'[j] \subseteq pending[j]
      <4>1. CASE Orphan(n)
        BY <4>1 DEF Orphan
      <4>2. CASE Mismatch(n)
        BY <4>2 DEF Mismatch, TypeOK
      <4>3. CASE Match(n)
        BY <4>3 DEF Match, TypeOK
      <4> QED  BY <2>5, <4>1, <4>2, <4>3
    <3> QED  BY <1>1, <3>1, <3>2 DEF netVars, TypeOK
  <2> QED  BY <1>4, <2>1, <2>2, <2>3, <2>4, <2>5 DEF RxStep
<1>5. ASSUME NEW n \in Nodes, Restart(n) PROVE u \in Marks(i)
  BY <1>1, <1>5 DEF Restart, netVars, TypeOK
<1>6. CASE UNCHANGED vars
  BY <1>1, <1>6 DEF vars, txVars, rxVars, netVars
<1> QED  BY <1>2, <1>3, <1>4, <1>5, <1>6 DEF Next
\* Counters only grow while no process restarts.
LEMMA FirstRunStep ==
  ASSUME TypeOK, [Next]_vars, FirstRun'
  PROVE  FirstRun /\ \A n \in Nodes : count[n] <= count'[n]
<1>1. CASE \E n \in Nodes : Restart(n)
  <2>1. restarts' = restarts + 1 /\ restarts \in Nat
    BY <1>1 DEF Restart, TypeOK
  <2> QED  BY <2>1 DEF FirstRun
<1>2. CASE ~\E n \in Nodes : Restart(n)
  <2>1. restarts' = restarts
    BY <1>2 DEF Next, Advance, TxStep, TxTick, SkipPeer, SendProbe, SendFails,
                InsertPending, Sweep, RecordTimeout, SweepDone, RxStep,
                RecvRequest, SendReply, ReplyFails, RecvBadVersion,
                RecvResponse, Orphan, Mismatch, Match, StoreDone, vars
  <2>2. \A n \in Nodes : count[n] <= count'[n]
    <3>1. CASE \E n \in Nodes : SendProbe(n) \/ SendFails(n)
      <4>1. PICK n \in Nodes : count' = [count EXCEPT ![n] = @ + 1]
        BY <3>1 DEF SendProbe, SendFails
      <4> QED  BY <4>1 DEF TypeOK
    <3>2. CASE ~\E n \in Nodes : SendProbe(n) \/ SendFails(n)
      <4>1. count' = count
        BY <1>2, <3>2
           DEF Next, Advance, TxStep, TxTick, SkipPeer, InsertPending, Sweep,
               RecordTimeout, SweepDone, RxStep, RecvRequest, SendReply,
               ReplyFails, RecvBadVersion, RecvResponse, Orphan, Mismatch,
               Match, StoreDone, vars, txVars
      <4> QED  BY <4>1 DEF TypeOK
    <3> QED  BY <3>1, <3>2
  <2>3. \A n \in Nodes : count[n] \in Nat /\ count'[n] \in Nat
    BY TypeStep DEF TypeOK
  <2>4. SeqMod \in Nat
    BY TimingAssumption
  <2> QED  BY <2>1, <2>2, <2>3, <2>4 DEF FirstRun
<1> QED  BY <1>1, <1>2

\* Everything in circulation has a number, so all its counts are integers.
LEMMA MarksType ==
  ASSUME TypeOK, NEW n \in Nodes, NEW u \in Marks(n)
  PROVE  u.seq \in Nat
<1>1. /\ \A e \in sending[n] : e.seq \in SeqNos
      /\ \A e \in pending[n] : e.seq \in SeqNos
  BY DEF TypeOK, Entry, PendingRequest
<1>2. /\ \A m \in reqs : m.seq \in SeqNos
      /\ \A i \in Nodes : \A s \in serving[i] : s.req.seq \in SeqNos
  <2>1. /\ reqs \subseteq TimeRequest
        /\ \A i \in Nodes : serving[i] \subseteq [req: TimeRequest, t2: Int]
    BY DEF TypeOK
  <2> QED  BY <2>1 DEF TimeRequest
<1>3. /\ \A m \in resps : m.seq \in SeqNos
      /\ \A a \in matching[n] : a.resp.seq \in SeqNos
  <2>1. resps \subseteq TimeResponse /\ matching[n] \subseteq [resp: TimeResponse, t4: Int]
    BY DEF TypeOK
  <2> QED  BY <2>1 DEF TimeResponse
<1>4. u.seq \in SeqNos
  BY <1>1, <1>2, <1>3, MarksDef DEF Mark
<1> QED  BY <1>4, TimingAssumption DEF SeqNos

\* NumbersIdentify is kept by every step.
LEMMA NumbersStep ==
  ASSUME TypeOK, NumbersIdentify, [Next]_vars
  PROVE  NumbersIdentify'
<1> SUFFICES ASSUME FirstRun', NEW n \in Nodes
    PROVE  \A u, v \in Marks(n)' :
             /\ u.seq < count'[n]
             /\ u.seq = v.seq => u = v
  BY DEF NumbersIdentify
<1>1. FirstRun /\ count[n] <= count'[n]
  BY FirstRunStep
<1>2. count[n] \in Nat /\ count'[n] \in Nat
  BY TypeStep DEF TypeOK
<1>3. \A u, v \in Marks(n) :
        /\ u.seq \in Nat /\ u.seq < count[n]
        /\ u.seq = v.seq => u = v
  BY <1>1, MarksType DEF NumbersIdentify
<1>4. CASE ~\E m \in Nodes : SendProbe(m)
  <2>1. Marks(n)' \subseteq Marks(n)
    BY <1>4, MarksShrink
  <2> QED  BY <1>1, <1>2, <1>3, <2>1
<1>5. ASSUME NEW m \in Nodes, SendProbe(m)
      PROVE  \A u, v \in Marks(n)' :
               u.seq < count'[n] /\ (u.seq = v.seq => u = v)
  <2>1. PICK t1 \in Readings(m) :
          /\ reqs' = reqs \cup
               {[to |-> PeerAt(m).addr, from |-> m, ver |-> Version[m],
                 seq |-> SeqOf(m), t1 |-> t1, xid |-> issued + 1]}
          /\ sending' = [sending EXCEPT ![m] =
               {[seq |-> SeqOf(m), peer |-> PeerAt(m).id, t1 |-> t1,
                 xid |-> issued + 1]}]
    BY <1>5 DEF SendProbe
  <2> DEFINE new == Mark(SeqOf(m), issued + 1, t1)
  <2>2. /\ \A r \in reqs' :
             r \in reqs \/ (r.from = m /\ Mark(r.seq, r.xid, r.t1) = new)
        /\ \A e \in sending'[n] :
             e \in sending[n] \/ (n = m /\ Mark(e.seq, e.xid, e.t1) = new)
    BY <2>1 DEF TypeOK
  <2>3. UNCHANGED <<pending, serving, resps, matching>>
    BY <1>5 DEF SendProbe, rxVars
  <2>4. new.seq = SeqOf(m)
    BY DEF Mark
  <2> HIDE DEF new
  <2>5. \A u \in Marks(n)' : u \in Marks(n) \/ (n = m /\ u = new)
    BY <2>2, <2>3, MarksDef, MarksDefNext
  <2>6. n = m => SeqOf(n) = count[n] /\ count'[n] = count[n] + 1
    <3>1. n = m => count'[n] = count[n] + 1
      BY <1>5 DEF SendProbe, TypeOK
    <3>2. count'[n] <= SeqMod
      BY DEF FirstRun
    <3>3. n = m => count[n] % SeqMod = count[n]
      BY <1>2, <3>1, <3>2, TimingAssumption
    <3> QED  BY <3>1, <3>3 DEF SeqOf
  <2> QED  BY <1>1, <1>2, <1>3, <2>4, <2>5, <2>6
<1> QED  BY <1>4, <1>5

\* Match finds the probe the response answers, if numbers identify probes.
LEMMA MatchedStep ==
  ASSUME TypeOK, NumbersIdentify, MatchedWithinOneRun, [Next]_vars
  PROVE  MatchedWithinOneRun'
<1> SUFFICES ASSUME FirstRun'
    PROVE  \A n \in Nodes : \A s \in accepted'[n] : s.xid = s.rxid /\ s.t1 = s.echo
  BY DEF MatchedWithinOneRun
<1>1. FirstRun
  BY FirstRunStep
<1>2. \A n \in Nodes : \A s \in accepted[n] : s.xid = s.rxid /\ s.t1 = s.echo
  BY <1>1 DEF MatchedWithinOneRun
<1>3. CASE ~\E n \in Nodes : Match(n)
  <2>1. accepted' = accepted
    BY <1>3 DEF Next, Advance, TxStep, TxTick, SkipPeer, SendProbe, SendFails,
                InsertPending, Sweep, RecordTimeout, SweepDone, RxStep,
                RecvRequest, SendReply, ReplyFails, RecvBadVersion,
                RecvResponse, Orphan, Mismatch, StoreDone, Restart, vars, rxVars
  <2> QED  BY <1>2, <2>1
<1>4. ASSUME NEW n \in Nodes, Match(n)
      PROVE  \A i \in Nodes : \A s \in accepted'[i] :
               s.xid = s.rxid /\ s.t1 = s.echo
  <2>1. PICK a \in matching[n], p \in pending[n] :
          /\ p.seq = a.resp.seq
          /\ accepted' = [accepted EXCEPT
                            ![n] = @ \cup {SampleOf(n, p, a.resp, a.t4)}]
    BY <1>4 DEF Match, Book
  <2> DEFINE sample == SampleOf(n, p, a.resp, a.t4)
             u == Mark(p.seq, p.xid, p.t1)
             v == Mark(a.resp.seq, a.resp.xid, a.resp.t1_echo)
  <2>2. u \in Marks(n) /\ v \in Marks(n)
    BY MarksDef
  <2>3. u.seq = v.seq
    BY <2>1 DEF Mark
  <2>4. u = v
    BY <1>1, <2>2, <2>3 DEF NumbersIdentify
  <2>5. p.xid = a.resp.xid /\ p.t1 = a.resp.t1_echo
    BY <2>4 DEF Mark
  <2>6. /\ sample.xid = p.xid /\ sample.rxid = a.resp.xid
        /\ sample.t1 = p.t1 /\ sample.echo = a.resp.t1_echo
    BY DEF SampleOf
  <2>7. accepted' = [accepted EXCEPT ![n] = @ \cup {sample}]
    BY <2>1
  <2> HIDE DEF sample
  <2> QED  BY <1>2, <2>5, <2>6, <2>7 DEF TypeOK
<1> QED  BY <1>3, <1>4

\* Before any restart and any wrap of the counter, every response is matched
\* with the probe it answers, though only number and server id are compared.
THEOREM MatchedRight == Spec => []MatchedWithinOneRun
<1>1. Init => NumbersIdentify /\ MatchedWithinOneRun
  <2> SUFFICES ASSUME Init PROVE NumbersIdentify /\ MatchedWithinOneRun
    OBVIOUS
  <2>1. \A n \in Nodes : Marks(n) = {}
    BY DEF Init, Marks
  <2> QED  BY <2>1 DEF Init, NumbersIdentify, MatchedWithinOneRun
<1>2. TypeOK /\ NumbersIdentify /\ [Next]_vars => NumbersIdentify'
  BY NumbersStep
<1>3. TypeOK /\ NumbersIdentify /\ MatchedWithinOneRun /\ [Next]_vars
        => MatchedWithinOneRun'
  BY MatchedStep
<1> QED  BY <1>1, <1>2, <1>3, TypeCorrect, PTL DEF Spec

\* So in that time every sample of nodes whose clock source is steady bounds the
\* true offset of the two clocks by its delay.
THEOREM AccurateInFirstRun ==
  Spec => [](FirstRun => \A n \in Nodes \ Flaky : \A s \in accepted[n] :
               s.server \notin Flaky =>
                 WithinHalfDelay(s, Skew[s.server] - Skew[n]))
<1>1. EchoedSampleAccurate /\ MatchedWithinOneRun =>
        (FirstRun => \A n \in Nodes \ Flaky : \A s \in accepted[n] :
           s.server \notin Flaky =>
             WithinHalfDelay(s, Skew[s.server] - Skew[n]))
  BY DEF EchoedSampleAccurate, MatchedWithinOneRun
<1> QED  BY <1>1, EchoedSamplesAccurate, MatchedRight, PTL
-----------------------------------------------------------------------------
(* The jitter of a sample. *)

\* What this run of the process has booked of a peer, as places in taken.
BookedOf(n, i) == {j \in DOMAIN taken[n] : taken[n][j].peer = i}

\* What is remembered of a peer is the delay of the last sample booked of it in this
\* run of the process, and nothing as long as there is none.
Remembered ==
  \A n \in Nodes, i \in Ids :
      /\ BookedOf(n, i) = {} => lastDelay[n][i] = {}
      /\ \A j \in BookedOf(n, i) : (\A k \in BookedOf(n, i) : k <= j) =>
            lastDelay[n][i] = {taken[n][j].delay}

\* The jitter of the sample booked at a place of taken.
JitterAt(n, k) ==
  /\ EarlierOf(n, k) = {} => taken[n][k].jitter = 0
  /\ \A j \in EarlierOf(n, k) : (\A i \in EarlierOf(n, k) : i <= j) =>
        taken[n][k].jitter = Abs(taken[n][k].delay - taken[n][j].delay)

\* Only a match and a restart touch what is remembered.
LEMMA MemoryFrame ==
  ASSUME [Next]_vars
  PROVE  \/ UNCHANGED <<taken, lastDelay>>
         \/ \E n \in Nodes : Match(n) \/ Restart(n)
BY DEF Next, Advance, TxStep, TxTick, SkipPeer, SendProbe, SendFails, InsertPending, Sweep,
       RecordTimeout, SweepDone, RxStep, RecvRequest, SendReply, ReplyFails, RecvBadVersion,
       RecvResponse, Orphan, Mismatch, StoreDone, vars, rxVars

\* What is said of a process only depends on its own samples and memory.
LEMMA MemoryOfOne ==
  ASSUME NEW n \in Nodes, taken'[n] = taken[n], lastDelay'[n] = lastDelay[n]
  PROVE  /\ \A i : BookedOf(n, i)' = BookedOf(n, i)
         /\ \A k : JitterAt(n, k)' <=> JitterAt(n, k)
BY DEF BookedOf, JitterAt, EarlierOf

\* A match measures the jitter from what is remembered, and remembers its delay.
LEMMA MemoryMatch ==
  ASSUME TypeOK, Remembered, NEW n \in Nodes, Match(n),
         \A k \in DOMAIN taken[n] : JitterAt(n, k)
  PROVE  /\ \A m \in Nodes \ {n} : taken'[m] = taken[m] /\ lastDelay'[m] = lastDelay[m]
         /\ \A i \in Ids :
               /\ BookedOf(n, i)' = {} => lastDelay'[n][i] = {}
               /\ \A j \in BookedOf(n, i)' : (\A k \in BookedOf(n, i)' : k <= j) =>
                     lastDelay'[n][i] = {taken'[n][j].delay}
         /\ \A k \in DOMAIN taken'[n] : JitterAt(n, k)'
<1>1. PICK a \in matching[n], p \in pending[n] : Book(n, SampleOf(n, p, a.resp, a.t4))
  BY DEF Match
<1> DEFINE s == SampleOf(n, p, a.resp, a.t4)
           prev == lastDelay[n][p.peer]
<1>2. p \in PendingRequest /\ a.resp \in TimeResponse /\ a.t4 \in Int /\ p.peer \in Ids
  BY DEF TypeOK, PendingRequest
<1>3. s \in Sample /\ s.delay \in Int
  BY <1>2, SampleType DEF Sample
<1>4. s.peer = p.peer /\ s.jitter = JitterOf(prev, s.delay)
  BY DEF SampleOf
<1>5. /\ taken' = [taken EXCEPT ![n] = Append(taken[n], s)]
      /\ lastDelay' = [lastDelay EXCEPT ![n] = [lastDelay[n] EXCEPT ![s.peer] = {s.delay}]]
  BY <1>1 DEF Book
<1> HIDE DEF s
<1>6. PICK last \in Nat :
        taken[n] \in Seq(Sample) /\ last = Len(taken[n]) /\ DOMAIN taken[n] = 1 .. last
  <2>1. taken[n] \in Seq(Sample)
    BY DEF TypeOK
  <2> QED  BY <2>1
<1>7. /\ \A m \in Nodes \ {n} : taken'[m] = taken[m] /\ lastDelay'[m] = lastDelay[m]
      /\ lastDelay'[n][p.peer] = {s.delay}
      /\ \A i \in Ids \ {p.peer} : lastDelay'[n][i] = lastDelay[n][i]
  BY <1>2, <1>4, <1>5 DEF TypeOK
<1>8. /\ taken'[n] = Append(taken[n], s)
      /\ DOMAIN taken'[n] = 1 .. last + 1
      /\ \A k \in 1 .. last : taken'[n][k] = taken[n][k]
      /\ taken'[n][last + 1] = s
  <2>1. taken'[n] = Append(taken[n], s)
    BY <1>5 DEF TypeOK
  <2> QED  BY <1>3, <1>6, <2>1
\* The new sample is the last one of its peer, and nothing new for the others.
<1>9. \A j : j \in BookedOf(n, p.peer)' <=> j \in BookedOf(n, p.peer) \/ j = last + 1
  BY <1>4, <1>6, <1>8 DEF BookedOf
<1>10. \A i \in Ids \ {p.peer} : \A j : j \in BookedOf(n, i)' <=> j \in BookedOf(n, i)
  BY <1>4, <1>6, <1>8 DEF BookedOf
<1>11. ASSUME NEW i \in Ids
       PROVE  /\ BookedOf(n, i)' = {} => lastDelay'[n][i] = {}
              /\ \A j \in BookedOf(n, i)' : (\A k \in BookedOf(n, i)' : k <= j) =>
                    lastDelay'[n][i] = {taken'[n][j].delay}
  <2>1. CASE i = p.peer
    <3>1. last + 1 \in BookedOf(n, i)'
      BY <1>9, <2>1
    <3>2. ASSUME NEW j \in BookedOf(n, i)', \A k \in BookedOf(n, i)' : k <= j
          PROVE  j = last + 1
      <4>1. j \in DOMAIN taken'[n] /\ last + 1 <= j
        BY <3>1, <3>2 DEF BookedOf
      <4> QED  BY <1>6, <1>8, <4>1
    <3> QED  BY <1>7, <1>8, <2>1, <3>1, <3>2
  <2>2. CASE i # p.peer
    <3>1. BookedOf(n, i)' = BookedOf(n, i)
      <4>1. \A j : j \in BookedOf(n, i)' <=> j \in BookedOf(n, i)
        BY <1>10, <2>2
      <4> QED  BY <4>1 DEF BookedOf
    <3>2. \A j \in BookedOf(n, i) : taken'[n][j] = taken[n][j]
      BY <1>6, <1>8 DEF BookedOf
    <3> QED  BY <1>7, <2>2, <3>1, <3>2 DEF Remembered
  <2> QED  BY <2>1, <2>2
<1>12. ASSUME NEW k \in 1 .. last
       PROVE  JitterAt(n, k)'
  <2>1. taken'[n][k] = taken[n][k] /\ \A j \in 1 .. k - 1 : taken'[n][j] = taken[n][j]
    BY <1>6, <1>8
  <2>2. EarlierOf(n, k)' = EarlierOf(n, k)
    BY <2>1 DEF EarlierOf
  <2>3. \A j \in EarlierOf(n, k) : taken'[n][j] = taken[n][j]
    BY <2>1 DEF EarlierOf
  <2>4. JitterAt(n, k)
    BY <1>6
  <2> QED  BY <2>1, <2>2, <2>3, <2>4 DEF JitterAt
<1>13. JitterAt(n, last + 1)'
  <2>1. \A j : j \in EarlierOf(n, last + 1)' <=> j \in BookedOf(n, p.peer)
    <3>1. 1 .. (last + 1) - 1 = 1 .. last
      BY <1>6
    <3> QED  BY <1>4, <1>6, <1>8, <3>1 DEF EarlierOf, BookedOf
  <2>2. EarlierOf(n, last + 1)' = BookedOf(n, p.peer)
    BY <2>1
  <2>3. \A j \in BookedOf(n, p.peer) : taken'[n][j] = taken[n][j]
    BY <1>6, <1>8 DEF BookedOf
  <2>4. BookedOf(n, p.peer) = {} => s.jitter = 0
    BY <1>2, <1>4 DEF Remembered, JitterOf
  <2>5. ASSUME NEW j \in BookedOf(n, p.peer), \A i \in BookedOf(n, p.peer) : i <= j
        PROVE  s.jitter = Abs(s.delay - taken[n][j].delay)
    <3>1. prev = {taken[n][j].delay}
      BY <1>2, <2>5 DEF Remembered
    <3>2. prev # {} /\ (CHOOSE d \in prev : TRUE) = taken[n][j].delay
      BY <3>1
    <3> HIDE DEF prev
    <3> QED  BY <1>4, <3>2 DEF JitterOf
  <2> QED  BY <1>8, <2>2, <2>3, <2>4, <2>5 DEF JitterAt
<1>14. \A k \in DOMAIN taken'[n] : JitterAt(n, k)'
  <2>1. \A k \in 1 .. last + 1 : k \in 1 .. last \/ k = last + 1
    BY <1>6
  <2> QED  BY <1>8, <1>12, <1>13, <2>1
<1> QED  BY <1>7, <1>11, <1>14

\* Every step keeps the memory and the jitters.
LEMMA MemoryStep ==
  ASSUME TypeOK, Remembered, JitterIsDelayChange, [Next]_vars
  PROVE  Remembered' /\ JitterIsDelayChange'
<1>1. \A n \in Nodes : \A k \in DOMAIN taken[n] : JitterAt(n, k)
  BY DEF JitterIsDelayChange, JitterAt
<1> SUFFICES ASSUME NEW n \in Nodes
             PROVE  /\ \A i \in Ids :
                         /\ BookedOf(n, i)' = {} => lastDelay'[n][i] = {}
                         /\ \A j \in BookedOf(n, i)' : (\A k \in BookedOf(n, i)' : k <= j) =>
                               lastDelay'[n][i] = {taken'[n][j].delay}
                    /\ \A k \in DOMAIN taken'[n] : JitterAt(n, k)'
  BY DEF Remembered, JitterIsDelayChange, JitterAt
<1>2. CASE taken'[n] = taken[n] /\ lastDelay'[n] = lastDelay[n]
  BY <1>1, <1>2, MemoryOfOne DEF Remembered
<1>3. CASE UNCHANGED <<taken, lastDelay>>
  BY <1>2, <1>3
<1>4. ASSUME NEW m \in Nodes, Restart(m)
      PROVE  /\ \A i \in Ids :
                  /\ BookedOf(n, i)' = {} => lastDelay'[n][i] = {}
                  /\ \A j \in BookedOf(n, i)' : (\A k \in BookedOf(n, i)' : k <= j) =>
                        lastDelay'[n][i] = {taken'[n][j].delay}
             /\ \A k \in DOMAIN taken'[n] : JitterAt(n, k)'
  <2>1. CASE m = n
    <3>1. taken'[n] = <<>> /\ \A i \in Ids : lastDelay'[n][i] = {}
      BY <1>4, <2>1 DEF Restart, TypeOK
    <3>2. DOMAIN taken'[n] = {}
      BY <3>1
    <3>3. \A i : BookedOf(n, i)' = {}
      BY <3>2 DEF BookedOf
    <3> QED  BY <3>1, <3>2, <3>3
  <2>2. CASE m # n
    <3>1. taken'[n] = taken[n] /\ lastDelay'[n] = lastDelay[n]
      BY <1>4, <2>2 DEF Restart, TypeOK
    <3> QED  BY <1>2, <3>1
  <2> QED  BY <2>1, <2>2
<1>5. ASSUME NEW m \in Nodes, Match(m)
      PROVE  /\ \A i \in Ids :
                  /\ BookedOf(n, i)' = {} => lastDelay'[n][i] = {}
                  /\ \A j \in BookedOf(n, i)' : (\A k \in BookedOf(n, i)' : k <= j) =>
                        lastDelay'[n][i] = {taken'[n][j].delay}
             /\ \A k \in DOMAIN taken'[n] : JitterAt(n, k)'
  <2>1. CASE m = n
    BY <1>1, <1>5, <2>1, MemoryMatch
  <2>2. CASE m # n
    <3>1. taken'[n] = taken[n] /\ lastDelay'[n] = lastDelay[n]
      BY <1>1, <1>5, <2>2, MemoryMatch
    <3> QED  BY <1>2, <3>1
  <2> QED  BY <2>1, <2>2
<1> QED  BY <1>3, <1>4, <1>5, MemoryFrame

\* Whatever is lost, late or restarted, the jitter stored with a sample is the change of
\* delay since the last sample of the same peer in the same run of the process, and zero
\* for the first one of a run.
THEOREM JitterIsAlwaysDelayChange == Spec => []JitterIsDelayChange
<1>1. Init => Remembered /\ JitterIsDelayChange
  <2> SUFFICES ASSUME Init PROVE Remembered /\ JitterIsDelayChange
    OBVIOUS
  <2>1. \A n \in Nodes : taken[n] = <<>> /\ \A i \in Ids : lastDelay[n][i] = {}
    BY DEF Init
  <2>2. \A n \in Nodes : DOMAIN taken[n] = {}
    BY <2>1
  <2> QED  BY <2>1, <2>2 DEF Remembered, BookedOf, JitterIsDelayChange
<1> QED  BY <1>1, MemoryStep, TypeCorrect, PTL DEF Spec
=============================================================================
