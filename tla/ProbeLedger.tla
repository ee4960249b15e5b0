---------------------------- MODULE ProbeLedger -----------------------------
(***************************************************************************)
(* What a node promises about the probes it sends, without packets,        *)
(* sequence numbers, clocks or tasks: every probe is issued once, stays    *)
(* open for a while, and leaves at most one trace, an offset sample or a   *)
(* timeout mark.  A probe may also be forgotten without a trace (the       *)
(* process restarted, the answer came from the wrong server, the store     *)
(* refused the write), but a probe that is closed never comes back.        *)
(***************************************************************************)
EXTENDS Naturals

VARIABLES
    issued,     \* number of probes sent so far; they are numbered 1..issued
    open,       \* probes that may still be answered or time out
    sampled,    \* probes that produced an offset sample
    timedOut    \* probes that produced a timeout mark

vars == <<issued, open, sampled, timedOut>>

Init ==
    /\ issued = 0
    /\ open = {}
    /\ sampled = {}
    /\ timedOut = {}

Issue ==
    /\ issued' = issued + 1
    /\ open' = open \cup {issued + 1}
    /\ UNCHANGED <<sampled, timedOut>>

Sample(x) ==
    /\ x \in open
    /\ open' = open \ {x}
    /\ sampled' = sampled \cup {x}
    /\ UNCHANGED <<issued, timedOut>>

Expire(x) ==
    /\ x \in open
    /\ open' = open \ {x}
    /\ timedOut' = timedOut \cup {x}
    /\ UNCHANGED <<issued, sampled>>

Forget ==
    /\ open' \subseteq open
    /\ UNCHANGED <<issued, sampled, timedOut>>

Next ==
    \/ Issue
    \/ \E x \in open : Sample(x) \/ Expire(x)
    \/ Forget

Spec == Init /\ [][Next]_vars
=============================================================================
