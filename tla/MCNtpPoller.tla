---------------------------- MODULE MCNtpPoller -----------------------------
(***************************************************************************)
(* Instances of NtpPoller: sources, servers and the leads of the clocks.   *)
(***************************************************************************)
EXTENDS NtpPoller, TLC

Source(id, hosts) == [id |-> id, hosts |-> hosts]
Manners(skew, echoes, synced) == [skew |-> skew, echoes |-> echoes, synced |-> synced]

\* Two servers, one of which does not echo.
TwoServers == <<Manners(12, TRUE, TRUE), Manners(0, FALSE, TRUE)>>
\* A name that resolves to both, and one that resolves to the second.
TwoNames == <<Source(9101, {1, 2}), Source(9102, {2})>>
\* One server, under one name.
OneServer == <<Manners(12, TRUE, TRUE)>>
\* A server that does not know the time.
Unsynchronised == <<Manners(0, TRUE, FALSE)>>
OneName == <<Source(9101, {1})>>

\* What an earlier run measured of the two names.
LeftOffsets == 9101 :> {7} @@ 9102 :> {9}
NothingLeft == 9101 :> {}

\* The PHC and CLOCK_TAI do not agree.
Leads == [phc |-> 6, tai |-> 2]
=============================================================================
