---------------------------- MODULE MCFusionLoop ----------------------------
(***************************************************************************)
(* Instances of FusionLoop: source lists and values of measurements.       *)
(***************************************************************************)
EXTENDS FusionLoop

Source(id, weight) == [id |-> id, weight |-> weight]

\* The node, one peer and one NTP server.
OnePeer == <<Source(1, 1), Source(2, 5)>>
OneServer == <<Source(9001, 1)>>
\* config/ntp_public.toml names no peers.
Nobody == <<>>

NoTrim == <<0, 1>>
KeepAll == <<1, 1>>

OffsetRange == {3, 4}
\* Offsets on the other side of zero.
Behind == {-5}
OneDelay == {7}
=============================================================================
