------------------------------ MODULE NtpTime -------------------------------
(***************************************************************************)
(* NTP timestamps as src/net/ntp.rs writes and reads them: 32 bits of      *)
(* seconds since 1900 and 32 bits of fraction, against nanoseconds since   *)
(* 1970.  The widths are parameters, so that all of an era fits into a     *)
(* small instance.                                                         *)
(***************************************************************************)
EXTENDS Integers

CONSTANTS
    NsPerSec,    \* 1_000_000_000
    FracPerSec,  \* 2^32
    EraSecs,     \* 2^32, seconds of an era
    Epoch        \* NTP_UNIX_TO_1900

ASSUME NtpTimeAssumption ==
    /\ NsPerSec \in Nat \ {0}
    /\ FracPerSec \in Nat /\ NsPerSec <= FracPerSec
    /\ Epoch \in Nat \ {0}
    /\ EraSecs \in Nat /\ Epoch < EraSecs

Stamp == [sec: 0 .. EraSecs - 1, frac: 0 .. FracPerSec - 1]
\* The stamp of a server that does not know a time.
NoStamp == [sec |-> 0, frac |-> 0]

\* Mutant of encode_ntp_timestamp: the fraction is rounded up, and overflows.
EncodeUp(ns) ==
    [sec |-> (ns \div NsPerSec) + Epoch,
     frac |-> ((ns % NsPerSec) * FracPerSec + NsPerSec - 1) \div NsPerSec + 1]

\* Mutant of encode_ntp_timestamp: `as u32` instead of try_from, which wraps.
EncodeWraps(ns) ==
    [sec |-> ((ns \div NsPerSec) + Epoch) % EraSecs,
     frac |-> ((ns % NsPerSec) * FracPerSec) \div NsPerSec]

\* Seconds that do not fit saturate; the fraction goes on.
encode_ntp_timestamp(ns) ==
    LET sec == (ns \div NsPerSec) + Epoch
    IN  [sec |-> IF sec < EraSecs THEN sec ELSE EraSecs - 1,
         frac |-> ((ns % NsPerSec) * FracPerSec) \div NsPerSec]

decode_ntp_timestamp(stamp) ==
    IF stamp = NoStamp THEN 0
    ELSE (stamp.sec - Epoch) * NsPerSec + (stamp.frac * NsPerSec) \div FracPerSec

\* A server's stamp: its seconds wrap at the end of the era (RFC 5905).
ServerStamp(ns) ==
    [sec |-> ((ns \div NsPerSec) + Epoch) % EraSecs,
     frac |-> ((ns % NsPerSec) * FracPerSec) \div NsPerSec]

\* The times whose seconds fit: until February 2036.
InEra(ns) == (ns \div NsPerSec) + Epoch < EraSecs
-----------------------------------------------------------------------------
\* encode_ntp_timestamp, decode_ntp_timestamp: what comes back of a time in the
\* era is the time itself or one nanosecond less, in a well-formed stamp.
StampSurvives(ns) ==
    InEra(ns) =>
        /\ encode_ntp_timestamp(ns) \in Stamp
        /\ decode_ntp_timestamp(encode_ntp_timestamp(ns)) \in {ns - 1, ns}

\* encode_ntp_timestamp never writes the stamp that stands for no time, also beyond
\* the era, where an echo of t1 is still told from an originate field left
\* empty, and seen as a time of the era's last second and not of its first.
StampIsSome(ns) ==
    LET stamp == encode_ntp_timestamp(ns)
    IN  /\ stamp # NoStamp
        /\ ~ InEra(ns) => decode_ntp_timestamp(stamp) \div NsPerSec = EraSecs - 1 - Epoch
=============================================================================
