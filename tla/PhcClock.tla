------------------------------ MODULE PhcClock ------------------------------
(***************************************************************************)
(* The clock of a node, src/phc/reader.rs: a hardware clock (PHC) whose    *)
(* device is opened by the first reading that finds it and then kept open, *)
(* or else CLOCK_TAI.  The tasks of a process share one descriptor under a *)
(* mutex.  The device may appear and disappear; a descriptor does not      *)
(* survive the device it was opened on.                                    *)
(*                                                                         *)
(* `now` is true time, which the system clock (CLOCK_REALTIME) keeps; the  *)
(* other clocks are ahead of it by Lead.                                   *)
(***************************************************************************)
EXTENDS Integers

CONSTANTS
    HasDevice,   \* phc_device is configured
    Lead,        \* [{"phc", "tai"} -> Int]: clock minus system clock
    ReadsFail,   \* clock_gettime may fail on a PHC that is there
    MaxTime,     \* bound: true time stops there
    MaxChanges   \* bound: how often the device comes or goes

ASSUME ClockAssumption ==
    /\ HasDevice \in BOOLEAN /\ ReadsFail \in BOOLEAN
    /\ Lead \in [{"phc", "tai"} -> Int]
    /\ MaxTime \in Nat /\ MaxChanges \in Nat

VARIABLES
    now,      \* true time
    device,   \* the PHC is there
    fd,       \* the descriptor kept: none, open, or dead (its device is gone)
    changes   \* how often the device came or went

clockVars == <<now, device, fd, changes>>

ClockTypeOK ==
    /\ now \in Nat
    /\ device \in BOOLEAN
    /\ fd \in {"none", "open", "dead"}
    /\ changes \in Nat

ClockInit ==
    /\ now = 0
    /\ device \in (IF HasDevice THEN BOOLEAN ELSE {FALSE})
    /\ fd = "none"
    /\ changes = 0

Advance ==
    /\ now < MaxTime
    /\ now' = now + 1
    /\ UNCHANGED <<device, fd, changes>>

\* The device is unplugged, or its driver unloaded.
DeviceGoes ==
    /\ device
    /\ changes < MaxChanges
    /\ device' = FALSE
    /\ fd' = IF fd = "open" THEN "dead" ELSE fd
    /\ changes' = changes + 1
    /\ UNCHANGED now

DeviceComes ==
    /\ HasDevice /\ ~device
    /\ changes < MaxChanges
    /\ device' = TRUE
    /\ changes' = changes + 1
    /\ UNCHANGED <<now, fd>>

ClockStep == Advance \/ DeviceGoes \/ DeviceComes

\* Mutant of Opened: the device is opened anew for every reading.
OpenedAnew == IF HasDevice /\ device THEN "open" ELSE "none"
\* phc_clock_id: the descriptor after a reading has looked for one.
Opened == IF HasDevice /\ device /\ fd = "none" THEN "open" ELSE fd

\* now_ns: the clocks a reading may come from.  A reading of an open descriptor
\* that fails is an error; only a device that was never opened is replaced.
Clocks ==
    CASE Opened = "none" -> {"tai"}
      [] Opened = "open" -> {"phc"} \cup (IF ReadsFail THEN {"error"} ELSE {})
      [] Opened = "dead" -> {"error"}

\* A reading of clock c, now.
Reading(c) == now + Lead[c]
=============================================================================
