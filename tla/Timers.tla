------------------------------- MODULE Timers -------------------------------
(***************************************************************************)
(* What G_Timer promises the code that uses it, without wheels and slots:  *)
(* time passes in frames of Interval ms, an alarm rings in the very frame  *)
(* it asked for, alarms of a frame ring in the order of their times, and   *)
(* handlers only run when nothing is due.  A cancelled alarm does not      *)
(* ring.  One alarm is late, by a turn of the lowest wheel: that whose     *)
(* delay is a turn or more and whose frame is the first of a turn.  No     *)
(* delay of the server is as long.  WheelTimer implements this (its        *)
(* property KeepsContract).                                                *)
(***************************************************************************)
EXTENDS Integers

CONSTANTS
    Interval,   \* ms in a frame
    Turn,       \* frames in a turn of the lowest wheel
    Delays,     \* the ms alarms are set for
    MaxAlarms,  \* bound: alarms that are set
    MaxNow,     \* bound: ms that are explored
    MaxElapse   \* bound: ms that may pass at once

ASSUME IntervalAssumption == Interval \in Nat \ {0} /\ Turn \in Nat \ {0}
ASSUME DelaysAssumption   == Delays \subseteq Nat
ASSUME BoundsAssumption   == MaxAlarms \in Nat /\ MaxNow \in Nat /\ MaxElapse \in Nat

VARIABLES
    now,        \* ms_since_start
    frame,      \* the current frame
    alarms,     \* the pending alarms: a function from their ids
    next_id,    \* the id of the next alarm
    ringing     \* the alarm whose callback runs, -1 for none

timerVars == <<now, frame, alarms, next_id, ringing>>

\* Whole frames in a delay, at least one.
Frames(ms) == IF ms \div Interval = 0 THEN 1 ELSE ms \div Interval

Due(t) == t \in DOMAIN alarms /\ alarms[t].frame <= frame

NothingDue == \A t \in DOMAIN alarms : ~Due(t)

\* Between two calls of update().
Quiet == ringing = -1 /\ NothingDue /\ now < (frame + 1) * Interval

\* The frame an alarm rings in that asks for one with a delay of that many frames.
RingFrame(asked, frames) ==
    IF frames >= Turn /\ asked % Turn = 0 THEN asked + Turn ELSE asked

\* An alarm set, or set again, now.
AlarmIn(ms, repeat) ==
    [interval |-> ms, ms |-> frame * Interval + ms,
     frame |-> RingFrame(frame + Frames(ms), Frames(ms)), repeat |-> repeat]

TimersInit ==
    /\ now = 0
    /\ frame = 0
    /\ alarms = [t \in {} |-> 0]
    /\ next_id = 0
    /\ ringing = -1

\* The alarm gets the id next_id.
SetAlarm(ms, repeat) ==
    /\ Quiet \/ ringing # -1
    /\ next_id < MaxAlarms
    /\ alarms' = [t \in DOMAIN alarms \cup {next_id} |->
                    IF t = next_id THEN AlarmIn(ms, repeat) ELSE alarms[t]]
    /\ next_id' = next_id + 1
    /\ UNCHANGED <<now, frame, ringing>>

\* Cancels any of the alarms ts that are still pending.
CancelAlarms(ts) ==
    /\ Quiet \/ ringing # -1
    /\ alarms' = [t \in DOMAIN alarms \ ts |-> alarms[t]]
    /\ UNCHANGED <<now, frame, next_id, ringing>>

\* update() is called when d ms have passed since the last call.
Pass(d) ==
    /\ Quiet
    /\ now + d <= MaxNow
    /\ now' = now + d
    /\ UNCHANGED <<frame, alarms, next_id, ringing>>

Tick ==
    /\ ringing = -1
    /\ NothingDue
    /\ (frame + 1) * Interval <= now
    /\ frame' = frame + 1
    /\ UNCHANGED <<now, alarms, next_id, ringing>>

\* The callback of a due alarm starts; a repeating alarm is set again.
Ring(t) ==
    /\ ringing = -1
    /\ Due(t)
    /\ \A u \in DOMAIN alarms : Due(u) => alarms[t].ms <= alarms[u].ms
    /\ ringing' = t
    /\ alarms' = IF alarms[t].repeat
                 THEN [alarms EXCEPT ![t] = AlarmIn(@.interval, TRUE)]
                 ELSE [u \in DOMAIN alarms \ {t} |-> alarms[u]]
    /\ UNCHANGED <<now, frame, next_id>>

Return ==
    /\ ringing # -1
    /\ ringing' = -1
    /\ UNCHANGED <<now, frame, alarms, next_id>>

TimersNext ==
    \/ \E ms \in Delays, repeat \in BOOLEAN : SetAlarm(ms, repeat)
    \/ \E t \in DOMAIN alarms : CancelAlarms({t}) \/ Ring(t)
    \/ \E d \in 0 .. MaxElapse : Pass(d)
    \/ Tick
    \/ Return

TimersSpec == TimersInit /\ [][TimersNext]_timerVars
=============================================================================
