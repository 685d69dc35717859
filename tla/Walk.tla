-------------------------------- MODULE Walk --------------------------------
(***************************************************************************)
(* navigation_component.cpp: a monster that is sent along a path, and the  *)
(* repeating timer that moves it along, a little in each frame, over as    *)
(* many corners as the time allows.  It may be sent elsewhere at any       *)
(* moment, from where it is.                                               *)
(*                                                                         *)
(* Navigation finds the paths; here a path is any sequence of points.  The *)
(* timers are those of Timers; times and lengths are integers, and a place *)
(* between two corners is rounded.  What a frame adds is the interval of   *)
(* the timer, 33 ms.                                                       *)
(***************************************************************************)
EXTENDS TileData, Timers

CONSTANTS
    Home,       \* where the monster is at first
    MsPerUnit   \* 1000 / _move_speed

\* The lowest wheel has 1024 slots.
ASSUME WalkAssumption == Home \in Point /\ MsPerUnit \in Nat \ {0} /\ Turn > 1

VARIABLES
    monster,    \* its NavigationComponent and MovementComponent
    trip        \* history: the way it was sent, in which frame, and the calls of update since

walkVars == <<timerVars, monster, trip>>

-----------------------------------------------------------------------------
(* NavigationComponent *)

\* reset(), but for the alarm it cancels.
Reset(m) == [m EXCEPT !.timer = -1, !.idx = 1, !.cum = 0, !.seg = 0, !.path = << >>]

AlarmsOf(m) == {m.timer} \ {-1}

\* The ms from corner i to the next.
Leg(path, i) == MsPerUnit * Dist(path[i], path[i + 1])

\* m at the start of a call of update: at a corner it turns to the next one.
Turned(m) == IF m.cum # 0 THEN m
             ELSE [m EXCEPT !.seg = Leg(m.path, m.idx), !.facing = m.path[m.idx + 1]]

\* Faulty variant: the time within the segment is not kept.
Between_Forgets(m, cum) ==
    [m EXCEPT !.pos = Lerp(m.path[m.idx], m.path[m.idx + 1], cum, m.seg), !.stamp = now]

\* m when it has gone that long in its segment, and at the end of its path.
Between(m, cum) ==
    [m EXCEPT !.cum = cum, !.pos = Lerp(m.path[m.idx], m.path[m.idx + 1], cum, m.seg), !.stamp = now]
AtEnd(m) == Reset([m EXCEPT !.pos = m.path[m.idx + 1], !.stamp = now])

\* Faulty variant: what a frame leaves over at a corner is lost.
Stride_LosesRest(w) ==
    LET m   == Turned(w.m)
        cum == m.cum + w.d
    IN  IF w.done THEN w
        ELSE IF cum < m.seg THEN [w EXCEPT !.m = Between(m, cum), !.done = TRUE]
        ELSE IF m.idx >= Len(m.path) - 1 THEN [w EXCEPT !.m = AtEnd(m), !.done = TRUE]
        ELSE [w EXCEPT !.m = [m EXCEPT !.seg = 0, !.cum = 0, !.idx = @ + 1], !.d = 0]

\* One call of update(w.d), on w.m: along the segment, to the end, or over the corner, where
\* it calls itself with what is left.
Stride(w) ==
    LET m   == Turned(w.m)
        cum == m.cum + w.d
    IN  IF w.done THEN w
        ELSE IF cum < m.seg THEN [w EXCEPT !.m = Between(m, cum), !.done = TRUE]
        ELSE IF m.idx >= Len(m.path) - 1 THEN [w EXCEPT !.m = AtEnd(m), !.done = TRUE]
        ELSE [w EXCEPT !.m = [m EXCEPT !.seg = 0, !.cum = 0, !.idx = @ + 1], !.d = cum - m.seg]

\* update(d), with every call it makes of itself: one for each corner at most.
Moved(m, d) == Through(LAMBDA w, corner : Stride(w), [m |-> m, d |-> d, done |-> FALSE], m.path).m

\* The monster after move_to, which cancels its alarm and may get the next.
Sent(m, path) ==
    CASE Len(path) = 0 -> Reset(m)
      [] Len(path) = 1 -> [Reset(m) EXCEPT !.path = path, !.facing = path[1], !.pos = path[1]]
      [] OTHER -> [Reset(m) EXCEPT !.path = path, !.timer = next_id]

\* m, whose alarm is new, takes the place of the monster.
Departs(m) ==
    LET stays == DOMAIN alarms \ AlarmsOf(monster)
    IN  /\ monster' = m
        /\ alarms' = [t \in stays \cup AlarmsOf(m) |-> IF t = m.timer THEN AlarmIn(Interval, TRUE) ELSE alarms[t]]
        /\ next_id' = next_id + Cardinality(AlarmsOf(m))
        /\ trip' = [path |-> m.path, since |-> frame, calls |-> 0]

\* move_to, when that is the path that was found.
MoveTo(path) ==
    /\ Quiet
    /\ Departs(Sent(monster, path))
    /\ UNCHANGED <<now, frame, ringing>>

\* The callback of the timer, to its end: at the end of the path it cancels its own alarm.
Update ==
    /\ ringing # -1
    /\ \E m \in {Moved(monster, Interval)} :
        /\ monster' = m
        /\ alarms' = [t \in DOMAIN alarms \ (AlarmsOf(monster) \ AlarmsOf(m)) |-> alarms[t]]
    /\ ringing' = -1
    /\ trip' = [trip EXCEPT !.calls = @ + 1]
    /\ UNCHANGED <<now, frame, next_id>>

Clock ==
    /\ (\E d \in 1 .. MaxElapse : Pass(d)) \/ Tick \/ (\E t \in DOMAIN alarms : Ring(t))
    /\ UNCHANGED <<monster, trip>>

WalkInit ==
    /\ TimersInit
    /\ monster = [pos |-> Home, facing |-> Home, stamp |-> 0, timer |-> -1, path |-> << >>,
                  idx |-> 1, cum |-> 0, seg |-> 0]
    /\ trip = [path |-> << >>, since |-> 0, calls |-> 0]

WalkNext == (\E path \in Seq(Point) : MoveTo(path)) \/ Update \/ Clock

WalkSpec == WalkInit /\ [][WalkNext]_walkVars

-----------------------------------------------------------------------------
(* Properties *)

\* The ms from the first corner of a path to each of the others.
Times(path) ==
    LET t[i \in 1 .. Len(path)] == IF i = 1 THEN 0 ELSE t[i - 1] + Leg(path, i - 1) IN t

\* Where one is that many ms along a path.
PlaceAt(path, ms) ==
    LET t == Times(path)
        i == CHOOSE i \in 1 .. Len(path) - 1 : t[i] <= ms /\ ms < t[i + 1]
    IN  IF ms >= t[Len(path)] THEN path[Len(path)]
        ELSE Lerp(path[i], path[i + 1], ms - t[i], Leg(path, i))

\* The monster is where the frames since it set out put it, however many corners lie
\* between, until it is at the end; and of the alarms it set only the last may ring, once
\* in a frame (update, reset, move_to).
KeepsPace ==
    /\ DOMAIN alarms = AlarmsOf(monster)
    /\ ringing \in {-1} \cup AlarmsOf(monster)
    /\ trip.calls > 0 => monster.pos = PlaceAt(trip.path, trip.calls * Interval)
    /\ monster.timer # -1 => /\ monster.path = trip.path
                             /\ Quiet => trip.calls = frame - trip.since
=============================================================================
