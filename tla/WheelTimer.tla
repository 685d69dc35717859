----------------------------- MODULE WheelTimer -----------------------------
(***************************************************************************)
(* The hierarchical wheel timer that drives the server                     *)
(* (src/src/wheel_timer.cpp, wheel_timer.h).  Three wheels of MaxSlots     *)
(* slots turn like the digits of a counter.  The event loop calls update() *)
(* about every Interval ms; each whole interval is one frame: the lowest   *)
(* wheel turns and the tasks of its slot run, then, whenever a wheel has   *)
(* come around, the next one turns and its slot is redistributed.          *)
(*                                                                         *)
(* Everything happens on the main thread.  Callbacks run inside a frame    *)
(* and may add and cancel timers, so a frame is several steps.             *)
(***************************************************************************)
EXTENDS Integers, FiniteSets

CONSTANTS
    MaxSlots,   \* max_slots_
    Interval,   \* interval_, in ms
    Delays,     \* the ms callers pass to add_timer
    MaxTimers,  \* bound: timers that are added
    MaxFrame,   \* bound: frames that are explored
    MaxElapse   \* bound: ms that may pass between two calls of update()

ASSUME MaxSlotsAssumption  == MaxSlots \in Nat \ {0, 1}
ASSUME IntervalAssumption  == Interval \in Nat \ {0}
ASSUME DelaysAssumption    == Delays \subseteq Nat
ASSUME BoundsAssumption    == MaxTimers \in Nat /\ MaxFrame \in Nat /\ MaxElapse \in Nat

VARIABLES
    cur_frame,      \* cur_frame_
    left_ms,        \* left_ms_
    ms_since_start, \* ms_since_start_
    cur_slot_index, \* of each wheel
    slots,          \* of each wheel: the ids of the tasks in each slot
    next_timer_id,  \* next_timer_id_
    tasks,          \* the TimerTask of each id ever handed out
    ids,            \* keys of id_2_timer_task_ (a fired task's key stays there)
    deleted,        \* ids whose task has been freed
    pc,             \* idle, or where update() is
    running,        \* run_timers: tasks of the slot not yet run
    current         \* run_timers: the task whose callback runs, -1 for none

clock == <<cur_frame, left_ms, ms_since_start>>
wheel == <<cur_slot_index, slots>>
vars  == <<cur_frame, left_ms, ms_since_start, cur_slot_index, slots, next_timer_id,
           tasks, ids, deleted, pc, running, current>>

Ids    == 0 .. MaxTimers - 1
Wheels == 0 .. 2
Slots  == 0 .. MaxSlots - 1

\* std::max(ms / interval_, 1): whole frames, at least one.
Frames(ms) == IF ms \div Interval = 0 THEN 1 ELSE ms \div Interval

\* The largest delay, in frames, the wheels can hold is below this.
Reach == MaxSlots * MaxSlots * MaxSlots

\* calculate_slot_index: the wheel whose digit is the leading one of a delay, and the
\* slot that far ahead of its current one.
WheelFor(frames) ==
    IF frames < MaxSlots THEN 0 ELSE IF frames < MaxSlots * MaxSlots THEN 1 ELSE 2

Digit(frames) ==
    CASE WheelFor(frames) = 0 -> frames
      [] WheelFor(frames) = 1 -> frames \div MaxSlots
      [] WheelFor(frames) = 2 -> frames \div (MaxSlots * MaxSlots)

\* Faulty variant: the digit is taken as the slot, not as an offset from the current one.
SlotFor_Absolute(frames, index) == Digit(frames) % MaxSlots

SlotFor(frames, index) == (index[WheelFor(frames)] + Digit(frames)) % MaxSlots

\* The slots with task t pushed for a delay of that many frames.
Pushed(s, index, t, frames) ==
    [s EXCEPT ![WheelFor(frames)][SlotFor(frames, index)] = @ \cup {t}]

-----------------------------------------------------------------------------
Init ==
    /\ cur_frame = 0
    /\ left_ms = 0
    /\ ms_since_start = 0
    /\ cur_slot_index = [w \in Wheels |-> 0]
    /\ slots = [w \in Wheels |-> [s \in Slots |-> {}]]
    /\ next_timer_id = 0
    /\ tasks = [t \in {} |-> 0]
    /\ ids = {}
    /\ deleted = {}
    /\ pc = "idle"
    /\ running = {}
    /\ current = -1

\* Handlers run between updates, callbacks inside run_timers.
CallerRuns == pc \in {"idle", "callback"}

\* add_timer.  A delay out of reach is refused with -1 and changes nothing.
AddTimer ==
    /\ CallerRuns
    /\ next_timer_id < MaxTimers
    /\ \E ms \in Delays, repeat \in BOOLEAN :
          LET t == next_timer_id
          IN  /\ Frames(ms) < Reach
              /\ slots' = Pushed(slots, cur_slot_index, t, Frames(ms))
              /\ tasks' = [k \in DOMAIN tasks \cup {t} |->
                             IF k = t
                             THEN [interval |-> ms,
                                   timeout_ms |-> cur_frame * Interval + ms,
                                   timeout_frame |-> cur_frame + Frames(ms),
                                   is_repeat |-> repeat, is_canceled |-> FALSE]
                             ELSE tasks[k]]
              /\ ids' = ids \cup {t}
    /\ next_timer_id' = next_timer_id + 1
    /\ UNCHANGED <<clock, cur_slot_index, deleted, pc, running, current>>

\* del_timer.  Owners forget the id of a one-shot timer when it fires, so no call
\* names a task that was freed.
DelTimer(t) ==
    /\ CallerRuns
    /\ t \in ids \ deleted
    /\ tasks' = [tasks EXCEPT ![t].is_canceled = TRUE]
    /\ ids' = ids \ {t}
    /\ UNCHANGED <<clock, wheel, deleted, pc, running, current, next_timer_id>>

\* update() measures the time since its last call.
Update(d) ==
    /\ pc = "idle"
    /\ left_ms' = left_ms + d
    /\ ms_since_start' = ms_since_start + d
    /\ pc' = "update"
    /\ UNCHANGED <<cur_frame, wheel, tasks, ids, deleted, running, current, next_timer_id>>

\* The loop of update() ends.
UpdateDone ==
    /\ pc = "update"
    /\ left_ms < Interval
    /\ pc' = "idle"
    /\ UNCHANGED <<clock, wheel, tasks, ids, deleted, running, current, next_timer_id>>

\* One round of the loop, up to the slot of the lowest wheel.
Turned(index, w) == [index EXCEPT ![w] = (@ + 1) % MaxSlots]

TickBegin ==
    /\ pc = "update"
    /\ left_ms >= Interval
    /\ cur_frame < MaxFrame
    /\ left_ms' = left_ms - Interval
    /\ cur_frame' = cur_frame + 1
    /\ cur_slot_index' = Turned(cur_slot_index, 0)
    /\ running' = slots[0][cur_slot_index'[0]]
    /\ pc' = "run"
    /\ UNCHANGED <<ms_since_start, slots, tasks, ids, deleted, current, next_timer_id>>

\* Faulty variant: the slot is not sorted.
Earliest_AnyOrder(t) == t \in running

\* run_timers sorts the slot by timeout_ms: the next task is one of the earliest.
Earliest(t) ==
    /\ t \in running
    /\ \A u \in running : tasks[t].timeout_ms <= tasks[u].timeout_ms

\* A cancelled task is freed instead.
DropCanceled(t) ==
    /\ pc = "run"
    /\ Earliest(t)
    /\ tasks[t].is_canceled
    /\ running' = running \ {t}
    /\ deleted' = deleted \cup {t}
    /\ UNCHANGED <<clock, wheel, tasks, ids, pc, current, next_timer_id>>

\* Its callback starts ...
Fire(t) ==
    /\ pc = "run"
    /\ Earliest(t)
    /\ ~tasks[t].is_canceled
    /\ running' = running \ {t}
    /\ current' = t
    /\ pc' = "callback"
    /\ UNCHANGED <<clock, wheel, tasks, ids, deleted, next_timer_id>>

\* ... and returns: a repeating task is pushed again, even if it was cancelled
\* meanwhile; any other is freed.
CallbackReturns ==
    LET t      == current
        frames == Frames(tasks[t].interval)
    IN  /\ pc = "callback"
        /\ IF tasks[t].is_repeat
           THEN /\ tasks' = [tasks EXCEPT
                               ![t].timeout_frame = cur_frame + frames,
                               ![t].timeout_ms = cur_frame * Interval + tasks[t].interval]
                /\ slots' = Pushed(slots, cur_slot_index, t, frames)
                /\ deleted' = deleted
           ELSE /\ deleted' = deleted \cup {t}
                /\ UNCHANGED <<tasks, slots>>
        /\ current' = -1
        /\ pc' = "run"
        /\ UNCHANGED <<clock, cur_slot_index, ids, running, next_timer_id>>

\* The slot is cleared.  If the lowest wheel has come around, the next wheel turns,
\* and so on.
RunDone ==
    /\ pc = "run"
    /\ running = {}
    /\ slots' = [slots EXCEPT ![0][cur_slot_index[0]] = {}]
    /\ pc' = IF cur_slot_index[0] = 0 THEN "cascade1" ELSE "update"
    /\ UNCHANGED <<clock, cur_slot_index, tasks, ids, deleted, running, current, next_timer_id>>

\* Faulty variant: the tasks are pushed but the slot is not cleared.
Moved_NotCleared(w, s, index) ==
    LET moved == slots[w][s]
        left(t) == tasks[t].timeout_frame - cur_frame
    IN  [v \in Wheels |-> [r \in Slots |->
            slots[v][r]
              \cup {t \in moved : WheelFor(left(t)) = v /\ SlotFor(left(t), index) = r}]]

\* The slots after move_timers(w, s): every task of the slot is pushed for the delay
\* it has left, and the slot is cleared.
Moved(w, s, index) ==
    LET moved == slots[w][s]
        left(t) == tasks[t].timeout_frame - cur_frame
    IN  [v \in Wheels |-> [r \in Slots |->
            (IF v = w /\ r = s THEN {} ELSE slots[v][r])
              \cup {t \in moved : WheelFor(left(t)) = v /\ SlotFor(left(t), index) = r}]]

\* The rest of tick() for the two upper wheels.
Cascade(w) ==
    /\ pc = (IF w = 1 THEN "cascade1" ELSE "cascade2")
    /\ cur_slot_index' = Turned(cur_slot_index, w)
    /\ slots' = Moved(w, cur_slot_index'[w], cur_slot_index')
    /\ pc' = IF w = 1 /\ cur_slot_index'[w] = 0 THEN "cascade2" ELSE "update"
    /\ UNCHANGED <<clock, tasks, ids, deleted, running, current, next_timer_id>>

\* The exploration ends at MaxFrame.
Bounded ==
    /\ cur_frame = MaxFrame
    /\ pc = "update"
    /\ left_ms >= Interval
    /\ UNCHANGED vars

Next ==
    \/ AddTimer
    \/ \E t \in Ids : DelTimer(t)
    \/ \E d \in 0 .. MaxElapse : Update(d)
    \/ UpdateDone
    \/ TickBegin
    \/ \E t \in Ids : DropCanceled(t) \/ Fire(t)
    \/ CallbackReturns
    \/ RunDone
    \/ \E w \in {1, 2} : Cascade(w)
    \/ Bounded

Spec == Init /\ [][Next]_vars

-----------------------------------------------------------------------------
(* Properties *)

Task == [interval : Delays, timeout_ms : Nat, timeout_frame : Nat,
         is_repeat : BOOLEAN, is_canceled : BOOLEAN]

\* Every variable holds a value of its type, and update() leaves less than an
\* interval over.
TypeOK ==
    /\ cur_frame \in 0 .. MaxFrame
    /\ left_ms \in Nat /\ (pc = "idle" => left_ms < Interval)
    /\ ms_since_start \in Nat
    /\ cur_slot_index \in [Wheels -> Slots]
    /\ slots \in [Wheels -> [Slots -> SUBSET Ids]]
    /\ next_timer_id \in 0 .. MaxTimers
    /\ DOMAIN tasks = 0 .. next_timer_id - 1
    /\ \A t \in DOMAIN tasks : tasks[t] \in Task
    /\ ids \subseteq DOMAIN tasks
    /\ deleted \subseteq DOMAIN tasks
    /\ pc \in {"idle", "update", "run", "callback", "cascade1", "cascade2"}
    /\ running \subseteq Ids
    /\ current \in Ids \cup {-1}

\* Tasks a slot still has to run or to hand down.  run_timers clears its slot only
\* at the end, when the tasks have been run, freed or pushed elsewhere.
Held(w, s) ==
    IF pc \in {"run", "callback"} /\ w = 0 /\ s = cur_slot_index[0]
    THEN running \cup ({current} \ {-1})
    ELSE slots[w][s]

Live == DOMAIN tasks \ deleted

\* However timers are added, cancelled, run, repeated and handed down, a live task
\* is held in exactly one place and a freed one in none: no callback is lost, none
\* runs twice and no freed task is touched.
OnePlace ==
    \A t \in DOMAIN tasks :
        LET places == {p \in Wheels \X Slots : t \in Held(p[1], p[2])}
        IN  Cardinality(places) = IF t \in Live THEN 1 ELSE 0

\* A delay the lowest wheel does not hold, due when that wheel comes around: the
\* cascade of that frame pushes it into slot 0, which has just been run, so it waits
\* for another turn.
OneTurnLate(t) ==
    /\ Frames(tasks[t].interval) >= MaxSlots
    /\ tasks[t].timeout_frame % MaxSlots = 0
    /\ t \in slots[0][0]

\* The clock the server hands out (ms_since_start, sent in pong and compared with
\* cooldowns) and the frames the timers run on never drift apart.
ClockAgrees == cur_frame * Interval + left_ms = ms_since_start

\* A live task is in one place, a freed one in none, and the clock of the server and the
\* frames its timers run on never drift apart, whatever is added, cancelled and handed down
\* (add_timer, del_timer, run_timers, move_timers, update).
TasksAccounted == TypeOK /\ OnePlace /\ ClockAgrees

\* Between updates no live task is overdue, but for those a turn late: the wheels
\* turn, cascade and are refilled from callbacks without stranding a task.
NothingOverdue ==
    pc = "idle" =>
        \A t \in Live :
            \/ cur_frame < tasks[t].timeout_frame
            \/ OneTurnLate(t) /\ cur_frame < tasks[t].timeout_frame + MaxSlots

\* A task as its owner sees it: pending until it starts to run for the last time or
\* is cancelled; one that repeats is set for its next time as soon as it runs.
Pending(t) ==
    /\ ~tasks[t].is_canceled
    /\ t = current => tasks[t].is_repeat

AlarmOf(t) ==
    LET frames == Frames(tasks[t].interval)
        asked  == IF t = current THEN cur_frame + frames ELSE tasks[t].timeout_frame
    IN  [interval |-> tasks[t].interval, repeat |-> tasks[t].is_repeat,
         ms    |-> IF t = current THEN cur_frame * Interval + tasks[t].interval
                                  ELSE tasks[t].timeout_ms,
         frame |-> IF frames >= MaxSlots /\ asked % MaxSlots = 0 THEN asked + MaxSlots ELSE asked]

Contract == INSTANCE Timers WITH
    now       <- ms_since_start,
    frame     <- cur_frame,
    alarms    <- [t \in {u \in Live : Pending(u)} |-> AlarmOf(t)],
    next_id   <- next_timer_id,
    ringing   <- current,
    Turn      <- MaxSlots,
    MaxAlarms <- MaxTimers,
    MaxNow    <- (MaxFrame + 1) * Interval + MaxElapse

\* The wheels, slots and cascades are an implementation of Timers: but for the one case in
\* which a callback is a turn late, none is early, late, out of order or run after its
\* cancellation, and no handler runs while one is due.
KeepsContract == Contract!TimersSpec
=============================================================================
