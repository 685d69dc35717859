-------------------------- MODULE WheelTimerProofs --------------------------
(* Proofs about WheelTimer, for any number of slots, length of a frame, delays and  *)
(* timers.                                                                          *)
EXTENDS WheelTimer, DataLemmas, FiniteSetTheorems, TLAPS

-----------------------------------------------------------------------------
(* The inductive invariant *)

\* The frames in one slot of a wheel.
Span(w) == IF w = 0 THEN 1 ELSE IF w = 1 THEN MaxSlots ELSE MaxSlots * MaxSlots

\* Frames a wheel has yet to be turned for: while a frame is under way, the upper wheels
\* are one behind.
Seen(w) ==
    IF pc \in {"run", "callback", "cascade1"} \/ (w = 2 /\ pc = "cascade2")
    THEN cur_frame - 1 ELSE cur_frame

\* How often an upper wheel has been turned.
Turns(w) == Seen(w) \div Span(w)

\* The wheels turn like the digits of the frame, and update() keeps its locals.
WheelsInv ==
    /\ cur_slot_index[0] = cur_frame % MaxSlots
    /\ \A w \in {1, 2} : cur_slot_index[w] = Turns(w) % MaxSlots
    /\ pc \notin {"idle", "update"} => cur_frame > 0
    /\ pc = "cascade1" => cur_frame % MaxSlots = 0
    /\ pc = "cascade2" => cur_frame % (MaxSlots * MaxSlots) = 0
    /\ pc = "callback" <=> current # -1
    /\ pc \notin {"run", "callback"} => running = {}
    /\ current \notin running

Places(t) == {p \in Wheels \X Slots : t \in Held(p[1], p[2])}

\* The places hold live tasks only, each in one of them.
PlaceInv ==
    /\ \A w \in Wheels, s \in Slots : Held(w, s) \subseteq Live
    /\ \A t \in Live : \E p \in Wheels \X Slots : Places(t) = {p}

\* The frame a task will be run in.
DueFrame(t) ==
    IF Frames(tasks[t].interval) >= MaxSlots /\ tasks[t].timeout_frame % MaxSlots = 0
    THEN tasks[t].timeout_frame + MaxSlots ELSE tasks[t].timeout_frame

\* The lowest wheel holds a task in the slot of that frame, less than a turn (or, for
\* one a turn late, just a turn) ahead; the slot being run holds what is due now.
InLowest(t, s) ==
    /\ s = DueFrame(t) % MaxSlots
    /\ IF pc \in {"run", "callback"} /\ s = cur_slot_index[0]
       THEN DueFrame(t) = cur_frame
       ELSE cur_frame < DueFrame(t) /\ DueFrame(t) <= cur_frame + MaxSlots

\* An upper wheel holds a task in a slot it will reach in less than a turn, and in the
\* frames of that slot, or of the one after it, the task is due.
InUpper(t, w, s) ==
    /\ Frames(tasks[t].interval) >= MaxSlots
    /\ \E k \in Turns(w) + 1 .. Turns(w) + MaxSlots - 1 :
          /\ s = k % MaxSlots
          /\ k * Span(w) <= tasks[t].timeout_frame
          /\ tasks[t].timeout_frame < k * Span(w) + Span(w) + Span(w)

\* Every task waits in a slot that will be reached in time.
ScheduleInv ==
    /\ \A t \in DOMAIN tasks : Frames(tasks[t].interval) < Reach
    /\ \A s \in Slots : \A t \in Held(0, s) \ {current} : InLowest(t, s)
    /\ \A w \in {1, 2}, s \in Slots : \A t \in slots[w][s] : InUpper(t, w, s)

TimerInv == TypeOK /\ ClockAgrees /\ WheelsInv /\ PlaceInv /\ ScheduleInv

-----------------------------------------------------------------------------
(* Wheels, slots and delays *)

\* What a slot of each wheel spans.
LEMMA SpanFacts ==
  /\ MaxSlots \in Nat \ {0} /\ MaxSlots > 1
  /\ Span(0) = 1 /\ Span(1) = MaxSlots /\ Span(2) = MaxSlots * MaxSlots
  /\ Span(1) \in Nat \ {0} /\ Span(2) \in Nat \ {0}
  /\ Span(1) + Span(1) <= Span(2) /\ Reach = MaxSlots * Span(2) /\ Reach \in Nat
<1>1. MaxSlots \in Nat \ {0} /\ MaxSlots > 1
  BY MaxSlotsAssumption
<1>2. MaxSlots + MaxSlots <= MaxSlots * MaxSlots /\ MaxSlots * MaxSlots \in Nat
  <2>1. 2 * MaxSlots <= MaxSlots * MaxSlots
    BY <1>1, Products
  <2>2. QED  BY <1>1, <2>1
<1> DEFINE s == MaxSlots * MaxSlots
<1>3. s \in Nat \ {0}
  BY <1>1, <1>2
<1>4. Reach = s * MaxSlots
  BY DEF Reach
<1> HIDE DEF s
<1>5. s * MaxSlots = MaxSlots * s /\ s * MaxSlots \in Nat
  BY <1>1, <1>3
<1>6. Span(2) = s
  BY DEF Span, s
<1>7. QED  BY <1>1, <1>2, <1>3, <1>4, <1>5, <1>6 DEF Span

\* A delay is at least a frame.
LEMMA FramesType ==
  ASSUME NEW ms \in Nat
  PROVE  Frames(ms) \in Nat \ {0}
  BY IntervalAssumption DEF Frames

\* Frames in milliseconds.
LEMMA FrameMs ==
  ASSUME NEW f \in Nat
  PROVE  f * Interval \in Nat /\ (f + 1) * Interval = f * Interval + Interval
  BY IntervalAssumption, Products

\* Every delay gets a wheel and a slot of it.
LEMMA WheelSlot ==
  ASSUME NEW d \in Int, NEW index \in [Wheels -> Slots]
  PROVE  WheelFor(d) \in Wheels /\ SlotFor(d, index) \in Slots
<1> DEFINE w == WheelFor(d)
           q == Digit(d)
<1>1. w \in {0, 1, 2} /\ (w = 0 <=> d < MaxSlots)
      /\ (w = 1 <=> ~(d < MaxSlots) /\ d < MaxSlots * MaxSlots)
  BY DEF WheelFor
<1>2. q \in Int
  BY <1>1, SpanFacts, Quotient DEF Digit
<1>3. index[w] \in Int
  BY <1>1, SpanFacts DEF Wheels, Slots
<1> HIDE DEF w, q
<1>4. (index[w] + q) \in Int
  BY <1>2, <1>3
<1>5. (index[w] + q) % MaxSlots \in 0 .. MaxSlots - 1
  BY <1>4, SpanFacts, Quotient
<1>6. QED  BY <1>1, <1>5 DEF w, q, SlotFor, Wheels, Slots

\* A delay of less than a turn goes into the lowest wheel, in the slot of its frame.
LEMMA LowestSlot ==
  ASSUME NEW d \in Nat, d < MaxSlots, NEW f \in Nat, NEW index, index[0] = f % MaxSlots
  PROVE  WheelFor(d) = 0 /\ SlotFor(d, index) = (f + d) % MaxSlots
<1>1. WheelFor(d) = 0
  BY DEF WheelFor
<1>2. Digit(d) = d
  BY <1>1 DEF Digit
<1>3. SlotFor(d, index) = ((f % MaxSlots) + d) % MaxSlots
  BY <1>1, <1>2 DEF SlotFor
<1>4. f \in Int /\ d \in Int /\ MaxSlots \in Nat \ {0}
  BY SpanFacts
<1>5. ((f % MaxSlots) + d) % MaxSlots = (f + d) % MaxSlots
  BY <1>4, RemainderAdd, Zenon
<1>6. QED  BY <1>1, <1>3, <1>5

\* A longer delay goes into an upper wheel, into a slot that wheel reaches in less than
\* a turn and no later than the delay ends.
LEMMA UpperSlot ==
  ASSUME NEW d \in Nat, d >= MaxSlots, d < Reach, NEW w, w = WheelFor(d),
         NEW f \in Nat, NEW c \in Nat, c * Span(w) <= f, f <= c * Span(w) + Span(w),
         NEW index, index[w] = c % MaxSlots
  PROVE  /\ w \in {1, 2}
         /\ \E k \in c + 1 .. c + MaxSlots - 1 :
               /\ SlotFor(d, index) = k % MaxSlots
               /\ k * Span(w) <= f + d
               /\ f + d < k * Span(w) + Span(w) + Span(w)
<1> DEFINE n == MaxSlots
           s == Span(w)
           q == d \div s
           k == c + q
<1>1. w \in {1, 2} /\ s \in Nat \ {0} /\ n \in Nat \ {0} /\ s <= d /\ d < n * s
  <2>1. w \in {1, 2}
    BY SpanFacts DEF WheelFor
  <2>2. CASE w = 1
    BY <2>2, SpanFacts DEF WheelFor
  <2>3. CASE w = 2
    BY <2>3, SpanFacts DEF WheelFor
  <2>4. QED  BY <2>1, <2>2, <2>3
<1>2. Digit(d) = q
  BY <1>1 DEF Digit, Span
<1>3. SlotFor(d, index) = ((c % n) + q) % n
  BY <1>2 DEF SlotFor
<1> HIDE DEF n, s
<1>4. q \in Nat /\ q * s <= d /\ d < q * s + s
  <2>1. d \in Int /\ s \in Nat \ {0} /\ d >= 0
    BY <1>1
  <2>2. QED  BY <2>1, Quotient, Zenon
<1> HIDE DEF q
<1>5. q * s \in Int /\ 1 * s = s /\ (q + 1) * s = q * s + s /\ n * s \in Int
  BY <1>1, <1>4, Products
<1>6. q >= 1
  <2>1. 1 * s < (q + 1) * s
    BY <1>1, <1>4, <1>5
  <2>2. 1 < q + 1
    BY <1>1, <1>4, <2>1, Products
  <2>3. QED  BY <1>4, <2>2
<1>7. q < n
  <2>1. q * s < n * s
    BY <1>1, <1>4, <1>5
  <2>2. QED  BY <1>1, <1>4, <2>1, Products
<1>8. k \in c + 1 .. c + n - 1
  BY <1>1, <1>4, <1>6, <1>7
<1>9. ((c % n) + q) % n = k % n
  <2>1. c \in Int /\ q \in Int /\ n \in Nat \ {0}
    BY <1>1, <1>4
  <2>2. QED  BY <2>1, RemainderAdd, Zenon
<1>10. k * s = c * s + q * s /\ c * s \in Int
  BY <1>1, <1>4, Products
<1> HIDE DEF k
<1>11. k * s <= f + d /\ f + d < k * s + s + s
  BY <1>1, <1>4, <1>5, <1>10 DEF s
<1>12. QED
  <2>1. SlotFor(d, index) = k % MaxSlots
    BY <1>3, <1>9 DEF n
  <2>2. k \in c + 1 .. c + MaxSlots - 1
    BY <1>8 DEF n
  <2>3. k * Span(w) <= f + d /\ f + d < k * Span(w) + Span(w) + Span(w)
    BY <1>11 DEF s
  <2>4. QED  BY <1>1, <2>1, <2>2, <2>3

\* The turns of an upper wheel say where the current frame is.
LEMMA TurnsFacts ==
  ASSUME TypeOK, WheelsInv, NEW w \in {1, 2}
  PROVE  /\ Turns(w) \in Nat /\ Seen(w) \in Nat
         /\ Turns(w) * Span(w) <= Seen(w) /\ Seen(w) < Turns(w) * Span(w) + Span(w)
         /\ Turns(w) * Span(w) <= cur_frame /\ cur_frame <= Turns(w) * Span(w) + Span(w)
         /\ Turns(w) * Span(w) \in Nat
<1>1. cur_frame \in Nat
  BY BoundsAssumption DEF TypeOK
<1>2. Seen(w) \in Nat /\ Seen(w) <= cur_frame /\ cur_frame <= Seen(w) + 1
  BY <1>1 DEF Seen, WheelsInv
<1>3. Span(w) \in Nat \ {0}
  BY SpanFacts
<1> DEFINE x == Seen(w)
           s == Span(w)
           c == x \div s
<1>4. Turns(w) = c
  BY DEF Turns
<1>5. x \in Int /\ s \in Nat \ {0} /\ x >= 0
  BY <1>2, <1>3
<1> HIDE DEF x, s
<1>6. c \in Nat /\ c * s <= x /\ x < c * s + s
  BY <1>5, Quotient, Zenon
<1> HIDE DEF c
<1>7. c * s \in Nat
  BY <1>5, <1>6, Products
<1>8. x <= cur_frame /\ cur_frame <= x + 1
  BY <1>2 DEF x
<1>9. c * s <= cur_frame /\ cur_frame <= c * s + s
  BY <1>1, <1>5, <1>6, <1>7, <1>8
<1>10. QED  BY <1>2, <1>4, <1>6, <1>7, <1>9 DEF x, s

\* A task is pushed into one slot, which is not the one being run.
LEMMA PushedSlots ==
  ASSUME TypeOK, WheelsInv, NEW t \in Ids, NEW d \in Nat \ {0}
  PROVE  /\ WheelFor(d) \in Wheels /\ SlotFor(d, cur_slot_index) \in Slots
         /\ WheelFor(d) = 0 => SlotFor(d, cur_slot_index) # cur_slot_index[0]
         /\ Pushed(slots, cur_slot_index, t, d) \in [Wheels -> [Slots -> SUBSET Ids]]
         /\ \A w \in Wheels, s \in Slots :
               Pushed(slots, cur_slot_index, t, d)[w][s] =
                 IF w = WheelFor(d) /\ s = SlotFor(d, cur_slot_index)
                 THEN slots[w][s] \cup {t} ELSE slots[w][s]
<1> DEFINE w0 == WheelFor(d)
           s0 == SlotFor(d, cur_slot_index)
<1>1. w0 \in Wheels /\ s0 \in Slots
  BY WheelSlot DEF TypeOK
<1>2. ASSUME w0 = 0
      PROVE  s0 # cur_slot_index[0]
  <2>1. d < MaxSlots /\ MaxSlots \in Nat \ {0} /\ cur_frame \in Nat
    BY <1>2, SpanFacts, BoundsAssumption DEF WheelFor, TypeOK
  <2>2. s0 = (cur_frame + d) % MaxSlots /\ cur_slot_index[0] = cur_frame % MaxSlots
    BY <2>1, LowestSlot DEF WheelsInv
  <2> SUFFICES ASSUME cur_frame % MaxSlots = (cur_frame + d) % MaxSlots PROVE FALSE
    BY <2>2
  <2> DEFINE y == cur_frame + d
  <2>3. y \in Int /\ cur_frame \in Int /\ cur_frame <= y /\ y < cur_frame + MaxSlots /\ y # cur_frame
    BY <2>1
  <2>4. cur_frame % MaxSlots = y % MaxSlots
    OBVIOUS
  <2> HIDE DEF y
  <2>5. cur_frame = y
    BY <2>1, <2>3, <2>4, RemainderUnique
  <2>6. QED  BY <2>3, <2>5
<1> HIDE DEF w0, s0
<1> DEFINE new == [slots EXCEPT ![w0][s0] = @ \cup {t}]
<1>3. Pushed(slots, cur_slot_index, t, d) = new
  BY DEF Pushed, w0, s0
<1>4. slots \in [Wheels -> [Slots -> SUBSET Ids]]
  BY DEF TypeOK
<1>5. /\ new \in [Wheels -> [Slots -> SUBSET Ids]]
      /\ \A w \in Wheels, s \in Slots :
            new[w][s] = IF w = w0 /\ s = s0 THEN slots[w][s] \cup {t} ELSE slots[w][s]
  BY <1>1, <1>4
<1> HIDE DEF new
<1>6. QED  BY <1>1, <1>2, <1>3, <1>5 DEF w0, s0

\* A task pushed between frames or by a callback is on schedule.
LEMMA PushedOnTime ==
  ASSUME TypeOK, WheelsInv, CallerRuns, NEW d \in Nat \ {0}, d < Reach
  PROVE  /\ WheelFor(d) = 0 => /\ d < MaxSlots
                               /\ SlotFor(d, cur_slot_index) = (cur_frame + d) % MaxSlots
         /\ WheelFor(d) # 0 =>
              /\ d >= MaxSlots /\ WheelFor(d) \in {1, 2}
              /\ \E k \in Turns(WheelFor(d)) + 1 .. Turns(WheelFor(d)) + MaxSlots - 1 :
                    /\ SlotFor(d, cur_slot_index) = k % MaxSlots
                    /\ k * Span(WheelFor(d)) <= cur_frame + d
                    /\ cur_frame + d < k * Span(WheelFor(d)) + Span(WheelFor(d)) + Span(WheelFor(d))
<1>1. cur_frame \in Nat /\ MaxSlots \in Nat
  BY BoundsAssumption, SpanFacts DEF TypeOK
<1>2. ASSUME WheelFor(d) = 0
      PROVE  d < MaxSlots /\ SlotFor(d, cur_slot_index) = (cur_frame + d) % MaxSlots
  <2>1. d < MaxSlots
    BY <1>2 DEF WheelFor
  <2>2. QED  BY <1>1, <2>1, LowestSlot DEF WheelsInv
<1>3. ASSUME WheelFor(d) # 0
      PROVE  /\ d >= MaxSlots /\ WheelFor(d) \in {1, 2}
             /\ \E k \in Turns(WheelFor(d)) + 1 .. Turns(WheelFor(d)) + MaxSlots - 1 :
                    /\ SlotFor(d, cur_slot_index) = k % MaxSlots
                    /\ k * Span(WheelFor(d)) <= cur_frame + d
                    /\ cur_frame + d < k * Span(WheelFor(d)) + Span(WheelFor(d)) + Span(WheelFor(d))
  <2> DEFINE w == WheelFor(d)
             c == Turns(w)
  <2>1. d >= MaxSlots /\ w \in {1, 2}
    BY <1>1, <1>3 DEF WheelFor
  <2>2. c \in Nat /\ c * Span(w) <= cur_frame /\ cur_frame <= c * Span(w) + Span(w)
    BY <2>1, TurnsFacts
  <2>3. cur_slot_index[w] = c % MaxSlots
    BY <2>1 DEF WheelsInv
  <2>4. w = WheelFor(d)
    OBVIOUS
  <2> HIDE DEF w, c
  <2>5. \E k \in c + 1 .. c + MaxSlots - 1 :
               /\ SlotFor(d, cur_slot_index) = k % MaxSlots
               /\ k * Span(w) <= cur_frame + d
               /\ cur_frame + d < k * Span(w) + Span(w) + Span(w)
    BY <1>1, <2>1, <2>2, <2>3, <2>4, UpperSlot
  <2>6. QED  BY <2>1, <2>5 DEF w, c
<1>4. QED  BY <1>2, <1>3

-----------------------------------------------------------------------------
(* What a step has to show *)

\* Every live task stays where it is or comes to be in one place.
LEMMA Placed ==
  ASSUME PlaceInv,
         \A w \in Wheels, s \in Slots : Held(w, s)' \subseteq Live',
         \A t \in Live' :
            \/ t \in Live /\ \A w \in Wheels, s \in Slots : t \in Held(w, s)' <=> t \in Held(w, s)
            \/ \E v \in Wheels, r \in Slots : \A w \in Wheels, s \in Slots :
                  t \in Held(w, s)' <=> w = v /\ s = r
  PROVE  PlaceInv'
<1>1. ASSUME NEW t \in Live'
      PROVE  \E p \in Wheels \X Slots : Places(t)' = {p}
  <2>1. CASE t \in Live /\ \A w \in Wheels, s \in Slots : t \in Held(w, s)' <=> t \in Held(w, s)
    <3>1. Places(t)' = Places(t)
      BY <2>1 DEF Places
    <3>2. QED  BY <2>1, <3>1 DEF PlaceInv
  <2>2. ASSUME NEW v \in Wheels, NEW r \in Slots,
               \A w \in Wheels, s \in Slots : t \in Held(w, s)' <=> w = v /\ s = r
        PROVE  \E p \in Wheels \X Slots : Places(t)' = {p}
    <3>1. Places(t)' = {<<v, r>>}
      BY <2>2 DEF Places
    <3>2. <<v, r>> \in Wheels \X Slots
      OBVIOUS
    <3>3. QED  BY <3>1, <3>2
  <2>3. QED  BY <1>1, <2>1, <2>2, Zenon
<1>2. QED  BY <1>1 DEF PlaceInv

\* A task nobody touched waits in an upper wheel as before, while that wheel does not turn.
LEMMA SameUpper ==
  ASSUME NEW w \in {1, 2}, NEW s, Turns(w)' = Turns(w),
         NEW t, tasks'[t].interval = tasks[t].interval,
         tasks'[t].timeout_frame = tasks[t].timeout_frame
  PROVE  InUpper(t, w, s)' <=> InUpper(t, w, s)
  BY Zenon DEF InUpper, Span

\* A task nobody touched is as much on schedule as before, while no wheel turns.
LEMMA StillOnTime ==
  ASSUME cur_frame' = cur_frame, cur_slot_index' = cur_slot_index,
         pc' \in {"run", "callback"} <=> pc \in {"run", "callback"},
         \A w \in {1, 2} : Turns(w)' = Turns(w),
         NEW t, tasks'[t].interval = tasks[t].interval,
         tasks'[t].timeout_frame = tasks[t].timeout_frame
  PROVE  /\ \A s \in Slots : InLowest(t, s)' <=> InLowest(t, s)
         /\ \A w \in {1, 2}, s \in Slots : InUpper(t, w, s)' <=> InUpper(t, w, s)
<1>1. DueFrame(t)' = DueFrame(t)
  BY DEF DueFrame
<1>2. ASSUME NEW s \in Slots
      PROVE  InLowest(t, s)' <=> InLowest(t, s)
  BY <1>1 DEF InLowest
<1>3. ASSUME NEW w \in {1, 2}, NEW s \in Slots
      PROVE  InUpper(t, w, s)' <=> InUpper(t, w, s)
  BY SameUpper
<1>4. QED  BY <1>2, <1>3

\* The upper wheels are as far behind as they were.
LEMMA SameTurns ==
  ASSUME cur_frame' = cur_frame,
         pc' = pc \/ {pc, pc'} \subseteq {"run", "callback", "cascade1"} \/ {pc, pc'} \subseteq {"idle", "update"}
  PROVE  \A w \in {1, 2} : Turns(w)' = Turns(w) /\ Seen(w)' = Seen(w)
<1>1. \A w \in {1, 2} : Seen(w)' = Seen(w)
  BY DEF Seen
<1>2. QED  BY <1>1 DEF Turns, Span

\* A task that a handler or a returning callback pushes is on schedule.
LEMMA NewOnTime ==
  ASSUME TypeOK, WheelsInv, CallerRuns,
         cur_frame' = cur_frame, cur_slot_index' = cur_slot_index,
         pc' = pc \/ (pc' = "run" /\ pc = "callback"),
         NEW t, NEW ms \in Nat, Frames(ms) < Reach,
         tasks'[t].interval = ms, tasks'[t].timeout_frame = cur_frame + Frames(ms),
         NEW v, v = WheelFor(Frames(ms)),
         NEW r, r = SlotFor(Frames(ms), cur_slot_index), MaxTimers > 0
  PROVE  /\ v = 0 => InLowest(t, r)'
         /\ v # 0 => v \in {1, 2} /\ InUpper(t, v, r)'
<1> DEFINE d == Frames(ms)
<1>1. d \in Nat \ {0} /\ cur_frame \in Nat /\ MaxSlots \in Nat
  <2>1. d \in Nat \ {0}
    BY FramesType
  <2>2. QED  BY <2>1, SpanFacts, BoundsAssumption DEF TypeOK
<1>2. ASSUME v = 0
      PROVE  InLowest(t, r)'
  <2>1. d < MaxSlots /\ r = (cur_frame + d) % MaxSlots
    BY <1>1, <1>2, PushedOnTime
  <2>2. DueFrame(t)' = cur_frame + d
    BY <1>1, <2>1 DEF DueFrame
  <2>3. r # cur_slot_index[0]
    <3>1. 0 \in Ids
      BY BoundsAssumption DEF Ids
    <3>2. QED  BY <1>1, <1>2, <3>1, PushedSlots
  <2> HIDE DEF d
  <2>4. QED  BY <1>1, <2>1, <2>2, <2>3 DEF InLowest
<1>3. ASSUME v # 0
      PROVE  v \in {1, 2} /\ InUpper(t, v, r)'
  <2>1. /\ d >= MaxSlots /\ v \in {1, 2}
        /\ \E k \in Turns(v) + 1 .. Turns(v) + MaxSlots - 1 :
              /\ r = k % MaxSlots
              /\ k * Span(v) <= cur_frame + d
              /\ cur_frame + d < k * Span(v) + Span(v) + Span(v)
    BY <1>1, <1>3, PushedOnTime
  <2>2. Turns(v)' = Turns(v)
    BY <2>1, SameTurns
  <2>3. QED  BY <2>1, <2>2, Zenon DEF InUpper, Span
<1>4. QED  BY <1>2, <1>3

-----------------------------------------------------------------------------
(* The steps, but for the cascades *)

\* Timers are cancelled where they are.
LEMMA DelTimerInv ==
  ASSUME TimerInv, NEW i \in Ids, DelTimer(i)
  PROVE  TimerInv'
<1> USE DEF TimerInv
<1>1. /\ DOMAIN tasks' = DOMAIN tasks /\ i \in DOMAIN tasks
      /\ \A u \in DOMAIN tasks : /\ tasks'[u].interval = tasks[u].interval
                                 /\ tasks'[u].timeout_frame = tasks[u].timeout_frame
                                 /\ tasks'[u] \in Task
  BY DEF DelTimer, TypeOK, Task
<1>2. TypeOK'
  BY <1>1 DEF DelTimer, TypeOK, clock, wheel
<1>3. ClockAgrees'
  BY DEF DelTimer, ClockAgrees, clock
<1>4. \A w \in {1, 2} : Turns(w)' = Turns(w)
  BY SameTurns DEF DelTimer, clock
<1>5. WheelsInv'
  BY <1>4 DEF DelTimer, WheelsInv, clock, wheel
<1>6. Live' = Live /\ \A w, s : Held(w, s)' = Held(w, s)
  BY <1>1 DEF DelTimer, Live, Held, wheel
<1>7. PlaceInv'
  <2>1. \A w \in Wheels, s \in Slots : Held(w, s)' \subseteq Live'
    BY <1>6 DEF PlaceInv
  <2>2. QED  BY <1>6, <2>1, Placed
<1>8. ScheduleInv'
  <2>1. ASSUME NEW u \in DOMAIN tasks
        PROVE  /\ \A s \in Slots : InLowest(u, s)' <=> InLowest(u, s)
               /\ \A w \in {1, 2}, s \in Slots : InUpper(u, w, s)' <=> InUpper(u, w, s)
    BY <1>1, <1>4, StillOnTime DEF DelTimer, clock, wheel
  <2>2. \A s \in Slots : Held(0, s) \subseteq DOMAIN tasks
    BY DEF PlaceInv, Live, Wheels
  <2>3. \A w \in {1, 2}, s \in Slots : slots[w][s] \subseteq DOMAIN tasks
    BY DEF PlaceInv, Live, Wheels, Held
  <2>4. slots' = slots /\ current' = current
    BY DEF DelTimer, wheel
  <2>5. \A u \in DOMAIN tasks' : Frames(tasks'[u].interval) < Reach
    BY <1>1 DEF ScheduleInv
  <2>6. \A s \in Slots : \A u \in Held(0, s)' \ {current'} : InLowest(u, s)'
    BY <1>6, <2>1, <2>2, <2>4, Zenon DEF ScheduleInv
  <2>7. \A w \in {1, 2}, s \in Slots : \A u \in slots'[w][s] : InUpper(u, w, s)'
    BY <2>1, <2>3, <2>4, Zenon DEF ScheduleInv
  <2>8. QED  BY <2>5, <2>6, <2>7 DEF ScheduleInv
<1>9. QED  BY <1>2, <1>3, <1>5, <1>7, <1>8

\* Time is measured.
LEMMA UpdateInv ==
  ASSUME TimerInv, NEW d \in 0 .. MaxElapse, Update(d)
  PROVE  TimerInv'
<1> USE DEF TimerInv
<1>1. d \in Nat
  BY BoundsAssumption
<1>2. TypeOK'
  BY <1>1 DEF Update, TypeOK, wheel
<1>3. ClockAgrees'
  <2>1. cur_frame * Interval \in Nat
    <3>1. cur_frame \in Nat
      BY BoundsAssumption DEF TypeOK
    <3>2. QED  BY <3>1, FrameMs, Zenon
  <2>2. (cur_frame * Interval)' = cur_frame * Interval
    BY DEF Update
  <2>3. \A p \in Nat : p + left_ms = ms_since_start => p + left_ms' = ms_since_start'
    BY <1>1 DEF Update, TypeOK
  <2>4. QED  BY <2>1, <2>2, <2>3, Zenon DEF ClockAgrees
<1>4. \A w \in {1, 2} : Turns(w)' = Turns(w)
  BY SameTurns DEF Update
<1>5. WheelsInv'
  BY <1>4 DEF Update, WheelsInv, wheel
<1>6. Live' = Live /\ \A w, s : Held(w, s)' = Held(w, s)
  BY DEF Update, Live, Held, wheel
<1>7. PlaceInv'
  <2>1. \A w \in Wheels, s \in Slots : Held(w, s)' \subseteq Live'
    BY <1>6 DEF PlaceInv
  <2>2. QED  BY <1>6, <2>1, Placed
<1>8. ScheduleInv'
  <2>1. \A u : /\ \A s \in Slots : InLowest(u, s)' <=> InLowest(u, s)
               /\ \A w \in {1, 2}, s \in Slots : InUpper(u, w, s)' <=> InUpper(u, w, s)
    BY <1>4, StillOnTime DEF Update, wheel
  <2>2. slots' = slots /\ current' = current /\ tasks' = tasks
    BY DEF Update, wheel
  <2>3. QED  BY <1>6, <2>1, <2>2 DEF ScheduleInv
<1>9. QED  BY <1>2, <1>3, <1>5, <1>7, <1>8

\* The loop ends.
LEMMA UpdateDoneInv ==
  ASSUME TimerInv, UpdateDone
  PROVE  TimerInv'
<1> USE DEF TimerInv
<1>1. TypeOK'
  BY DEF UpdateDone, TypeOK, wheel, clock
<1>2. ClockAgrees'
  BY DEF UpdateDone, ClockAgrees, clock
<1>3. \A w \in {1, 2} : Turns(w)' = Turns(w)
  BY SameTurns DEF UpdateDone, clock
<1>4. WheelsInv'
  BY <1>3 DEF UpdateDone, WheelsInv, wheel, clock
<1>5. Live' = Live /\ \A w, s : Held(w, s)' = Held(w, s)
  BY DEF UpdateDone, Live, Held, wheel
<1>6. PlaceInv'
  <2>1. \A w \in Wheels, s \in Slots : Held(w, s)' \subseteq Live'
    BY <1>5 DEF PlaceInv
  <2>2. QED  BY <1>5, <2>1, Placed
<1>7. ScheduleInv'
  <2>1. \A u : /\ \A s \in Slots : InLowest(u, s)' <=> InLowest(u, s)
               /\ \A w \in {1, 2}, s \in Slots : InUpper(u, w, s)' <=> InUpper(u, w, s)
    BY <1>3, StillOnTime DEF UpdateDone, wheel, clock
  <2>2. slots' = slots /\ current' = current /\ tasks' = tasks
    BY DEF UpdateDone, wheel
  <2>3. QED  BY <1>5, <2>1, <2>2 DEF ScheduleInv
<1>8. QED  BY <1>1, <1>2, <1>4, <1>6, <1>7

\* A frame begins: the lowest wheel turns, and the tasks of its slot are due.
LEMMA TickBeginInv ==
  ASSUME TimerInv, TickBegin
  PROVE  TimerInv'
<1> USE DEF TimerInv
<1> DEFINE n == MaxSlots
           f == cur_frame
           g == cur_slot_index[0]
<1>1. /\ f \in Nat /\ cur_frame' = f + 1 /\ f + 1 <= MaxFrame /\ MaxFrame \in Nat
      /\ n \in Nat \ {0} /\ n > 1 /\ g = f % n
      /\ pc = "update" /\ pc' = "run" /\ current = -1 /\ current' = -1 /\ running = {}
  BY SpanFacts, BoundsAssumption DEF TickBegin, TypeOK, WheelsInv
<1>2. cur_slot_index' = [cur_slot_index EXCEPT ![0] = (g + 1) % n]
      /\ cur_slot_index \in [Wheels -> Slots] /\ g \in Slots
  BY DEF TickBegin, Turned, TypeOK, Wheels
<1>3. /\ cur_slot_index'[0] = (f + 1) % n /\ cur_slot_index'[0] \in Slots
      /\ cur_slot_index' \in [Wheels -> Slots]
      /\ \A w \in {1, 2} : cur_slot_index'[w] = cur_slot_index[w]
  <2>1. f \in Int /\ 1 \in Int /\ n \in Nat \ {0}
    BY <1>1
  <2> HIDE DEF n, f
  <2>2. ((f % n) + 1) % n = (f + 1) % n
    BY <2>1, RemainderAdd, Zenon
  <2>3. f + 1 \in Int
    BY <2>1
  <2>4. (f + 1) % n \in 0 .. n - 1
    BY <2>1, <2>3, Quotient, Zenon
  <2>5. (g + 1) % n = (f + 1) % n
    BY <1>1, <2>2
  <2>6. (g + 1) % n \in Slots
    BY <2>4, <2>5 DEF Slots, n
  <2> HIDE DEF g
  <2>7. QED  BY <1>2, <2>5, <2>6 DEF Wheels
<1>4. TypeOK'
  <2>1. running' \subseteq Ids
    BY <1>3 DEF TickBegin, TypeOK, Wheels
  <2>2. left_ms' \in Nat
    BY IntervalAssumption DEF TickBegin, TypeOK
  <2>3. cur_frame' \in 0 .. MaxFrame
    BY <1>1
  <2>4. QED  BY <1>1, <1>3, <2>1, <2>2, <2>3 DEF TickBegin, TypeOK
<1>5. ClockAgrees'
  <2>1. f * Interval \in Nat /\ (f + 1) * Interval = f * Interval + Interval
    BY <1>1, FrameMs, Zenon
  <2>2. (cur_frame * Interval)' = f * Interval + Interval
    BY <1>1, <2>1
  <2>3. \A p \in Nat : p + left_ms = ms_since_start => p + Interval + left_ms' = ms_since_start'
    BY IntervalAssumption DEF TickBegin, TypeOK
  <2>4. QED  BY <2>1, <2>2, <2>3 DEF ClockAgrees
<1>6. \A w \in {1, 2} : Turns(w)' = Turns(w)
  <2>1. \A w \in {1, 2} : Seen(w)' = Seen(w)
    BY <1>1 DEF Seen
  <2>2. QED  BY <2>1 DEF Turns, Span
<1>7. WheelsInv'
  <2>1. -1 \notin running'
    BY <1>4, BoundsAssumption DEF TypeOK, Ids
  <2>2. QED  BY <1>1, <1>3, <1>6, <2>1 DEF WheelsInv
<1>8. Live' = Live /\ \A w, s : Held(w, s)' = Held(w, s)
  <2>1. slots' = slots /\ running' = slots[0][cur_slot_index'[0]]
    BY DEF TickBegin
  <2>2. \A w, s : Held(w, s)' = slots[w][s]
    BY <1>1, <2>1 DEF Held
  <2>3. \A w, s : Held(w, s) = slots[w][s]
    BY <1>1 DEF Held
  <2>4. QED  BY <2>2, <2>3 DEF TickBegin, Live
<1>9. PlaceInv'
  <2>1. \A w \in Wheels, s \in Slots : Held(w, s)' \subseteq Live'
    BY <1>8 DEF PlaceInv
  <2>2. QED  BY <1>8, <2>1, Placed
<1>10. ASSUME NEW s \in Slots, NEW t \in Held(0, s)' \ {current'}
       PROVE  InLowest(t, s)'
  <2>1. t \in Held(0, s) \ {current}
    BY <1>1, <1>8, <1>10
  <2>2. InLowest(t, s)
    BY <2>1 DEF ScheduleInv
  <2> DEFINE D == DueFrame(t)
  <2>3. D' = D
    BY DEF TickBegin, DueFrame
  <2>4. s = D % n /\ f < D /\ D <= f + n /\ D \in Nat
    <3>1. D \in Nat
      <4>1. t \in DOMAIN tasks
        BY <2>1 DEF PlaceInv, Live, Wheels
      <4>2. QED  BY <1>1, <4>1 DEF DueFrame, TypeOK, Task
    <3>2. QED  BY <1>1, <2>2, <3>1 DEF InLowest
  <2> HIDE DEF D
  <2>5. CASE s = cur_slot_index'[0]
    <3> DEFINE h == f + 1
    <3>1. h \in Int /\ D \in Int /\ n \in Nat \ {0} /\ h <= D /\ D < h + n
      BY <1>1, <2>4
    <3>2. h % n = D % n
      BY <1>3, <2>4, <2>5
    <3>3. h = D
      <4> HIDE DEF h, n
      <4>1. QED  BY <3>1, <3>2, RemainderUnique, Zenon
    <3>4. QED  BY <1>1, <2>3, <2>4, <2>5, <3>3 DEF InLowest, D
  <2>6. CASE s # cur_slot_index'[0]
    <3>1. D # f + 1
      BY <1>3, <2>4, <2>6
    <3>2. f + 1 < D /\ D <= (f + 1) + n
      BY <1>1, <2>4, <3>1
    <3>3. QED  BY <1>1, <2>3, <2>4, <2>6, <3>2 DEF InLowest, D
  <2>7. QED  BY <2>5, <2>6
<1>11. ScheduleInv'
  <2>1. \A u : \A w \in {1, 2}, s \in Slots : InUpper(u, w, s)' <=> InUpper(u, w, s)
    BY <1>6, SameUpper DEF TickBegin
  <2>2. slots' = slots /\ tasks' = tasks
    BY DEF TickBegin
  <2>3. QED  BY <1>10, <2>1, <2>2 DEF ScheduleInv
<1>12. QED  BY <1>4, <1>5, <1>7, <1>9, <1>11

\* A task is held once.
LEMMA HeldOnce ==
  ASSUME PlaceInv, NEW w \in Wheels, NEW s \in Slots, NEW t \in Held(w, s)
  PROVE  t \in Live /\ \A v \in Wheels, r \in Slots : t \in Held(v, r) <=> v = w /\ r = s
<1>1. t \in Live
  BY DEF PlaceInv
<1>2. PICK p \in Wheels \X Slots : Places(t) = {p}
  BY <1>1 DEF PlaceInv
<1>3. ASSUME NEW v \in Wheels, NEW r \in Slots
      PROVE  t \in Held(v, r) <=> <<v, r>> = p
  <2>1. <<v, r>> \in Wheels \X Slots /\ <<v, r>>[1] = v /\ <<v, r>>[2] = r
    OBVIOUS
  <2>2. <<v, r>> \in Places(t) <=> t \in Held(v, r)
    BY <2>1, Zenon DEF Places
  <2>3. QED  BY <1>2, <2>2
<1>4. <<w, s>> = p
  BY <1>3
<1>5. QED  BY <1>1, <1>3, <1>4

\* What is held while a slot is run.
LEMMA HeldByRun ==
  ASSUME TypeOK, WheelsInv
  PROVE  /\ cur_slot_index[0] \in Slots
         /\ pc = "run" => Held(0, cur_slot_index[0]) = running
         /\ pc = "callback" => /\ Held(0, cur_slot_index[0]) = running \cup {current}
                               /\ current \in Ids
         /\ \A w \in Wheels, s \in Slots :
               (w # 0 \/ s # cur_slot_index[0] \/ pc \notin {"run", "callback"})
                  => Held(w, s) = slots[w][s]
<1>1. cur_slot_index[0] \in Slots
  BY DEF TypeOK, Wheels
<1>2. pc = "run" => current = -1
  BY DEF WheelsInv
<1>3. pc = "callback" => current \in Ids /\ current # -1
  BY DEF WheelsInv, TypeOK
<1>4. QED  BY <1>1, <1>2, <1>3 DEF Held

\* A cancelled task is freed when its turn comes.
LEMMA DropCanceledInv ==
  ASSUME TimerInv, NEW t \in Ids, DropCanceled(t)
  PROVE  TimerInv'
<1> USE DEF TimerInv
<1>1. /\ pc = "run" /\ pc' = "run" /\ t \in running /\ running' = running \ {t}
      /\ deleted' = deleted \cup {t} /\ slots' = slots /\ cur_slot_index' = cur_slot_index
      /\ current' = current /\ tasks' = tasks /\ cur_frame' = cur_frame /\ ids' = ids
      /\ left_ms' = left_ms /\ ms_since_start' = ms_since_start /\ next_timer_id' = next_timer_id
  BY DEF DropCanceled, Earliest, clock, wheel
<1>2. /\ t \in Held(0, cur_slot_index[0]) /\ Held(0, cur_slot_index[0]) = running
      /\ cur_slot_index[0] \in Slots /\ 0 \in Wheels
  BY <1>1, HeldByRun DEF Wheels
<1>3. t \in Live /\ \A w \in Wheels, s \in Slots : t \in Held(w, s) <=> w = 0 /\ s = cur_slot_index[0]
  BY <1>2, HeldOnce
<1>4. TypeOK'
  BY <1>1, <1>3 DEF TypeOK, Live
<1>5. ClockAgrees'
  BY <1>1 DEF ClockAgrees
<1>6. \A w \in {1, 2} : Turns(w)' = Turns(w)
  BY <1>1, SameTurns
<1>7. WheelsInv'
  BY <1>1, <1>6 DEF WheelsInv
<1>8. Live' = Live \ {t} /\ \A w \in Wheels, s \in Slots : Held(w, s)' = Held(w, s) \ {t}
  <2>1. current = -1 /\ current' = -1
    BY <1>1 DEF WheelsInv
  <2>2. Live' = Live \ {t}
    BY <1>1 DEF Live
  <2>3. ASSUME NEW w \in Wheels, NEW s \in Slots
        PROVE  Held(w, s)' = Held(w, s) \ {t}
    <3>1. CASE w = 0 /\ s = cur_slot_index[0]
      BY <1>1, <2>1, <3>1 DEF Held
    <3>2. CASE ~(w = 0 /\ s = cur_slot_index[0])
      <4>1. t \notin Held(w, s)
        BY <1>3, <3>2
      <4>2. Held(w, s)' = Held(w, s)
        BY <1>1, <3>2 DEF Held
      <4>3. QED  BY <4>1, <4>2
    <3>3. QED  BY <3>1, <3>2
  <2>4. QED  BY <2>2, <2>3
<1>9. PlaceInv'
  <2>1. \A w \in Wheels, s \in Slots : Held(w, s)' \subseteq Live'
    BY <1>8 DEF PlaceInv
  <2>2. \A u \in Live' : u \in Live /\ \A w \in Wheels, s \in Slots : u \in Held(w, s)' <=> u \in Held(w, s)
    BY <1>8
  <2>3. QED  BY <2>1, <2>2, Placed
<1>10. ScheduleInv'
  <2>1. \A u : /\ \A s \in Slots : InLowest(u, s)' <=> InLowest(u, s)
               /\ \A w \in {1, 2}, s \in Slots : InUpper(u, w, s)' <=> InUpper(u, w, s)
    BY <1>1, <1>6, StillOnTime
  <2>2. \A s \in Slots : Held(0, s)' \subseteq Held(0, s)
    BY <1>2, <1>8
  <2>3. \A s \in Slots : \A u \in Held(0, s)' \ {current'} : InLowest(u, s)'
    BY <1>1, <2>1, <2>2, Zenon DEF ScheduleInv
  <2>4. QED  BY <1>1, <2>1, <2>3 DEF ScheduleInv
<1>11. QED  BY <1>4, <1>5, <1>7, <1>9, <1>10

\* A callback starts.
LEMMA FireInv ==
  ASSUME TimerInv, NEW t \in Ids, Fire(t)
  PROVE  TimerInv'
<1> USE DEF TimerInv
<1>1. /\ pc = "run" /\ pc' = "callback" /\ t \in running /\ running' = running \ {t}
      /\ deleted' = deleted /\ slots' = slots /\ cur_slot_index' = cur_slot_index
      /\ current' = t /\ tasks' = tasks /\ cur_frame' = cur_frame /\ ids' = ids
      /\ left_ms' = left_ms /\ ms_since_start' = ms_since_start /\ next_timer_id' = next_timer_id
  BY DEF Fire, Earliest, clock, wheel
<1>2. current = -1 /\ t # -1
  BY <1>1, BoundsAssumption DEF WheelsInv, Ids
<1>3. TypeOK'
  BY <1>1 DEF TypeOK
<1>4. ClockAgrees'
  BY <1>1 DEF ClockAgrees
<1>5. \A w \in {1, 2} : Turns(w)' = Turns(w)
  BY <1>1, SameTurns
<1>6. WheelsInv'
  BY <1>1, <1>2, <1>5 DEF WheelsInv
<1>7. Live' = Live /\ \A w, s : Held(w, s)' = Held(w, s)
  <2>1. Live' = Live
    BY <1>1 DEF Live
  <2>2. ASSUME NEW w, NEW s
        PROVE  Held(w, s)' = Held(w, s)
    <3>1. CASE w = 0 /\ s = cur_slot_index[0]
      BY <1>1, <1>2, <3>1 DEF Held
    <3>2. CASE ~(w = 0 /\ s = cur_slot_index[0])
      BY <1>1, <3>2 DEF Held
    <3>3. QED  BY <3>1, <3>2
  <2>3. QED  BY <2>1, <2>2
<1>8. PlaceInv'
  <2>1. \A w \in Wheels, s \in Slots : Held(w, s)' \subseteq Live'
    BY <1>7 DEF PlaceInv
  <2>2. QED  BY <1>7, <2>1, Placed
<1>9. ScheduleInv'
  <2>1. \A u : /\ \A s \in Slots : InLowest(u, s)' <=> InLowest(u, s)
               /\ \A w \in {1, 2}, s \in Slots : InUpper(u, w, s)' <=> InUpper(u, w, s)
    BY <1>1, <1>5, StillOnTime
  <2>2. \A s \in Slots : Held(0, s) \subseteq Live /\ -1 \notin Live
    BY BoundsAssumption DEF PlaceInv, Wheels, Live, TypeOK
  <2>3. \A s \in Slots : \A u \in Held(0, s)' \ {current'} : InLowest(u, s)'
    BY <1>2, <1>7, <2>1, <2>2, Zenon DEF ScheduleInv
  <2>4. QED  BY <1>1, <2>1, <2>3 DEF ScheduleInv
<1>10. QED  BY <1>3, <1>4, <1>6, <1>8, <1>9

\* The slot has been run.
LEMMA RunDoneInv ==
  ASSUME TimerInv, RunDone
  PROVE  TimerInv'
<1> USE DEF TimerInv
<1> DEFINE g == cur_slot_index[0]
<1>1. /\ pc = "run" /\ pc' = (IF g = 0 THEN "cascade1" ELSE "update") /\ running = {} /\ running' = running
      /\ deleted' = deleted /\ slots' = [slots EXCEPT ![0][g] = {}] /\ cur_slot_index' = cur_slot_index
      /\ current' = current /\ tasks' = tasks /\ cur_frame' = cur_frame /\ ids' = ids
      /\ left_ms' = left_ms /\ ms_since_start' = ms_since_start /\ next_timer_id' = next_timer_id
  BY DEF RunDone, clock
<1>2. current = -1 /\ g \in Slots /\ 0 \in Wheels
  BY <1>1 DEF WheelsInv, TypeOK, Wheels
<1>3. /\ slots' \in [Wheels -> [Slots -> SUBSET Ids]]
      /\ \A w \in Wheels, s \in Slots :
            slots'[w][s] = IF w = 0 /\ s = g THEN {} ELSE slots[w][s]
  BY <1>1, <1>2 DEF TypeOK
<1>4. TypeOK'
  BY <1>1, <1>3 DEF TypeOK
<1>5. ClockAgrees'
  BY <1>1 DEF ClockAgrees
<1>6. /\ \A w \in {1, 2} : Turns(w)' = Turns(w)
      /\ pc' = "cascade1" => cur_frame % MaxSlots = 0
      /\ pc' \in {"cascade1", "update"} /\ pc' # "update" => cur_frame > 0
  <2>1. cur_frame \in Nat /\ cur_frame > 0 /\ g = cur_frame % MaxSlots
    BY <1>1, BoundsAssumption DEF WheelsInv, TypeOK
  <2>2. CASE g = 0
    BY <1>1, <2>1, <2>2, SameTurns
  <2>3. CASE g # 0
    <3>1. cur_frame \in Int /\ MaxSlots \in Nat \ {0} /\ Span(1) \in Nat \ {0} /\ Span(2) \in Nat \ {0}
      BY <2>1, SpanFacts
    <3>2. cur_frame % Span(1) # 0
      BY <2>1, <2>3, SpanFacts
    <3>3. cur_frame % Span(2) # 0
      BY <2>1, <2>3, <3>1, SpanFacts, MultipleOfSquare
    <3>4. \A w \in {1, 2} : Seen(w) = cur_frame - 1 /\ Seen(w)' = cur_frame
      BY <1>1, <2>3 DEF Seen
    <3>5. \A w \in {1, 2} : Turns(w) = (cur_frame - 1) \div Span(w) /\ Turns(w)' = cur_frame \div Span(w)
      BY <3>4 DEF Turns, Span
    <3>6. \A w \in {1, 2} : (cur_frame - 1) \div Span(w) = cur_frame \div Span(w)
      BY <3>1, <3>2, <3>3, QuotientBefore
    <3>7. QED  BY <1>1, <2>1, <2>3, <3>5, <3>6
  <2>4. QED  BY <2>2, <2>3
<1>7. WheelsInv'
  BY <1>1, <1>2, <1>6 DEF WheelsInv
<1>8. Live' = Live /\ \A w \in Wheels, s \in Slots : Held(w, s)' = Held(w, s)
  <2>1. Live' = Live
    BY <1>1 DEF Live
  <2>2. ASSUME NEW w \in Wheels, NEW s \in Slots
        PROVE  Held(w, s)' = Held(w, s)
    <3>1. CASE w = 0 /\ s = g
      BY <1>1, <1>2, <1>3, <3>1 DEF Held
    <3>2. CASE ~(w = 0 /\ s = g)
      BY <1>1, <1>3, <3>2 DEF Held
    <3>3. QED  BY <3>1, <3>2
  <2>3. QED  BY <2>1, <2>2
<1>9. PlaceInv'
  <2>1. \A w \in Wheels, s \in Slots : Held(w, s)' \subseteq Live'
    BY <1>8 DEF PlaceInv
  <2>2. QED  BY <1>8, <2>1, Placed
<1>10. ScheduleInv'
  <2>1. ASSUME NEW s \in Slots, NEW t \in Held(0, s)' \ {current'}
        PROVE  InLowest(t, s)'
    <3>1. t \in Held(0, s) \ {current} /\ InLowest(t, s)
      BY <1>1, <1>2, <1>8, <2>1 DEF ScheduleInv
    <3>2. s # g
      BY <1>1, <3>1, HeldByRun
    <3>3. DueFrame(t)' = DueFrame(t)
      BY <1>1 DEF DueFrame
    <3>4. QED  BY <1>1, <3>1, <3>2, <3>3 DEF InLowest
  <2>2. \A u : \A w \in {1, 2}, s \in Slots : InUpper(u, w, s)' <=> InUpper(u, w, s)
    BY <1>1, <1>6, SameUpper
  <2>3. \A w \in {1, 2}, s \in Slots : slots'[w][s] = slots[w][s]
    BY <1>3 DEF Wheels
  <2>4. QED  BY <1>1, <2>1, <2>2, <2>3 DEF ScheduleInv
<1>11. QED  BY <1>4, <1>5, <1>7, <1>9, <1>10

\* A handler or a callback adds a timer.
LEMMA AddTimerInv ==
  ASSUME TimerInv, AddTimer
  PROVE  TimerInv'
<1> USE DEF TimerInv
<1>1. PICK t : t = next_timer_id
  OBVIOUS
<1>2. PICK ms \in Delays, repeat \in BOOLEAN :
        /\ Frames(ms) < Reach
        /\ slots' = Pushed(slots, cur_slot_index, t, Frames(ms))
        /\ tasks' = [k \in DOMAIN tasks \cup {t} |->
                       IF k = t
                       THEN [interval |-> ms,
                             timeout_ms |-> cur_frame * Interval + ms,
                             timeout_frame |-> cur_frame + Frames(ms),
                             is_repeat |-> repeat, is_canceled |-> FALSE]
                       ELSE tasks[k]]
        /\ ids' = ids \cup {t}
  BY <1>1 DEF AddTimer
<1>4. /\ CallerRuns /\ next_timer_id < MaxTimers /\ next_timer_id' = next_timer_id + 1
      /\ cur_frame' = cur_frame /\ left_ms' = left_ms /\ ms_since_start' = ms_since_start
      /\ cur_slot_index' = cur_slot_index /\ deleted' = deleted /\ pc' = pc
      /\ running' = running /\ current' = current
  BY DEF AddTimer, clock
<1> DEFINE d == Frames(ms)
<1>3. PICK v, r : v = WheelFor(d) /\ r = SlotFor(d, cur_slot_index)
  OBVIOUS
<1>5. /\ ms \in Nat /\ d \in Nat \ {0} /\ d < Reach /\ cur_frame \in Nat
      /\ t \in Ids /\ t \notin DOMAIN tasks /\ t + 1 \in 0 .. MaxTimers /\ MaxTimers > 0
  <2>1. ms \in Nat
    BY DelaysAssumption
  <2>2. d \in Nat \ {0}
    BY <2>1, FramesType
  <2>3. QED  BY <1>1, <1>2, <1>4, <2>1, <2>2, BoundsAssumption DEF TypeOK, Ids
<1>6. /\ DOMAIN tasks' = DOMAIN tasks \cup {t} /\ DOMAIN tasks \cup {t} = 0 .. next_timer_id' - 1
      /\ tasks'[t] = [interval |-> ms, timeout_ms |-> cur_frame * Interval + ms,
                      timeout_frame |-> cur_frame + d, is_repeat |-> repeat, is_canceled |-> FALSE]
      /\ tasks'[t].interval = ms /\ tasks'[t].timeout_frame = cur_frame + d
      /\ \A u \in DOMAIN tasks : tasks'[u] = tasks[u]
  <2>1. DOMAIN tasks \cup {t} = 0 .. next_timer_id' - 1
    BY <1>1, <1>4 DEF TypeOK
  <2>2. QED  BY <1>2, <1>5, <2>1
<1>7. /\ v \in Wheels /\ r \in Slots /\ (v = 0 => r # cur_slot_index[0])
      /\ slots' \in [Wheels -> [Slots -> SUBSET Ids]]
      /\ \A w \in Wheels, s \in Slots :
            slots'[w][s] = IF w = v /\ s = r THEN slots[w][s] \cup {t} ELSE slots[w][s]
  <2> DEFINE new == Pushed(slots, cur_slot_index, t, d)
  <2>1. slots' = new
    BY <1>2
  <2> HIDE DEF d
  <2>2. /\ WheelFor(d) \in Wheels /\ SlotFor(d, cur_slot_index) \in Slots
        /\ WheelFor(d) = 0 => SlotFor(d, cur_slot_index) # cur_slot_index[0]
        /\ new \in [Wheels -> [Slots -> SUBSET Ids]]
        /\ \A w \in Wheels, s \in Slots :
              new[w][s] = IF w = WheelFor(d) /\ s = SlotFor(d, cur_slot_index)
                          THEN slots[w][s] \cup {t} ELSE slots[w][s]
    <3>1. d \in Nat \ {0} /\ t \in Ids
      BY <1>5
    <3>2. QED  BY <3>1, PushedSlots, Zenon
  <2> HIDE DEF new
  <2>3. QED  BY <1>3, <2>1, <2>2
<1>8. /\ v = 0 => InLowest(t, r)'
      /\ v # 0 => v \in {1, 2} /\ InUpper(t, v, r)'
  BY <1>4, <1>5, <1>6, <1>3, NewOnTime
<1> HIDE DEF d
<1>9. TypeOK'
  <2>1. cur_frame * Interval \in Nat
    BY <1>5, FrameMs, Zenon
  <2>2. tasks'[t] \in Task
    BY <1>5, <1>6, <2>1 DEF Task
  <2>3. \A u \in DOMAIN tasks' : tasks'[u] \in Task
    BY <1>6, <2>2 DEF TypeOK
  <2>4. next_timer_id' \in 0 .. MaxTimers
    BY <1>1, <1>4, <1>5
  <2>5. QED  BY <1>2, <1>4, <1>6, <1>7, <2>3, <2>4 DEF TypeOK
<1>10. ClockAgrees'
  BY <1>4 DEF ClockAgrees
<1>11. \A w \in {1, 2} : Turns(w)' = Turns(w)
  BY <1>4, SameTurns
<1>12. WheelsInv'
  BY <1>4, <1>11 DEF WheelsInv
<1>13. /\ Live' = Live \cup {t} /\ t \notin Live
       /\ \A w \in Wheels, s \in Slots :
             Held(w, s)' = IF w = v /\ s = r THEN Held(w, s) \cup {t} ELSE Held(w, s)
  <2>1. Live' = Live \cup {t} /\ t \notin Live
    BY <1>4, <1>5, <1>6 DEF Live, TypeOK
  <2>2. ASSUME NEW w \in Wheels, NEW s \in Slots
        PROVE  Held(w, s)' = IF w = v /\ s = r THEN Held(w, s) \cup {t} ELSE Held(w, s)
    <3>1. CASE pc \in {"run", "callback"} /\ w = 0 /\ s = cur_slot_index[0]
      BY <1>4, <1>7, <3>1 DEF Held
    <3>2. CASE ~(pc \in {"run", "callback"} /\ w = 0 /\ s = cur_slot_index[0])
      BY <1>4, <1>7, <3>2 DEF Held
    <3>3. QED  BY <3>1, <3>2
  <2>3. QED  BY <2>1, <2>2
<1>14. PlaceInv'
  <2>1. \A w \in Wheels, s \in Slots : Held(w, s)' \subseteq Live'
    BY <1>13 DEF PlaceInv
  <2>2. ASSUME NEW u \in Live'
        PROVE  \/ u \in Live /\ \A w \in Wheels, s \in Slots : u \in Held(w, s)' <=> u \in Held(w, s)
               \/ \E a \in Wheels, b \in Slots : \A w \in Wheels, s \in Slots :
                     u \in Held(w, s)' <=> w = a /\ s = b
    <3>1. CASE u = t
      <4>1. \A w \in Wheels, s \in Slots : t \notin Held(w, s)
        BY <1>13 DEF PlaceInv
      <4>2. \A w \in Wheels, s \in Slots : u \in Held(w, s)' <=> w = v /\ s = r
        BY <1>13, <3>1, <4>1
      <4>3. v \in Wheels /\ r \in Slots
        BY <1>7
      <4>4. QED  BY <4>2, <4>3, Zenon
    <3>2. CASE u # t
      BY <1>13, <3>2
    <3>3. QED  BY <3>1, <3>2
  <2>3. QED  BY <2>1, <2>2, Placed
<1>15. ScheduleInv'
  <2>1. ASSUME NEW u \in DOMAIN tasks
        PROVE  /\ \A s \in Slots : InLowest(u, s)' <=> InLowest(u, s)
               /\ \A w \in {1, 2}, s \in Slots : InUpper(u, w, s)' <=> InUpper(u, w, s)
    BY <1>4, <1>6, <1>11, StillOnTime
  <2>2. \A u \in DOMAIN tasks' : Frames(tasks'[u].interval) < Reach
    BY <1>5, <1>6 DEF ScheduleInv, d
  <2>3. \A u \in Live : u \in DOMAIN tasks /\ u # t
    BY <1>5 DEF Live
  <2>4. ASSUME NEW s \in Slots, NEW u \in Held(0, s)' \ {current'}
        PROVE  InLowest(u, s)'
    <3>1. CASE u = t
      <4>1. v = 0 /\ s = r
        BY <1>13, <2>4, <3>1 DEF PlaceInv, Wheels
      <4>2. QED  BY <1>8, <3>1, <4>1
    <3>2. CASE u # t
      <4>1. u \in Held(0, s) \ {current}
        BY <1>4, <1>13, <2>4, <3>2 DEF Wheels
      <4>2. u \in DOMAIN tasks
        BY <2>3, <4>1 DEF PlaceInv, Wheels
      <4>3. QED  BY <2>1, <4>1, <4>2 DEF ScheduleInv
    <3>3. QED  BY <3>1, <3>2
  <2>5. ASSUME NEW w \in {1, 2}, NEW s \in Slots, NEW u \in slots'[w][s]
        PROVE  InUpper(u, w, s)'
    <3>1. slots'[w][s] = Held(w, s)' /\ slots[w][s] = Held(w, s) /\ w \in Wheels
      BY <2>5 DEF Held, Wheels
    <3>2. CASE u = t
      <4>1. v = w /\ s = r
        BY <1>13, <2>5, <3>1, <3>2 DEF PlaceInv
      <4>2. QED  BY <1>8, <3>2, <4>1
    <3>3. CASE u # t
      <4>1. u \in slots[w][s] /\ u \in DOMAIN tasks
        BY <1>13, <2>3, <2>5, <3>1, <3>3 DEF PlaceInv
      <4>2. QED  BY <2>1, <4>1 DEF ScheduleInv
    <3>4. QED  BY <3>2, <3>3
  <2>6. QED  BY <2>2, <2>4, <2>5 DEF ScheduleInv
<1>16. QED  BY <1>9, <1>10, <1>12, <1>14, <1>15

\* The callback of a one-shot timer returns.
LEMMA LastCallbackInv ==
  ASSUME TimerInv, CallbackReturns, ~tasks[current].is_repeat
  PROVE  TimerInv'
<1> USE DEF TimerInv
<1>1. PICK t : t = current
  OBVIOUS
<1>2. /\ pc = "callback" /\ pc' = "run" /\ deleted' = deleted \cup {t}
      /\ tasks' = tasks /\ slots' = slots /\ current' = -1 /\ running' = running
      /\ cur_slot_index' = cur_slot_index /\ cur_frame' = cur_frame /\ ids' = ids
      /\ left_ms' = left_ms /\ ms_since_start' = ms_since_start /\ next_timer_id' = next_timer_id
  BY <1>1 DEF CallbackReturns, clock
<1>3. /\ t \in Ids /\ t # -1 /\ t \notin running /\ 0 \in Wheels
      /\ cur_slot_index[0] \in Slots /\ t \in Held(0, cur_slot_index[0])
      /\ Held(0, cur_slot_index[0]) = running \cup {t}
  BY <1>1, <1>2, HeldByRun DEF WheelsInv, Wheels
<1>4. t \in Live /\ \A w \in Wheels, s \in Slots : t \in Held(w, s) <=> w = 0 /\ s = cur_slot_index[0]
  BY <1>3, HeldOnce
<1>5. TypeOK'
  BY <1>2, <1>4 DEF TypeOK, Live
<1>6. ClockAgrees'
  BY <1>2 DEF ClockAgrees
<1>7. \A w \in {1, 2} : Turns(w)' = Turns(w)
  BY <1>2, SameTurns
<1>8. WheelsInv'
  <2>1. -1 \notin running'
    BY <1>5, BoundsAssumption DEF TypeOK, Ids
  <2>2. QED  BY <1>2, <1>7, <2>1 DEF WheelsInv
<1>9. Live' = Live \ {t} /\ \A w \in Wheels, s \in Slots : Held(w, s)' = Held(w, s) \ {t}
  <2>1. Live' = Live \ {t}
    BY <1>2 DEF Live
  <2>2. ASSUME NEW w \in Wheels, NEW s \in Slots
        PROVE  Held(w, s)' = Held(w, s) \ {t}
    <3>1. CASE w = 0 /\ s = cur_slot_index[0]
      <4>1. Held(w, s)' = running
        BY <1>2, <3>1 DEF Held
      <4>2. QED  BY <1>3, <3>1, <4>1
    <3>2. CASE ~(w = 0 /\ s = cur_slot_index[0])
      <4>1. t \notin Held(w, s)
        BY <1>4, <3>2
      <4>2. Held(w, s)' = Held(w, s)
        BY <1>2, <3>2 DEF Held
      <4>3. QED  BY <4>1, <4>2
    <3>3. QED  BY <3>1, <3>2
  <2>3. QED  BY <2>1, <2>2
<1>10. PlaceInv'
  <2>1. \A w \in Wheels, s \in Slots : Held(w, s)' \subseteq Live'
    BY <1>9 DEF PlaceInv
  <2>2. \A u \in Live' : u \in Live /\ \A w \in Wheels, s \in Slots : u \in Held(w, s)' <=> u \in Held(w, s)
    BY <1>9
  <2>3. QED  BY <2>1, <2>2, Placed
<1>11. ScheduleInv'
  <2>1. \A u : /\ \A s \in Slots : InLowest(u, s)' <=> InLowest(u, s)
               /\ \A w \in {1, 2}, s \in Slots : InUpper(u, w, s)' <=> InUpper(u, w, s)
    BY <1>2, <1>7, StillOnTime
  <2>2. \A s \in Slots : Held(0, s)' = Held(0, s) \ {t}
    BY <1>3, <1>9
  <2>3. \A s \in Slots : \A u \in Held(0, s)' \ {current'} : InLowest(u, s)'
    BY <1>1, <2>1, <2>2, Zenon DEF ScheduleInv
  <2>4. QED  BY <1>2, <2>1, <2>3 DEF ScheduleInv
<1>12. QED  BY <1>5, <1>6, <1>8, <1>10, <1>11

\* The callback of a repeating timer returns: the timer is pushed again.
LEMMA RepeatCallbackInv ==
  ASSUME TimerInv, CallbackReturns, tasks[current].is_repeat
  PROVE  TimerInv'
<1> USE DEF TimerInv
<1>1. PICK t, ms : t = current /\ ms = tasks[current].interval
  OBVIOUS
<1> DEFINE d == Frames(ms)
<1>2. PICK v, r : v = WheelFor(d) /\ r = SlotFor(d, cur_slot_index)
  OBVIOUS
<1>3. /\ pc = "callback" /\ pc' = "run" /\ deleted' = deleted
      /\ tasks' = [tasks EXCEPT ![t].timeout_frame = cur_frame + d,
                                ![t].timeout_ms = cur_frame * Interval + ms]
      /\ slots' = Pushed(slots, cur_slot_index, t, d)
      /\ current' = -1 /\ running' = running
      /\ cur_slot_index' = cur_slot_index /\ cur_frame' = cur_frame /\ ids' = ids
      /\ left_ms' = left_ms /\ ms_since_start' = ms_since_start /\ next_timer_id' = next_timer_id
  BY <1>1 DEF CallbackReturns, clock
<1>4. /\ t \in Ids /\ t # -1 /\ t \notin running /\ 0 \in Wheels
      /\ cur_slot_index[0] \in Slots /\ t \in Held(0, cur_slot_index[0])
      /\ Held(0, cur_slot_index[0]) = running \cup {t}
  BY <1>1, <1>3, HeldByRun DEF WheelsInv, Wheels
<1>5. t \in Live /\ \A w \in Wheels, s \in Slots : t \in Held(w, s) <=> w = 0 /\ s = cur_slot_index[0]
  BY <1>4, HeldOnce
<1>6. t \in DOMAIN tasks /\ tasks[t] \in Task
  BY <1>5 DEF Live, TypeOK
<1>7. ms \in Nat /\ d \in Nat \ {0} /\ d < Reach /\ cur_frame \in Nat /\ MaxTimers > 0
  <2>1. ms \in Nat /\ ms \in Delays
    BY <1>1, <1>6, DelaysAssumption DEF Task
  <2>2. d \in Nat \ {0}
    BY <2>1, FramesType
  <2>3. d < Reach
    BY <1>1, <1>6 DEF ScheduleInv
  <2>4. QED  BY <1>4, <2>1, <2>2, <2>3, BoundsAssumption DEF TypeOK, Ids
<1>8. /\ DOMAIN tasks' = DOMAIN tasks
      /\ tasks'[t].interval = ms /\ tasks'[t].timeout_frame = cur_frame + d
      /\ \A u \in DOMAIN tasks : tasks'[u].interval = tasks[u].interval
      /\ \A u \in DOMAIN tasks \ {t} : tasks'[u] = tasks[u]
      /\ tasks'[t] \in Task
  <2>1. cur_frame * Interval \in Nat
    BY <1>7, FrameMs, Zenon
  <2> DEFINE at == cur_frame * Interval
             old == tasks[t]
  <2> HIDE DEF d, at
  <2>2. at + ms \in Nat /\ cur_frame + d \in Nat
    BY <1>7, <2>1 DEF at
  <2>3. DOMAIN tasks' = DOMAIN tasks /\ \A u \in DOMAIN tasks \ {t} : tasks'[u] = tasks[u]
    BY <1>3
  <2>4. tasks'[t] = [old EXCEPT !.timeout_frame = cur_frame + d, !.timeout_ms = at + ms]
    BY <1>3, <1>6 DEF at
  <2>5. old \in Task /\ old.interval = ms
    BY <1>1, <1>6
  <2> HIDE DEF old
  <2>6. tasks'[t] \in Task /\ tasks'[t].interval = ms /\ tasks'[t].timeout_frame = cur_frame + d
    BY <2>2, <2>4, <2>5 DEF Task
  <2>7. \A u \in DOMAIN tasks : tasks'[u].interval = tasks[u].interval
    BY <2>3, <2>5, <2>6 DEF old
  <2>8. QED  BY <2>3, <2>6, <2>7 DEF d
<1>9. /\ v \in Wheels /\ r \in Slots /\ (v = 0 => r # cur_slot_index[0])
      /\ slots' \in [Wheels -> [Slots -> SUBSET Ids]]
      /\ \A w \in Wheels, s \in Slots :
            slots'[w][s] = IF w = v /\ s = r THEN slots[w][s] \cup {t} ELSE slots[w][s]
  <2> DEFINE new == Pushed(slots, cur_slot_index, t, d)
  <2>1. slots' = new
    BY <1>3
  <2> HIDE DEF d
  <2>2. /\ WheelFor(d) \in Wheels /\ SlotFor(d, cur_slot_index) \in Slots
        /\ WheelFor(d) = 0 => SlotFor(d, cur_slot_index) # cur_slot_index[0]
        /\ new \in [Wheels -> [Slots -> SUBSET Ids]]
        /\ \A w \in Wheels, s \in Slots :
              new[w][s] = IF w = WheelFor(d) /\ s = SlotFor(d, cur_slot_index)
                          THEN slots[w][s] \cup {t} ELSE slots[w][s]
    <3>1. d \in Nat \ {0} /\ t \in Ids
      BY <1>4, <1>7
    <3>2. QED  BY <3>1, PushedSlots, Zenon
  <2> HIDE DEF new
  <2>3. QED  BY <1>2, <2>1, <2>2
<1>10. /\ v = 0 => InLowest(t, r)'
       /\ v # 0 => v \in {1, 2} /\ InUpper(t, v, r)'
  <2>1. CallerRuns
    BY <1>3 DEF CallerRuns
  <2>2. QED  BY <1>2, <1>3, <1>7, <1>8, <2>1, NewOnTime
<1> HIDE DEF d
<1>11. TypeOK'
  <2>1. \A u \in DOMAIN tasks' : tasks'[u] \in Task
    BY <1>8 DEF TypeOK
  <2>2. QED  BY <1>3, <1>8, <1>9, <2>1 DEF TypeOK
<1>12. ClockAgrees'
  BY <1>3 DEF ClockAgrees
<1>13. \A w \in {1, 2} : Turns(w)' = Turns(w)
  BY <1>3, SameTurns
<1>14. WheelsInv'
  <2>1. -1 \notin running'
    BY <1>11, BoundsAssumption DEF TypeOK, Ids
  <2>2. QED  BY <1>3, <1>13, <2>1 DEF WheelsInv
<1>15. /\ Live' = Live
       /\ \A w \in Wheels, s \in Slots :
             Held(w, s)' = IF w = v /\ s = r THEN Held(w, s) \cup {t} ELSE Held(w, s) \ {t}
  <2>1. Live' = Live
    BY <1>3, <1>8 DEF Live
  <2>2. ASSUME NEW w \in Wheels, NEW s \in Slots
        PROVE  Held(w, s)' = IF w = v /\ s = r THEN Held(w, s) \cup {t} ELSE Held(w, s) \ {t}
    <3>1. CASE w = 0 /\ s = cur_slot_index[0]
      <4>1. Held(w, s)' = running
        BY <1>3, <3>1 DEF Held
      <4>2. ~(w = v /\ s = r)
        BY <1>9, <3>1
      <4>3. QED  BY <1>4, <3>1, <4>1, <4>2
    <3>2. CASE ~(w = 0 /\ s = cur_slot_index[0])
      <4>1. t \notin Held(w, s)
        BY <1>5, <3>2
      <4>2. Held(w, s)' = slots'[w][s] /\ Held(w, s) = slots[w][s]
        BY <1>3, <3>2 DEF Held
      <4>3. QED  BY <1>9, <4>1, <4>2
    <3>3. QED  BY <3>1, <3>2
  <2>3. QED  BY <2>1, <2>2
<1>16. PlaceInv'
  <2>1. \A w \in Wheels, s \in Slots : Held(w, s)' \subseteq Live'
    BY <1>5, <1>15 DEF PlaceInv
  <2>2. ASSUME NEW u \in Live'
        PROVE  \/ u \in Live /\ \A w \in Wheels, s \in Slots : u \in Held(w, s)' <=> u \in Held(w, s)
               \/ \E a \in Wheels, b \in Slots : \A w \in Wheels, s \in Slots :
                     u \in Held(w, s)' <=> w = a /\ s = b
    <3>1. CASE u = t
      <4>1. \A w \in Wheels, s \in Slots : u \in Held(w, s)' <=> w = v /\ s = r
        BY <1>15, <3>1
      <4>2. v \in Wheels /\ r \in Slots
        BY <1>9
      <4>3. QED  BY <4>1, <4>2, Zenon
    <3>2. CASE u # t
      BY <1>15, <3>2
    <3>3. QED  BY <3>1, <3>2
  <2>3. QED  BY <2>1, <2>2, Placed
<1>17. ScheduleInv'
  <2>1. ASSUME NEW u \in DOMAIN tasks \ {t}
        PROVE  /\ \A s \in Slots : InLowest(u, s)' <=> InLowest(u, s)
               /\ \A w \in {1, 2}, s \in Slots : InUpper(u, w, s)' <=> InUpper(u, w, s)
    <3>1. tasks'[u].interval = tasks[u].interval /\ tasks'[u].timeout_frame = tasks[u].timeout_frame
      BY <1>8, <2>1
    <3>2. QED  BY <1>3, <1>13, <3>1, StillOnTime
  <2>2. \A u \in DOMAIN tasks' : Frames(tasks'[u].interval) < Reach
    BY <1>8 DEF ScheduleInv
  <2>3. \A u \in Live : u \in DOMAIN tasks
    BY DEF Live
  <2>4. ASSUME NEW s \in Slots, NEW u \in Held(0, s)' \ {current'}
        PROVE  InLowest(u, s)'
    <3>1. CASE u = t
      <4>1. v = 0 /\ s = r
        BY <1>15, <2>4, <3>1 DEF Wheels
      <4>2. QED  BY <1>10, <3>1, <4>1
    <3>2. CASE u # t
      <4>1. u \in Held(0, s) \ {current}
        BY <1>1, <1>15, <2>4, <3>2 DEF Wheels
      <4>2. u \in DOMAIN tasks
        BY <2>3, <4>1 DEF PlaceInv, Wheels
      <4>3. QED  BY <2>1, <3>2, <4>1, <4>2 DEF ScheduleInv
    <3>3. QED  BY <3>1, <3>2
  <2>5. ASSUME NEW w \in {1, 2}, NEW s \in Slots, NEW u \in slots'[w][s]
        PROVE  InUpper(u, w, s)'
    <3>1. slots'[w][s] = Held(w, s)' /\ slots[w][s] = Held(w, s) /\ w \in Wheels
      BY <2>5 DEF Held, Wheels
    <3>2. CASE u = t
      <4>1. v = w /\ s = r
        BY <1>15, <2>5, <3>1, <3>2
      <4>2. QED  BY <1>10, <3>2, <4>1
    <3>3. CASE u # t
      <4>1. u \in slots[w][s] /\ u \in DOMAIN tasks
        BY <1>15, <2>3, <2>5, <3>1, <3>3 DEF PlaceInv
      <4>2. QED  BY <2>1, <3>3, <4>1 DEF ScheduleInv
    <3>4. QED  BY <3>2, <3>3
  <2>6. QED  BY <2>2, <2>4, <2>5 DEF ScheduleInv
<1>18. QED  BY <1>11, <1>12, <1>14, <1>16, <1>17

-----------------------------------------------------------------------------
(* The cascades *)

\* An upper wheel turns when the lower ones have come around.
LEMMA CascadeTurns ==
  ASSUME TypeOK, WheelsInv, NEW w \in {1, 2}, Cascade(w)
  PROVE  /\ cur_frame \in Nat /\ cur_frame > 0 /\ cur_frame % MaxSlots = 0 /\ Turns(w) \in Nat
         /\ cur_frame = (Turns(w) + 1) * Span(w)
         /\ Turns(w)' = Turns(w) + 1
         /\ \A v \in {1, 2} \ {w} : Turns(v)' = Turns(v)
         /\ cur_slot_index' \in [Wheels -> Slots]
         /\ cur_slot_index'[w] = (Turns(w) + 1) % MaxSlots
         /\ \A v \in Wheels \ {w} : cur_slot_index'[v] = cur_slot_index[v]
         /\ pc' \in {"cascade2", "update"}
         /\ pc' = "cascade2" => cur_frame % (MaxSlots * MaxSlots) = 0
<1> DEFINE n == MaxSlots
           s == Span(w)
           f == cur_frame
           c == Turns(w)
<1>1. /\ f \in Nat /\ f > 0 /\ f \in Int /\ n \in Nat \ {0} /\ s \in Nat \ {0}
      /\ pc = (IF w = 1 THEN "cascade1" ELSE "cascade2")
      /\ Span(1) = n /\ Span(2) = n * n /\ Span(2) \in Nat \ {0}
      /\ pc' = (IF w = 1 /\ cur_slot_index'[w] = 0 THEN "cascade2" ELSE "update")
      /\ cur_frame' = f /\ cur_slot_index' = Turned(cur_slot_index, w)
  BY SpanFacts, BoundsAssumption DEF TypeOK, WheelsInv, Cascade, clock
<1>2. f % s = 0 /\ f % n = 0
  <2>1. CASE w = 1
    BY <1>1, <2>1 DEF WheelsInv
  <2>2. CASE w = 2
    <3>1. f % (n * n) = 0
      BY <1>1, <2>2 DEF WheelsInv
    <3>2. f % n = 0
      BY <1>1, <3>1, MultipleOfSquare
    <3>3. QED  BY <1>1, <2>2, <3>1, <3>2
  <2>3. QED  BY <2>1, <2>2
<1>3. /\ c = (f - 1) \div s /\ c \in Nat /\ f \div s = c + 1 /\ f = (c + 1) * s
  <2>1. c = (f - 1) \div s
    BY <1>1 DEF Turns, Seen
  <2>2. c \in Nat
    BY TurnsFacts
  <2>3. f = (f \div s) * s /\ (f - 1) \div s = f \div s - 1 /\ f \div s \in Int
    <3> HIDE DEF s, f
    <3>1. QED  BY <1>1, <1>2, QuotientBefore, Quotient
  <2> HIDE DEF c, f, s
  <2>4. f \div s = c + 1
    BY <2>1, <2>2, <2>3
  <2>5. QED  BY <2>1, <2>2, <2>3, <2>4
<1>4. /\ cur_slot_index' \in [Wheels -> Slots] /\ cur_slot_index'[w] = (c + 1) % n
      /\ \A v \in Wheels \ {w} : cur_slot_index'[v] = cur_slot_index[v]
  <2>1. /\ cur_slot_index' = [cur_slot_index EXCEPT ![w] = (cur_slot_index[w] + 1) % n]
        /\ cur_slot_index \in [Wheels -> Slots] /\ w \in Wheels /\ cur_slot_index[w] = c % n
    BY <1>1 DEF Turned, TypeOK, WheelsInv, Wheels
  <2> HIDE DEF c, n
  <2>2. (cur_slot_index[w] + 1) % n = (c + 1) % n
    <3>1. c \in Int /\ 1 \in Int /\ n \in Nat \ {0}
      BY <1>1, <1>3
    <3>2. ((c % n) + 1) % n = (c + 1) % n
      BY <3>1, RemainderAdd, Zenon
    <3>3. QED  BY <2>1, <3>2
  <2>3. (c + 1) % n \in Slots
    <3>1. c + 1 \in Int
      BY <1>3
    <3>2. (c + 1) % n \in 0 .. n - 1
      BY <1>1, <3>1, Quotient, Zenon
    <3>3. QED  BY <3>2 DEF Slots, n
  <2>4. QED  BY <2>1, <2>2, <2>3
<1>5. Turns(w)' = c + 1
  <2>1. Seen(w)' = f
    BY <1>1 DEF Seen
  <2>2. Turns(w)' = f \div s
    BY <2>1 DEF Turns, Span
  <2>3. QED  BY <1>3, <2>2
<1>6. w = 1 => (pc' = "cascade2" <=> f % (n * n) = 0)
  <2> SUFFICES ASSUME w = 1
               PROVE  pc' = "cascade2" <=> f % (n * n) = 0
    OBVIOUS
  <2>1. pc' = "cascade2" <=> (c + 1) % n = 0
    BY <1>1, <1>4
  <2>2. f \div n = c + 1
    BY <1>1, <1>3
  <2>3. f % (n * n) = 0 <=> f % n = 0 /\ (f \div n) % n = 0
    BY <1>1, MultipleOfSquare
  <2>4. QED  BY <1>2, <2>1, <2>2, <2>3
<1>7. \A v \in {1, 2} \ {w} : Turns(v)' = Turns(v)
  <2>1. CASE w = 1
    <3>1. CASE pc' = "cascade2"
      <4>1. Seen(2)' = Seen(2)
        BY <1>1, <2>1, <3>1 DEF Seen
      <4>2. QED  BY <2>1, <4>1 DEF Turns, Span
    <3>2. CASE pc' # "cascade2"
      <4>1. Seen(2) = f - 1 /\ Seen(2)' = f
        BY <1>1, <2>1, <3>2 DEF Seen
      <4>2. Turns(2) = (f - 1) \div Span(2) /\ Turns(2)' = f \div Span(2)
        BY <4>1 DEF Turns, Span
      <4>3. f % Span(2) # 0
        BY <1>1, <1>6, <2>1, <3>2
      <4>4. (f - 1) \div Span(2) = f \div Span(2)
        BY <1>1, <4>3, QuotientBefore
      <4>5. QED  BY <2>1, <4>2, <4>4
    <3>3. QED  BY <3>1, <3>2
  <2>2. CASE w = 2
    <3>1. Seen(1)' = Seen(1)
      BY <1>1, <2>2 DEF Seen
    <3>2. QED  BY <2>2, <3>1 DEF Turns, Span
  <2>3. QED  BY <2>1, <2>2
<1>8. QED
  <2>1. pc' \in {"cascade2", "update"} /\ (pc' = "cascade2" => f % (n * n) = 0)
    BY <1>1, <1>6
  <2>2. QED  BY <1>1, <1>2, <1>3, <1>4, <1>5, <1>7, <2>1

\* The tasks a cascade hands down have little left.
LEMMA CascadeLeft ==
  ASSUME TimerInv, NEW w \in {1, 2}, Cascade(w), NEW t \in slots[w][cur_slot_index'[w]]
  PROVE  /\ t \in DOMAIN tasks /\ Frames(tasks[t].interval) >= MaxSlots
         /\ tasks[t].timeout_frame - cur_frame \in Nat
         /\ tasks[t].timeout_frame - cur_frame < Reach
<1> USE DEF TimerInv
<1> DEFINE n == MaxSlots
           s == Span(w)
           f == cur_frame
           c == Turns(w)
           g == cur_slot_index'[w]
           T == tasks[t].timeout_frame
<1>1. /\ f \in Nat /\ c \in Nat /\ f = (c + 1) * s /\ g = (c + 1) % n /\ g \in Slots
  BY CascadeTurns DEF Wheels
<1>2. n \in Nat \ {0} /\ s \in Nat \ {0} /\ s + s <= Reach /\ Reach \in Nat
  <2>1. Span(2) + Span(2) <= Reach /\ Span(1) + Span(1) <= Span(2)
    <3>1. MaxSlots \in Nat /\ Span(2) \in Nat \ {0} /\ 2 <= MaxSlots /\ Reach = MaxSlots * Span(2)
      BY SpanFacts
    <3>2. 2 * Span(2) <= MaxSlots * Span(2)
      BY <3>1, Products
    <3>3. QED  BY <3>1, <3>2, SpanFacts
  <2>2. QED  BY <2>1, SpanFacts
<1>3. t \in Live /\ t \in DOMAIN tasks /\ T \in Nat
  <2>1. Held(w, g) = slots[w][g] /\ w \in Wheels
    BY HeldByRun, <1>1 DEF Wheels
  <2>2. t \in Live
    BY <1>1, <2>1 DEF PlaceInv
  <2>3. QED  BY <2>2 DEF Live, TypeOK, Task
<1>4. InUpper(t, w, g)
  BY <1>1 DEF ScheduleInv
<1>5. PICK k \in c + 1 .. c + n - 1 : g = k % n /\ k * s <= T /\ T < k * s + s + s
  BY <1>4 DEF InUpper
<1>6. k = c + 1
  <2> DEFINE h == c + 1
  <2>1. h \in Int /\ k \in Int /\ h <= k /\ k < h + n /\ h % n = k % n
    BY <1>1, <1>2, <1>5
  <2> HIDE DEF h, n
  <2>2. h = k
    BY <1>2, <2>1, RemainderUnique
  <2>3. QED  BY <2>2 DEF h
<1>7. f <= T /\ T < f + s + s
  BY <1>1, <1>5, <1>6
<1> HIDE DEF f, T, s
<1>8. T - f \in Nat /\ T - f < Reach
  BY <1>1, <1>2, <1>3, <1>7
<1>9. QED  BY <1>3, <1>4, <1>8 DEF T, f, InUpper

\* They come to wait in the slot they are due in, or in a turn of the lowest wheel.
LEMMA CascadeOnTime ==
  ASSUME TimerInv, NEW w \in {1, 2}, Cascade(w), NEW t \in slots[w][cur_slot_index'[w]],
         NEW d, d = tasks[t].timeout_frame - cur_frame,
         NEW v, v = WheelFor(d), NEW r, r = SlotFor(d, cur_slot_index')
  PROVE  /\ v \in Wheels /\ r \in Slots
         /\ v = 0 => InLowest(t, r)'
         /\ v # 0 => InUpper(t, v, r)'
<1> USE DEF TimerInv
<1> DEFINE n == MaxSlots
           f == cur_frame
           T == tasks[t].timeout_frame
<1>1. /\ f \in Nat /\ f % n = 0 /\ f = (Turns(w) + 1) * Span(w) /\ Turns(w) \in Nat
      /\ Turns(w)' = Turns(w) + 1 /\ \A u \in {1, 2} \ {w} : Turns(u)' = Turns(u)
      /\ cur_slot_index' \in [Wheels -> Slots]
      /\ cur_slot_index'[w] = (Turns(w) + 1) % n
      /\ \A u \in Wheels \ {w} : cur_slot_index'[u] = cur_slot_index[u]
      /\ pc' \in {"cascade2", "update"}
  BY CascadeTurns
<1>2. t \in DOMAIN tasks /\ Frames(tasks[t].interval) >= n /\ d \in Nat /\ d < Reach
  BY CascadeLeft
<1>3. v \in Wheels /\ r \in Slots
  <2>1. d \in Int
    BY <1>2
  <2>2. QED  BY <1>1, <2>1, WheelSlot
<1>4. n \in Nat \ {0} /\ T \in Nat /\ T = f + d /\ tasks' = tasks /\ cur_frame' = f
  <2>1. T \in Nat /\ tasks' = tasks /\ cur_frame' = f
    BY <1>2 DEF TypeOK, Task, Cascade, clock
  <2>2. QED  BY <1>1, <1>2, <2>1, SpanFacts
<1>5. ASSUME v = 0
      PROVE  InLowest(t, r)'
  <2>1. d < n
    BY <1>5 DEF WheelFor
  <2>2. r = T % n
    <3>1. cur_slot_index'[0] = f % n
      BY <1>1 DEF WheelsInv, Wheels
    <3>2. r = (f + d) % n
      BY <1>1, <1>2, <2>1, <3>1, LowestSlot
    <3>3. QED  BY <1>4, <3>2
  <2>3. DueFrame(t)' = IF T % n = 0 THEN T + n ELSE T
    BY <1>2, <1>4 DEF DueFrame
  <2>4. T % n = 0 => T = f
    <3> HIDE DEF T, f
    <3>1. f \in Int /\ T \in Int /\ f <= T /\ T < f + n
      BY <1>1, <1>2, <1>4, <2>1
    <3>2. f % n = T % n => f = T
      BY <1>4, <3>1, RemainderUnique
    <3>3. QED  BY <1>1, <3>2
  <2>5. T # f \/ T % n = 0
    BY <1>1
  <2>6. (T + n) % n = T % n
    <3> HIDE DEF T, n
    <3>1. T \in Int /\ 0 \in Int
      BY <1>4
    <3>2. QED  BY <1>4, <3>1, RemainderShift
  <2> HIDE DEF T, n, f
  <2>7. DueFrame(t)' % n = T % n /\ f < DueFrame(t)' /\ DueFrame(t)' <= f + n
    BY <1>1, <1>2, <1>4, <2>1, <2>3, <2>4, <2>5, <2>6
  <2>8. QED  BY <1>1, <1>4, <2>2, <2>7 DEF InLowest, n
<1>6. ASSUME v # 0
      PROVE  InUpper(t, v, r)'
  <2>1. v \in {1, 2} /\ d >= n
    BY <1>2, <1>3, <1>4, <1>6 DEF Wheels, WheelFor
  <2>2. PICK c : c = Turns(v)'
    OBVIOUS
  <2>3. /\ c \in Nat /\ c * Span(v) <= f /\ f <= c * Span(v) + Span(v)
        /\ cur_slot_index'[v] = c % n
    <3>1. CASE v = w
      <4>1. c \in Nat /\ c * Span(v) = f /\ cur_slot_index'[v] = c % n
        BY <1>1, <2>2, <3>1
      <4>2. Span(v) \in Nat
        BY <2>1, SpanFacts
      <4>3. QED  BY <1>1, <4>1, <4>2
    <3>2. CASE v # w
      <4>1. c = Turns(v) /\ cur_slot_index'[v] = cur_slot_index[v]
        BY <1>1, <2>1, <2>2, <3>2 DEF Wheels
      <4>2. QED  BY <2>1, <4>1, TurnsFacts DEF WheelsInv
    <3>3. QED  BY <3>1, <3>2
  <2>4. \E k \in c + 1 .. c + MaxSlots - 1 :
           /\ r = k % MaxSlots
           /\ k * Span(v) <= f + d
           /\ f + d < k * Span(v) + Span(v) + Span(v)
    BY <1>1, <1>2, <2>1, <2>3, UpperSlot
  <2>5. \E k \in c + 1 .. c + MaxSlots - 1 :
           /\ r = k % MaxSlots
           /\ k * Span(v) <= T
           /\ T < k * Span(v) + Span(v) + Span(v)
    BY <1>4, <2>4
  <2>6. Frames(tasks'[t].interval) >= MaxSlots /\ tasks'[t].timeout_frame = T
    BY <1>2, <1>4
  <2>7. QED  BY <2>2, <2>5, <2>6, Zenon DEF InUpper, Span
<1>7. QED  BY <1>3, <1>5, <1>6

\* A cascade moves every task of its slot.
LEMMA CascadeInv ==
  ASSUME TimerInv, NEW w \in {1, 2}, Cascade(w)
  PROVE  TimerInv'
<1> USE DEF TimerInv
<1> DEFINE left(t) == tasks[t].timeout_frame - cur_frame
           To(t, x, y) == WheelFor(left(t)) = x /\ SlotFor(left(t), cur_slot_index') = y
<1>1. PICK g : g = cur_slot_index'[w]
  OBVIOUS
<1>2. PICK moved : moved = slots[w][g]
  OBVIOUS
<1>3. /\ pc = (IF w = 1 THEN "cascade1" ELSE "cascade2") /\ pc' \in {"cascade2", "update"}
      /\ deleted' = deleted /\ tasks' = tasks /\ current' = current /\ running' = running
      /\ cur_frame' = cur_frame /\ ids' = ids /\ w \in Wheels
      /\ left_ms' = left_ms /\ ms_since_start' = ms_since_start /\ next_timer_id' = next_timer_id
  BY CascadeTurns DEF Cascade, clock, Wheels
<1>4. /\ cur_frame \in Nat /\ cur_frame > 0 /\ Turns(w) \in Nat /\ Turns(w)' = Turns(w) + 1
      /\ \A v \in {1, 2} \ {w} : Turns(v)' = Turns(v)
      /\ cur_slot_index' \in [Wheels -> Slots] /\ g = (Turns(w) + 1) % MaxSlots /\ g \in Slots
      /\ \A v \in Wheels \ {w} : cur_slot_index'[v] = cur_slot_index[v]
      /\ pc' = "cascade2" => cur_frame % (MaxSlots * MaxSlots) = 0
  BY <1>1, <1>3, CascadeTurns
<1>5. \A x \in Wheels, y \in Slots :
         slots'[x][y] = (IF x = w /\ y = g THEN {} ELSE slots[x][y]) \cup {t \in moved : To(t, x, y)}
  BY <1>1, <1>2 DEF Cascade, Moved
<1>6. /\ \A x \in Wheels, y \in Slots : Held(x, y) = slots[x][y] /\ Held(x, y)' = slots'[x][y]
      /\ Live' = Live
  BY <1>3 DEF Held, Live
<1>7. moved \subseteq Live /\ moved \subseteq Ids
  BY <1>2, <1>3, <1>4, <1>6 DEF PlaceInv, TypeOK
<1>8. TypeOK'
  <2>1. slots' \in [Wheels -> [Slots -> SUBSET Ids]]
    <3>1. slots' = [x \in Wheels |-> [y \in Slots |->
                      (IF x = w /\ y = g THEN {} ELSE slots[x][y]) \cup {t \in moved : To(t, x, y)}]]
      BY <1>1, <1>2 DEF Cascade, Moved
    <3> HIDE DEF To
    <3>2. \A x \in Wheels, y \in Slots : slots[x][y] \subseteq Ids
      BY DEF TypeOK
    <3>3. QED  BY <1>7, <3>1, <3>2
  <2>2. QED  BY <1>3, <1>4, <2>1 DEF TypeOK
<1>9. ClockAgrees'
  BY <1>3 DEF ClockAgrees
<1>10. WheelsInv'
  <2>1. cur_slot_index'[0] = cur_slot_index[0]
    BY <1>4 DEF Wheels
  <2>2. \A v \in {1, 2} : cur_slot_index'[v] = Turns(v)' % MaxSlots
    <3>1. cur_slot_index'[w] = Turns(w)' % MaxSlots
      BY <1>1, <1>4
    <3>2. \A v \in {1, 2} \ {w} : cur_slot_index'[v] = Turns(v)' % MaxSlots
      <4>1. \A v \in {1, 2} \ {w} : cur_slot_index'[v] = cur_slot_index[v]
        BY <1>4 DEF Wheels
      <4>2. \A v \in {1, 2} \ {w} : cur_slot_index[v] = Turns(v) % MaxSlots
        BY DEF WheelsInv
      <4>3. QED  BY <1>4, <4>1, <4>2
    <3>3. QED  BY <3>1, <3>2
  <2>3. QED  BY <1>3, <1>4, <2>1, <2>2 DEF WheelsInv
<1>11. ASSUME NEW t \in moved
       PROVE  \E v \in Wheels, r \in Slots :
                 /\ \A x \in Wheels, y \in Slots : t \in slots'[x][y] <=> x = v /\ y = r
                 /\ v = 0 => InLowest(t, r)'
                 /\ v # 0 => InUpper(t, v, r)'
  <2>1. PICK d : d = left(t)
    OBVIOUS
  <2>2. PICK v, r : v = WheelFor(d) /\ r = SlotFor(d, cur_slot_index')
    OBVIOUS
  <2>3. v \in Wheels /\ r \in Slots /\ (v = 0 => InLowest(t, r)') /\ (v # 0 => InUpper(t, v, r)')
    BY <1>1, <1>2, <1>11, <2>1, <2>2, CascadeOnTime
  <2>4. \A x, y : To(t, x, y) <=> x = v /\ y = r
    BY <2>1, <2>2
  <2> HIDE DEF To
  <2>5. \A x \in Wheels, y \in Slots : t \in slots[x][y] <=> x = w /\ y = g
    BY <1>2, <1>3, <1>4, <1>6, <1>11, HeldOnce
  <2>6. \A x \in Wheels, y \in Slots : t \in slots'[x][y] <=> x = v /\ y = r
    BY <1>5, <1>11, <2>4, <2>5
  <2>7. QED  BY <2>3, <2>6
<1> HIDE DEF To
<1>12. ASSUME NEW x \in Wheels, NEW y \in Slots, NEW t, t \notin moved
       PROVE  t \in slots'[x][y] <=> t \in slots[x][y]
  BY <1>2, <1>5, <1>12
<1>13. PlaceInv'
  <2>1. ASSUME NEW x \in Wheels, NEW y \in Slots
        PROVE  Held(x, y)' \subseteq Live'
    <3>1. slots'[x][y] \subseteq slots[x][y] \cup moved
      BY <1>5
    <3>2. QED  BY <1>6, <1>7, <3>1 DEF PlaceInv
  <2>2. ASSUME NEW u \in Live'
        PROVE  \/ u \in Live /\ \A x \in Wheels, y \in Slots : u \in Held(x, y)' <=> u \in Held(x, y)
               \/ \E v \in Wheels, r \in Slots : \A x \in Wheels, y \in Slots :
                     u \in Held(x, y)' <=> x = v /\ y = r
    <3>1. CASE u \in moved
      <4>1. PICK v \in Wheels, r \in Slots : \A x \in Wheels, y \in Slots :
                    u \in slots'[x][y] <=> x = v /\ y = r
        BY <1>11, <3>1, Zenon
      <4>2. \A x \in Wheels, y \in Slots : u \in Held(x, y)' <=> x = v /\ y = r
        BY <1>6, <4>1
      <4>3. QED  BY <4>2, Zenon
    <3>2. CASE u \notin moved
      BY <1>6, <1>12, <3>2
    <3>3. QED  BY <3>1, <3>2
  <2>3. QED  BY <2>1, <2>2, Placed
<1>14. ASSUME NEW y \in Slots, NEW t \in Held(0, y)' \ {current'}
       PROVE  InLowest(t, y)'
  <2>1. t \in slots'[0][y] /\ 0 \in Wheels
    BY <1>6, <1>14 DEF Wheels
  <2>2. CASE t \in moved
    BY <1>11, <2>1, <2>2
  <2>3. CASE t \notin moved
    <3>1. InLowest(t, y)
      BY <1>3, <1>6, <1>12, <2>1, <2>3, <1>14 DEF ScheduleInv
    <3>2. DueFrame(t)' = DueFrame(t)
      BY <1>3 DEF DueFrame
    <3>3. QED  BY <1>3, <3>1, <3>2 DEF InLowest
  <2>4. QED  BY <2>2, <2>3
<1>15. ASSUME NEW v \in {1, 2}, NEW y \in Slots, NEW t \in slots'[v][y]
       PROVE  InUpper(t, v, y)'
  <2>1. v \in Wheels /\ v # 0
    BY DEF Wheels
  <2>2. CASE t \in moved
    BY <1>11, <1>15, <2>1, <2>2
  <2>3. CASE t \notin moved
    <3>1. t \in slots[v][y] /\ InUpper(t, v, y)
      BY <1>12, <1>15, <2>1, <2>3 DEF ScheduleInv
    <3>2. CASE v # w
      BY <1>3, <1>4, <3>1, <3>2, SameUpper
    <3>3. CASE v = w
      <4>1. y # g
        BY <1>2, <2>3, <3>1, <3>3
      <4>2. PICK k \in Turns(w) + 1 .. Turns(w) + MaxSlots - 1 :
              /\ y = k % MaxSlots
              /\ k * Span(w) <= tasks[t].timeout_frame
              /\ tasks[t].timeout_frame < k * Span(w) + Span(w) + Span(w)
        BY <3>1, <3>3 DEF InUpper
      <4>3. k # Turns(w) + 1
        BY <1>4, <4>1, <4>2
      <4>4. k \in Turns(w)' + 1 .. Turns(w)' + MaxSlots - 1
        BY <1>4, <4>2, <4>3, SpanFacts
      <4>5. Frames(tasks'[t].interval) >= MaxSlots
        BY <1>3, <3>1 DEF InUpper
      <4>6. tasks' = tasks
        BY <1>3
      <4>7. QED  BY <3>3, <4>2, <4>4, <4>5, <4>6, Zenon DEF InUpper, Span
    <3>4. QED  BY <3>2, <3>3
  <2>4. QED  BY <2>2, <2>3
<1>16. ScheduleInv'
  <2>1. \A t \in DOMAIN tasks' : Frames(tasks'[t].interval) < Reach
    BY <1>3 DEF ScheduleInv
  <2>2. QED  BY <1>14, <1>15, <2>1 DEF ScheduleInv
<1>17. QED  BY <1>8, <1>9, <1>10, <1>13, <1>16

-----------------------------------------------------------------------------
(* The invariant, and what follows from it *)

\* No task is anywhere at the start.
LEMMA InitTimerInv ==
  ASSUME Init
  PROVE  TimerInv
<1>1. 0 \in Slots /\ MaxSlots \in Nat \ {0}
  BY SpanFacts DEF Slots
<1>2. TypeOK
  <2>1. cur_slot_index \in [Wheels -> Slots] /\ slots \in [Wheels -> [Slots -> SUBSET Ids]]
    BY <1>1 DEF Init
  <2>2. DOMAIN tasks = {} /\ 0 .. next_timer_id - 1 = {}
    BY DEF Init
  <2>3. QED  BY <2>1, <2>2, IntervalAssumption, BoundsAssumption DEF Init, TypeOK
<1>3. ClockAgrees
  BY IntervalAssumption DEF Init, ClockAgrees
<1>4. WheelsInv
  <2>1. \A n \in Nat \ {0} : 0 \div n = 0 /\ 0 % n = 0
    <3>1. ASSUME NEW n \in Nat \ {0}
          PROVE  0 \div n = 0 /\ 0 % n = 0
      <4>1. 0 * n = 0
        OBVIOUS
      <4>2. (0 * n) % n = 0 /\ (0 * n) \div n = 0
        BY Multiple
      <4>3. QED  BY <4>1, <4>2
    <3>2. QED  BY <3>1
  <2>2. \A w \in {1, 2} : Turns(w) = 0
    BY <2>1, SpanFacts DEF Turns, Seen, Init
  <2>3. \A w \in Wheels : cur_slot_index[w] = 0 % MaxSlots
    BY <1>1, <2>1 DEF Init
  <2>4. cur_slot_index[0] = cur_frame % MaxSlots
    BY <2>3 DEF Init, Wheels
  <2>5. \A w \in {1, 2} : cur_slot_index[w] = Turns(w) % MaxSlots
    BY <2>2, <2>3 DEF Wheels
  <2>6. QED  BY <2>4, <2>5 DEF Init, WheelsInv
<1>5. \A w \in Wheels, s \in Slots : Held(w, s) = {} /\ slots[w][s] = {}
  BY DEF Init, Held
<1>6. PlaceInv
  BY <1>5 DEF Init, PlaceInv, Live
<1>7. ScheduleInv
  BY <1>5 DEF Init, ScheduleInv, Wheels
<1>8. QED  BY <1>2, <1>3, <1>4, <1>6, <1>7 DEF TimerInv

\* Nothing changes.
LEMMA StutterTimerInv ==
  ASSUME TimerInv, UNCHANGED vars
  PROVE  TimerInv'
<1> USE DEF vars
<1>1. TypeOK' /\ ClockAgrees'
  BY DEF TimerInv, TypeOK, ClockAgrees
<1>2. \A w \in {1, 2} : Turns(w)' = Turns(w)
  BY SameTurns
<1>3. WheelsInv'
  BY <1>2 DEF TimerInv, WheelsInv
<1>4. Live' = Live /\ \A w, s : Held(w, s)' = Held(w, s)
  BY DEF Live, Held
<1>5. PlaceInv'
  <2>1. \A w \in Wheels, s \in Slots : Held(w, s)' \subseteq Live'
    BY <1>4 DEF TimerInv, PlaceInv
  <2>2. QED  BY <1>4, <2>1, Placed DEF TimerInv
<1>6. ScheduleInv'
  <2>1. \A u : /\ \A s \in Slots : InLowest(u, s)' <=> InLowest(u, s)
               /\ \A w \in {1, 2}, s \in Slots : InUpper(u, w, s)' <=> InUpper(u, w, s)
    BY <1>2, StillOnTime
  <2>2. QED  BY <1>4, <2>1 DEF TimerInv, ScheduleInv
<1>7. QED  BY <1>1, <1>3, <1>5, <1>6 DEF TimerInv

\* Every step keeps the invariant.
LEMMA StepTimerInv ==
  ASSUME TimerInv, [Next]_vars
  PROVE  TimerInv'
<1>1. CASE AddTimer
  BY <1>1, AddTimerInv
<1>2. ASSUME NEW t \in Ids, DelTimer(t)
      PROVE  TimerInv'
  BY <1>2, DelTimerInv
<1>3. ASSUME NEW d \in 0 .. MaxElapse, Update(d)
      PROVE  TimerInv'
  BY <1>3, UpdateInv
<1>4. CASE UpdateDone
  BY <1>4, UpdateDoneInv
<1>5. CASE TickBegin
  BY <1>5, TickBeginInv
<1>6. ASSUME NEW t \in Ids, DropCanceled(t) \/ Fire(t)
      PROVE  TimerInv'
  BY <1>6, DropCanceledInv, FireInv
<1>7. CASE CallbackReturns
  BY <1>7, LastCallbackInv, RepeatCallbackInv
<1>8. CASE RunDone
  BY <1>8, RunDoneInv
<1>9. ASSUME NEW w \in {1, 2}, Cascade(w)
      PROVE  TimerInv'
  BY <1>9, CascadeInv
<1>10. CASE Bounded \/ UNCHANGED vars
  BY <1>10, StutterTimerInv DEF Bounded
<1>11. QED  BY <1>1, <1>2, <1>3, <1>4, <1>5, <1>6, <1>7, <1>8, <1>9, <1>10 DEF Next

\* The inductive invariant: the wheels turn like the digits of the frame, every live
\* task is in one place, and that place will be reached when the task is due
\* (wheel_timer.cpp, all of it).
THEOREM TimerAlwaysRight == Spec => []TimerInv
<1>1. Init => TimerInv
  BY InitTimerInv
<1>2. TimerInv /\ [Next]_vars => TimerInv'
  BY StepTimerInv
<1>3. QED  BY <1>1, <1>2, PTL DEF Spec

\* Live tasks are in one place, freed ones in none.
LEMMA PlacesCounted ==
  ASSUME TimerInv
  PROVE  OnePlace
<1> SUFFICES ASSUME NEW t \in DOMAIN tasks
             PROVE  Cardinality(Places(t)) = IF t \in Live THEN 1 ELSE 0
  BY DEF OnePlace, Places
<1>1. CASE t \in Live
  <2>1. PICK p : Places(t) = {p}
    BY <1>1 DEF TimerInv, PlaceInv
  <2>2. QED  BY <1>1, <2>1, FS_Singleton
<1>2. CASE t \notin Live
  <2>1. \A w \in Wheels, s \in Slots : t \notin Held(w, s)
    BY <1>2 DEF TimerInv, PlaceInv
  <2>2. Places(t) = {}
    BY <2>1 DEF Places
  <2>3. QED  BY <1>2, <2>2, FS_EmptySet
<1>3. QED  BY <1>1, <1>2

\* No callback is lost, none runs twice, no freed task is touched, and the clock of the
\* server agrees with the frames (add_timer, del_timer, run_timers, move_timers, update).
THEOREM TasksAlwaysAccounted == Spec => []TasksAccounted
<1>1. TimerInv => TasksAccounted
  BY PlacesCounted DEF TimerInv, TasksAccounted
<1>2. QED  BY <1>1, TimerAlwaysRight, PTL

\* A task in an upper wheel is due later: in this frame only if its turn is still to come.
LEMMA UpperLater ==
  ASSUME TimerInv, NEW w \in {1, 2}, NEW s \in Slots, NEW t \in slots[w][s]
  PROVE  /\ Seen(w) < tasks[t].timeout_frame
         /\ cur_frame < DueFrame(t)
<1> USE DEF TimerInv
<1> DEFINE T == tasks[t].timeout_frame
           n == MaxSlots
           S == Span(w)
           f == cur_frame
           c == Turns(w)
<1>1. InUpper(t, w, s)
  BY DEF ScheduleInv
<1>2. t \in DOMAIN tasks /\ T \in Nat
  <2>1. Held(w, s) = slots[w][s] /\ w \in Wheels
    BY HeldByRun DEF Wheels
  <2>2. t \in Live
    BY <2>1 DEF PlaceInv
  <2>3. QED  BY <2>2 DEF Live, TypeOK, Task
<1>3. /\ c \in Nat /\ Seen(w) \in Nat /\ Seen(w) < c * S + S /\ f \in Nat
      /\ Seen(w) \in {f, f - 1}
      /\ n \in Nat \ {0} /\ S \in Nat \ {0} /\ S \in {n, n * n}
  <2>1. /\ c \in Nat /\ Seen(w) \in Nat /\ c * S \in Nat
        /\ c * S <= Seen(w) /\ Seen(w) < c * S + S
    BY TurnsFacts
  <2>2. S \in Nat \ {0} /\ S \in {n, n * n} /\ n \in Nat \ {0}
    BY SpanFacts
  <2>3. f \in Nat /\ Seen(w) \in {f, f - 1}
    BY BoundsAssumption DEF TypeOK, Seen
  <2>4. QED  BY <2>1, <2>2, <2>3
<1>4. PICK k \in c + 1 .. c + n - 1 : k * S <= T
  BY <1>1 DEF InUpper
<1> HIDE DEF T, S, f, c, n
<1>5. k * S \in Nat /\ c * S + S <= k * S
  <2>1. k \in Nat /\ c + 1 \in Int /\ c + 1 <= k
    BY <1>3, <1>4
  <2>2. (c + 1) * S <= k * S /\ k * S \in Nat
    BY <1>3, <2>1, Products
  <2>3. (c + 1) * S = c * S + S
    BY <1>3, Products
  <2>4. QED  BY <2>2, <2>3
<1>6. Seen(w) < k * S /\ Seen(w) < T /\ f <= k * S
  BY <1>2, <1>3, <1>4, <1>5
<1>7. ASSUME T <= f
      PROVE  T % n = 0 /\ T = f
  <2>1. T = k * S /\ T = f
    BY <1>2, <1>3, <1>4, <1>5, <1>6, <1>7
  <2>2. (k * S) % n = 0
    <3>1. CASE S = n
      <4>1. k \in Int /\ n \in Nat \ {0}
        BY <1>3, <1>4
      <4>2. (k * n) % n = 0
        BY <4>1, Multiple, Zenon
      <4>3. QED  BY <3>1, <4>2
    <3>2. CASE S = n * n
      <4>1. k * S = (k * n) * n /\ k * n \in Int /\ n \in Nat \ {0}
        BY <1>3, <1>4, <3>2
      <4>2. ((k * n) * n) % n = 0
        BY <4>1, Multiple, Zenon
      <4>3. QED  BY <4>1, <4>2
    <3>3. QED  BY <1>3, <3>1, <3>2
  <2>3. QED  BY <2>1, <2>2
<1>8. DueFrame(t) = IF T % n = 0 THEN T + n ELSE T
  BY <1>1 DEF InUpper, DueFrame, T, n
<1>9. f < DueFrame(t)
  BY <1>2, <1>3, <1>7, <1>8
<1>10. QED  BY <1>6, <1>9 DEF T, f

\* What is being run is due now, everything else later.
LEMMA DueExactly ==
  ASSUME TimerInv, NEW t \in Live, t # current
  PROVE  /\ t \in DOMAIN tasks /\ tasks[t] \in Task /\ DueFrame(t) \in Nat
         /\ t \in running => DueFrame(t) = cur_frame
         /\ t \notin running => cur_frame < DueFrame(t)
<1> USE DEF TimerInv
<1>1. t \in DOMAIN tasks /\ tasks[t] \in Task /\ DueFrame(t) \in Nat
  <2>1. t \in DOMAIN tasks /\ tasks[t] \in Task
    BY DEF Live, TypeOK
  <2>2. QED  BY <2>1, SpanFacts DEF DueFrame, Task
<1>2. PICK w \in Wheels, s \in Slots : t \in Held(w, s)
  <2>1. PICK p \in Wheels \X Slots : Places(t) = {p}
    BY DEF PlaceInv
  <2>2. p[1] \in Wheels /\ p[2] \in Slots /\ t \in Held(p[1], p[2])
    BY <2>1 DEF Places
  <2>3. QED  BY <2>2
<1>3. t \in running <=> pc \in {"run", "callback"} /\ w = 0 /\ s = cur_slot_index[0]
  <2>1. ASSUME t \in running
        PROVE  pc \in {"run", "callback"} /\ w = 0 /\ s = cur_slot_index[0]
    <3>1. pc \in {"run", "callback"}
      BY <2>1 DEF WheelsInv
    <3>2. t \in Held(0, cur_slot_index[0]) /\ cur_slot_index[0] \in Slots /\ 0 \in Wheels
      BY <2>1, <3>1, HeldByRun DEF Wheels
    <3>3. QED  BY <1>2, <3>1, <3>2, HeldOnce
  <2>2. ASSUME pc \in {"run", "callback"}, w = 0, s = cur_slot_index[0]
        PROVE  t \in running
    BY <1>2, <2>2, HeldByRun
  <2>3. QED  BY <2>1, <2>2
<1>4. CASE w = 0
  <2>1. InLowest(t, s)
    BY <1>2, <1>4 DEF ScheduleInv
  <2>2. QED  BY <1>1, <1>3, <1>4, <2>1 DEF InLowest
<1>5. CASE w # 0
  <2>1. w \in {1, 2} /\ t \in slots[w][s]
    BY <1>2, <1>5, HeldByRun DEF Wheels
  <2>2. QED  BY <1>1, <1>3, <1>5, <2>1, UpperLater
<1>6. QED  BY <1>4, <1>5

\* Between updates a task is overdue only if it is a turn late.
LEMMA WaitingNotOverdue ==
  ASSUME TimerInv, pc = "idle", NEW t \in Live
  PROVE  \/ cur_frame < tasks[t].timeout_frame
         \/ OneTurnLate(t) /\ cur_frame < tasks[t].timeout_frame + MaxSlots
<1> USE DEF TimerInv
<1> DEFINE T == tasks[t].timeout_frame
<1>1. t # current /\ running = {}
  BY BoundsAssumption DEF WheelsInv, Live, TypeOK
<1>2. t \in DOMAIN tasks /\ T \in Nat /\ cur_frame < DueFrame(t)
  BY <1>1, DueExactly DEF Task
<1>3. CASE DueFrame(t) = T
  BY <1>2, <1>3
<1>4. CASE DueFrame(t) # T
  <2>1. Frames(tasks[t].interval) >= MaxSlots /\ T % MaxSlots = 0 /\ DueFrame(t) = T + MaxSlots
    BY <1>4 DEF DueFrame
  <2>2. PICK w \in Wheels, s \in Slots : t \in slots[w][s]
    <3>1. PICK p \in Wheels \X Slots : Places(t) = {p}
      BY DEF PlaceInv
    <3>2. p[1] \in Wheels /\ p[2] \in Slots /\ t \in Held(p[1], p[2])
      BY <3>1 DEF Places
    <3>3. t \in slots[p[1]][p[2]]
      BY <3>2 DEF Held
    <3>4. QED  BY <3>2, <3>3
  <2>3. CASE w = 0
    <3>1. t \in Held(0, s) \ {current}
      BY <1>1, <2>2, <2>3 DEF Held
    <3>2. s = (T + MaxSlots) % MaxSlots
      BY <2>1, <3>1 DEF ScheduleInv, InLowest
    <3>3. (T + MaxSlots) % MaxSlots = T % MaxSlots
      <4>1. T \in Int /\ 0 \in Int /\ MaxSlots \in Nat \ {0}
        BY <1>2, SpanFacts
      <4> HIDE DEF T
      <4>2. QED  BY <4>1, RemainderShift
    <3>4. t \in slots[0][0]
      BY <2>1, <2>2, <2>3, <3>2, <3>3
    <3>5. QED  BY <1>2, <2>1, <3>4 DEF OneTurnLate
  <2>4. CASE w # 0
    <3>1. w \in {1, 2} /\ Seen(w) = cur_frame
      BY <2>4 DEF Wheels, Seen
    <3>2. QED  BY <2>2, <3>1, UpperLater
  <2>5. QED  BY <2>3, <2>4
<1>5. QED  BY <1>3, <1>4

\* No task is stranded: between updates the only ones overdue are those that wait for
\* one more turn of the lowest wheel (calculate_slot_index, tick, move_timers).
THEOREM NothingEverOverdue == Spec => []NothingOverdue
<1>1. TimerInv => NothingOverdue
  BY WaitingNotOverdue DEF NothingOverdue
<1>2. QED  BY <1>1, TimerAlwaysRight, PTL

-----------------------------------------------------------------------------
(* The contract *)

\* The alarms their owners see.
PendingNow == {u \in Live : Pending(u)}
AlarmsNow  == [t \in PendingNow |-> AlarmOf(t)]

\* An alarm whose callback does not run asks for the frame its task is due in.
LEMMA AlarmAsks ==
  ASSUME NEW t, t # current
  PROVE  AlarmOf(t) = [interval |-> tasks[t].interval, repeat |-> tasks[t].is_repeat,
                       ms |-> tasks[t].timeout_ms, frame |-> DueFrame(t)]
  BY DEF AlarmOf, DueFrame

\* An alarm stays what it is while its task and the frame do.
LEMMA AlarmSame ==
  ASSUME NEW t, tasks'[t].interval = tasks[t].interval, tasks'[t].is_repeat = tasks[t].is_repeat,
         tasks'[t].timeout_ms = tasks[t].timeout_ms, tasks'[t].timeout_frame = tasks[t].timeout_frame,
         t # current, t # current'
  PROVE  AlarmOf(t)' = AlarmOf(t)
  BY DEF AlarmOf

\* A step that touches no alarm is none of the contract.
LEMMA ContractStutters ==
  ASSUME PendingNow' = PendingNow, \A t \in PendingNow : AlarmOf(t)' = AlarmOf(t),
         ms_since_start' = ms_since_start, cur_frame' = cur_frame,
         next_timer_id' = next_timer_id, current' = current
  PROVE  UNCHANGED Contract!timerVars
<1>1. AlarmsNow' = AlarmsNow
  BY DEF AlarmsNow
<1>2. QED  BY <1>1 DEF Contract!timerVars, AlarmsNow, PendingNow

\* What is due is what is being run.
LEMMA ContractDue ==
  ASSUME TimerInv, NEW t
  PROVE  Contract!Due(t) <=> t \in PendingNow /\ t \in running
<1>1. Contract!Due(t) <=> t \in PendingNow /\ AlarmOf(t).frame <= cur_frame
  BY DEF Contract!Due, PendingNow
<1>2. ASSUME t \in PendingNow, t # current
      PROVE  AlarmOf(t).frame <= cur_frame <=> t \in running
  <2>1. t \in Live
    BY <1>2 DEF PendingNow
  <2>2. AlarmOf(t).frame = DueFrame(t)
    BY <1>2, AlarmAsks
  <2>3. cur_frame \in Nat
    BY BoundsAssumption DEF TimerInv, TypeOK
  <2>4. QED  BY <1>2, <2>1, <2>2, <2>3, DueExactly
<1>3. ASSUME t \in PendingNow, t = current
      PROVE  ~(AlarmOf(t).frame <= cur_frame) /\ t \notin running
  <2>1. /\ t \in DOMAIN tasks /\ tasks[t] \in Task /\ tasks[t].is_repeat = TRUE
        /\ cur_frame \in Nat /\ t \notin running
    BY <1>3, BoundsAssumption DEF PendingNow, Live, Pending, TimerInv, TypeOK, WheelsInv, Task
  <2> DEFINE d == Frames(tasks[t].interval)
             a == cur_frame + d
  <2>2. d \in Nat \ {0}
    BY <2>1, DelaysAssumption, FramesType DEF Task
  <2>3. AlarmOf(t).frame = IF d >= MaxSlots /\ a % MaxSlots = 0 THEN a + MaxSlots ELSE a
    BY <1>3 DEF AlarmOf
  <2> HIDE DEF d
  <2>4. QED  BY <2>1, <2>2, <2>3, SpanFacts
<1>4. QED  BY <1>1, <1>2, <1>3

\* Handlers and callbacks run when alarms may be set and cancelled.
LEMMA CallerMayCall ==
  ASSUME TimerInv
  PROVE  /\ running = {} => Contract!NothingDue
         /\ CallerRuns => Contract!Quiet \/ current # -1
         /\ pc = "idle" => /\ Contract!Quiet
                           /\ ms_since_start < cur_frame * Interval + Interval
         /\ cur_frame * Interval \in Nat
         /\ (cur_frame + 1) * Interval = cur_frame * Interval + Interval
<1>1. ASSUME running = {}
      PROVE  Contract!NothingDue
  <2>1. \A t : ~Contract!Due(t)
    BY <1>1, ContractDue
  <2>2. QED  BY <2>1 DEF Contract!NothingDue
<1>2. /\ cur_frame * Interval \in Nat
      /\ (cur_frame + 1) * Interval = cur_frame * Interval + Interval
  <2>1. cur_frame \in Nat
    BY BoundsAssumption DEF TimerInv, TypeOK
  <2>2. QED  BY <2>1, FrameMs, Zenon
<1>3. ASSUME pc = "idle"
      PROVE  Contract!Quiet /\ ms_since_start < cur_frame * Interval + Interval
  <2>1. running = {} /\ current = -1
    BY <1>3 DEF TimerInv, WheelsInv
  <2>2. \A p \in Nat : p + left_ms = ms_since_start => ms_since_start < p + Interval
    BY <1>3, IntervalAssumption DEF TimerInv, TypeOK
  <2>3. ms_since_start < cur_frame * Interval + Interval
    BY <1>2, <2>2, Zenon DEF TimerInv, ClockAgrees
  <2>4. ms_since_start < (cur_frame + 1) * Interval
    BY <1>2, <2>3
  <2>5. QED  BY <1>1, <2>1, <2>3, <2>4 DEF Contract!Quiet
<1>4. ASSUME pc = "callback"
      PROVE  current # -1
  BY <1>4 DEF TimerInv, WheelsInv
<1>5. QED  BY <1>1, <1>2, <1>3, <1>4 DEF CallerRuns

\* The id of the current callback, if there is one, is that of a live task.
LEMMA CurrentLives ==
  ASSUME TimerInv, current # -1
  PROVE  current \in Live
  BY HeldByRun DEF TimerInv, WheelsInv, PlaceInv, Wheels

\* add_timer sets an alarm.
LEMMA AddTimerContract ==
  ASSUME TimerInv, AddTimer
  PROVE  \E ms \in Delays, repeat \in BOOLEAN : Contract!SetAlarm(ms, repeat)
<1>1. PICK t : t = next_timer_id
  OBVIOUS
<1>2. PICK ms \in Delays, repeat \in BOOLEAN :
        tasks' = [k \in DOMAIN tasks \cup {t} |->
                       IF k = t
                       THEN [interval |-> ms,
                             timeout_ms |-> cur_frame * Interval + ms,
                             timeout_frame |-> cur_frame + Frames(ms),
                             is_repeat |-> repeat, is_canceled |-> FALSE]
                       ELSE tasks[k]]
  BY <1>1 DEF AddTimer
<1>3. /\ CallerRuns /\ t < MaxTimers /\ next_timer_id' = t + 1
      /\ cur_frame' = cur_frame /\ ms_since_start' = ms_since_start
      /\ deleted' = deleted /\ current' = current
  BY <1>1 DEF AddTimer, clock
<1>4. t \notin DOMAIN tasks /\ t \notin deleted /\ t # current
  <2>1. t \notin DOMAIN tasks /\ t # -1
    BY <1>1, BoundsAssumption DEF TimerInv, TypeOK
  <2>2. t \notin deleted
    BY <2>1 DEF TimerInv, TypeOK
  <2>3. QED  BY <2>1, <2>2, CurrentLives DEF Live
<1>5. /\ tasks'[t] = [interval |-> ms, timeout_ms |-> cur_frame * Interval + ms,
                      timeout_frame |-> cur_frame + Frames(ms),
                      is_repeat |-> repeat, is_canceled |-> FALSE]
      /\ \A u \in DOMAIN tasks : tasks'[u] = tasks[u]
      /\ DOMAIN tasks' = DOMAIN tasks \cup {t}
  BY <1>2, <1>4
<1>6. PendingNow' = PendingNow \cup {t}
  <2>1. Live' = Live \cup {t}
    BY <1>3, <1>4, <1>5 DEF Live
  <2>2. Pending(t)'
    BY <1>3, <1>4, <1>5 DEF Pending
  <2>3. \A u \in Live : Pending(u)' <=> Pending(u)
    BY <1>3, <1>5 DEF Pending, Live
  <2>4. QED  BY <2>1, <2>2, <2>3 DEF PendingNow
<1>7. ASSUME NEW u \in PendingNow
      PROVE  AlarmOf(u)' = AlarmOf(u)
  <2>1. tasks'[u] = tasks[u]
    BY <1>5 DEF PendingNow, Live
  <2>2. QED  BY <1>3, <2>1 DEF AlarmOf
<1>8. AlarmOf(t)' = Contract!AlarmIn(ms, repeat)
  BY <1>3, <1>4, <1>5 DEF AlarmOf, Contract!AlarmIn, Contract!RingFrame, Contract!Frames, Frames
<1>9. t \notin PendingNow
  BY <1>4 DEF PendingNow, Live
<1>10. AlarmsNow' = [u \in PendingNow \cup {t} |->
                       IF u = t THEN Contract!AlarmIn(ms, repeat) ELSE AlarmsNow[u]]
  BY <1>6, <1>7, <1>8, <1>9 DEF AlarmsNow
<1>11. DOMAIN AlarmsNow = PendingNow
  BY DEF AlarmsNow
<1>12. Contract!Quiet \/ current # -1
  BY <1>3, CallerMayCall
<1>13. Contract!SetAlarm(ms, repeat)
  BY <1>1, <1>3, <1>10, <1>11, <1>12 DEF Contract!SetAlarm, AlarmsNow, PendingNow
<1>14. QED  BY <1>13

\* del_timer cancels an alarm, or comes too late.
LEMMA DelTimerContract ==
  ASSUME TimerInv, NEW t \in Ids, DelTimer(t)
  PROVE  \/ t \in PendingNow /\ Contract!CancelAlarms({t})
         \/ UNCHANGED Contract!timerVars
<1>1. /\ CallerRuns /\ next_timer_id' = next_timer_id /\ current' = current
      /\ cur_frame' = cur_frame /\ ms_since_start' = ms_since_start /\ deleted' = deleted
  BY DEF DelTimer, clock
<1>2. /\ DOMAIN tasks' = DOMAIN tasks /\ t \in DOMAIN tasks /\ t \in Live
      /\ tasks'[t].is_canceled = TRUE
      /\ \A u \in DOMAIN tasks :
            /\ tasks'[u].interval = tasks[u].interval /\ tasks'[u].is_repeat = tasks[u].is_repeat
            /\ tasks'[u].timeout_ms = tasks[u].timeout_ms
            /\ tasks'[u].timeout_frame = tasks[u].timeout_frame
            /\ u # t => tasks'[u].is_canceled = tasks[u].is_canceled
  BY DEF DelTimer, TimerInv, TypeOK, Task, Live
<1>3. Live' = Live
  BY <1>1, <1>2 DEF Live
<1>4. PendingNow' = PendingNow \ {t}
  <2>1. ~Pending(t)'
    BY <1>2 DEF Pending
  <2>2. \A u \in Live \ {t} : Pending(u)' <=> Pending(u)
    BY <1>1, <1>2 DEF Pending, Live
  <2>3. QED  BY <1>3, <2>1, <2>2 DEF PendingNow
<1>5. ASSUME NEW u \in PendingNow
      PROVE  AlarmOf(u)' = AlarmOf(u)
  <2>1. u \in DOMAIN tasks
    BY DEF PendingNow, Live
  <2>2. QED  BY <1>1, <1>2, <2>1 DEF AlarmOf
<1>6. CASE t \notin PendingNow
  BY <1>1, <1>4, <1>5, <1>6, ContractStutters
<1>7. CASE t \in PendingNow
  <2>1. AlarmsNow' = [u \in DOMAIN AlarmsNow \ {t} |-> AlarmsNow[u]]
    BY <1>4, <1>5 DEF AlarmsNow
  <2>2. Contract!Quiet \/ current # -1
    BY <1>1, CallerMayCall
  <2>3. Contract!CancelAlarms({t})
    BY <1>1, <2>1, <2>2 DEF Contract!CancelAlarms, AlarmsNow, PendingNow
  <2>4. QED  BY <1>7, <2>3
<1>8. QED  BY <1>6, <1>7

\* update() lets time pass.
LEMMA UpdateContract ==
  ASSUME TimerInv, NEW d \in 0 .. MaxElapse, Update(d)
  PROVE  Contract!Pass(d)
<1>1. /\ pc = "idle" /\ ms_since_start' = ms_since_start + d /\ cur_frame' = cur_frame
      /\ tasks' = tasks /\ deleted' = deleted /\ current' = current /\ next_timer_id' = next_timer_id
  BY DEF Update
<1>2. AlarmsNow' = AlarmsNow
  <2>1. PendingNow' = PendingNow
    BY <1>1 DEF PendingNow, Pending, Live
  <2>2. \A t \in PendingNow : AlarmOf(t)' = AlarmOf(t)
    BY <1>1 DEF AlarmOf
  <2>3. QED  BY <2>1, <2>2 DEF AlarmsNow
<1>3. ms_since_start + d <= (MaxFrame + 1) * Interval + MaxElapse
  <2>1. cur_frame + 1 \in Int /\ MaxFrame + 1 \in Int /\ cur_frame + 1 <= MaxFrame + 1
    BY BoundsAssumption DEF TimerInv, TypeOK
  <2>2. (cur_frame + 1) * Interval <= (MaxFrame + 1) * Interval
    BY <2>1, IntervalAssumption, Products
  <2>3. (cur_frame + 1) * Interval \in Int /\ (MaxFrame + 1) * Interval \in Int
    BY <2>1, IntervalAssumption, Products
  <2>4. ms_since_start < (cur_frame + 1) * Interval /\ ms_since_start \in Nat
    BY <1>1, CallerMayCall DEF Contract!Quiet, TimerInv, TypeOK
  <2> DEFINE x == (cur_frame + 1) * Interval
             y == (MaxFrame + 1) * Interval
  <2>5. x \in Int /\ y \in Int /\ x <= y /\ ms_since_start < x /\ ms_since_start \in Nat
    BY <2>2, <2>3, <2>4
  <2> HIDE DEF x, y
  <2>6. ms_since_start + d <= y + MaxElapse
    BY <2>5, BoundsAssumption
  <2>7. QED  BY <2>6 DEF y
<1>4. Contract!Quiet
  BY <1>1, CallerMayCall
<1>5. QED  BY <1>1, <1>2, <1>3, <1>4 DEF Contract!Pass, AlarmsNow, PendingNow

\* A frame begins.
LEMMA TickContract ==
  ASSUME TimerInv, TickBegin
  PROVE  Contract!Tick
<1>1. /\ pc = "update" /\ left_ms >= Interval /\ cur_frame' = cur_frame + 1
      /\ ms_since_start' = ms_since_start
      /\ tasks' = tasks /\ deleted' = deleted /\ current' = current /\ next_timer_id' = next_timer_id
  BY DEF TickBegin
<1>2. current = -1 /\ running = {} /\ -1 \notin Live
  BY <1>1, BoundsAssumption DEF TimerInv, WheelsInv, TypeOK, Live
<1>3. AlarmsNow' = AlarmsNow
  <2>1. PendingNow' = PendingNow
    BY <1>1 DEF PendingNow, Pending, Live
  <2>2. ASSUME NEW t \in PendingNow
        PROVE  AlarmOf(t)' = AlarmOf(t)
    <3>1. t # current /\ t # current'
      BY <1>1, <1>2 DEF PendingNow
    <3>2. QED  BY <1>1, <3>1, AlarmSame
  <2>3. QED  BY <2>1, <2>2 DEF AlarmsNow
<1>4. (cur_frame + 1) * Interval <= ms_since_start
  <2>1. \A p \in Nat : p + left_ms = ms_since_start => p + Interval <= ms_since_start
    BY <1>1, IntervalAssumption DEF TimerInv, TypeOK
  <2>2. cur_frame * Interval + Interval <= ms_since_start
    BY <2>1, CallerMayCall, Zenon DEF TimerInv, ClockAgrees
  <2>3. QED  BY <2>2, CallerMayCall
<1>5. Contract!NothingDue
  BY <1>2, CallerMayCall
<1>6. QED  BY <1>1, <1>2, <1>3, <1>4, <1>5 DEF Contract!Tick, AlarmsNow, PendingNow

\* A callback starts: its alarm rings.
LEMMA FireContract ==
  ASSUME TimerInv, NEW t \in Ids, Fire(t)
  PROVE  t \in PendingNow /\ Contract!Ring(t)
<1>1. /\ pc = "run" /\ t \in running /\ ~tasks[t].is_canceled
      /\ \A u \in running : tasks[t].timeout_ms <= tasks[u].timeout_ms
      /\ ms_since_start' = ms_since_start /\ cur_frame' = cur_frame
      /\ tasks' = tasks /\ deleted' = deleted /\ current' = t /\ next_timer_id' = next_timer_id
  BY DEF Fire, Earliest, clock
<1>2. /\ current = -1 /\ -1 \notin Live /\ running \subseteq Live /\ t \in Live
      /\ t \in DOMAIN tasks /\ tasks[t] \in Task
  <2>1. running \subseteq Live /\ current = -1
    BY <1>1, HeldByRun DEF TimerInv, PlaceInv, WheelsInv, Wheels
  <2>2. QED  BY <1>1, <2>1, BoundsAssumption DEF Live, TimerInv, TypeOK
<1>3. t \in PendingNow
  BY <1>1, <1>2 DEF PendingNow, Pending
<1>4. Contract!Due(t)
  BY <1>1, <1>3, ContractDue
<1>5. \A u \in PendingNow : AlarmOf(u).ms = tasks[u].timeout_ms /\ AlarmOf(u).repeat = tasks[u].is_repeat
                              /\ AlarmOf(u).interval = tasks[u].interval
  BY <1>2, AlarmAsks DEF PendingNow
<1>6. \A u \in DOMAIN AlarmsNow : Contract!Due(u) => AlarmsNow[t].ms <= AlarmsNow[u].ms
  BY <1>1, <1>3, <1>5, ContractDue DEF AlarmsNow
<1>7. \A u \in PendingNow \ {t} : AlarmOf(u)' = AlarmOf(u)
  BY <1>1, <1>2, AlarmSame DEF PendingNow
<1>8. Live' = Live /\ \A u \in Live \ {t} : Pending(u)' <=> Pending(u)
  BY <1>1, <1>2 DEF Live, Pending
<1>9. CASE tasks[t].is_repeat
  <2>1. tasks[t].is_repeat = TRUE
    BY <1>2, <1>9 DEF Task
  <2>2. PendingNow' = PendingNow
    BY <1>1, <1>2, <1>3, <1>8, <1>9 DEF PendingNow, Pending
  <2>3. AlarmOf(t)' = Contract!AlarmIn(tasks[t].interval, TRUE)
    BY <1>1, <2>1 DEF AlarmOf, Contract!AlarmIn, Contract!RingFrame, Contract!Frames, Frames
  <2>4. AlarmsNow' = [AlarmsNow EXCEPT ![t] = Contract!AlarmIn(AlarmsNow[t].interval, TRUE)]
    BY <1>3, <1>5, <1>7, <2>2, <2>3 DEF AlarmsNow
  <2>5. AlarmsNow[t].repeat
    BY <1>3, <1>5, <1>9 DEF AlarmsNow
  <2>6. QED  BY <1>1, <1>2, <1>3, <1>4, <1>6, <2>4, <2>5 DEF Contract!Ring, AlarmsNow, PendingNow
<1>10. CASE ~tasks[t].is_repeat
  <2>1. PendingNow' = PendingNow \ {t}
    BY <1>1, <1>2, <1>8, <1>10 DEF PendingNow, Pending
  <2>2. AlarmsNow' = [u \in DOMAIN AlarmsNow \ {t} |-> AlarmsNow[u]]
    BY <1>7, <2>1 DEF AlarmsNow
  <2>3. ~AlarmsNow[t].repeat
    BY <1>3, <1>5, <1>10 DEF AlarmsNow
  <2>4. QED  BY <1>1, <1>2, <1>3, <1>4, <1>6, <2>2, <2>3 DEF Contract!Ring, AlarmsNow, PendingNow
<1>11. QED  BY <1>9, <1>10

\* A callback returns: the alarm it belongs to has been set again already.
LEMMA ReturnContract ==
  ASSUME TimerInv, CallbackReturns
  PROVE  Contract!Return
<1>1. PICK t, ms : t = current /\ ms = tasks[current].interval
  OBVIOUS
<1>2. /\ pc = "callback" /\ current' = -1 /\ cur_frame' = cur_frame
      /\ ms_since_start' = ms_since_start /\ next_timer_id' = next_timer_id
      /\ IF tasks[t].is_repeat
         THEN /\ tasks' = [tasks EXCEPT ![t].timeout_frame = cur_frame + Frames(ms),
                                        ![t].timeout_ms = cur_frame * Interval + ms]
              /\ deleted' = deleted
         ELSE tasks' = tasks /\ deleted' = deleted \cup {t}
  BY <1>1 DEF CallbackReturns, clock
<1>3. /\ t # -1 /\ t \in Live /\ t \in DOMAIN tasks /\ tasks[t] \in Task /\ -1 \notin Live
  <2>1. current # -1
    BY <1>2 DEF TimerInv, WheelsInv
  <2>2. QED  BY <1>1, <2>1, CurrentLives, BoundsAssumption DEF Live, TimerInv, TypeOK
<1>4. ASSUME NEW u \in PendingNow \ {t}, tasks'[u] = tasks[u]
      PROVE  AlarmOf(u)' = AlarmOf(u)
  <2>1. u # current /\ u # current'
    BY <1>1, <1>2, <1>3 DEF PendingNow
  <2>2. QED  BY <1>4, <2>1, AlarmSame
<1>5. AlarmsNow' = AlarmsNow
  <2>1. CASE tasks[t].is_repeat
    <3>1. /\ DOMAIN tasks' = DOMAIN tasks
          /\ \A u \in DOMAIN tasks \ {t} : tasks'[u] = tasks[u]
          /\ tasks'[t].interval = ms /\ tasks'[t].is_repeat = tasks[t].is_repeat
          /\ tasks'[t].is_canceled = tasks[t].is_canceled
          /\ tasks'[t].timeout_ms = cur_frame * Interval + ms
          /\ tasks'[t].timeout_frame = cur_frame + Frames(ms)
      <4> DEFINE at == cur_frame * Interval + ms
                 af == cur_frame + Frames(ms)
      <4>1. tasks' = [tasks EXCEPT ![t].timeout_frame = af, ![t].timeout_ms = at]
        BY <1>2, <2>1
      <4> HIDE DEF at, af
      <4>2. DOMAIN tasks' = DOMAIN tasks /\ \A u \in DOMAIN tasks \ {t} : tasks'[u] = tasks[u]
        BY <4>1
      <4>3. tasks'[t] = [tasks[t] EXCEPT !.timeout_frame = af, !.timeout_ms = at]
        BY <1>3, <4>1
      <4>4. /\ tasks'[t].interval = tasks[t].interval /\ tasks'[t].is_repeat = tasks[t].is_repeat
            /\ tasks'[t].is_canceled = tasks[t].is_canceled
            /\ tasks'[t].timeout_ms = at /\ tasks'[t].timeout_frame = af
        BY <1>3, <4>3 DEF Task
      <4>5. QED  BY <1>1, <4>2, <4>4 DEF at, af
    <3>2. PendingNow' = PendingNow
      BY <1>1, <1>2, <1>3, <2>1, <3>1 DEF PendingNow, Live, Pending
    <3>3. AlarmOf(t)' = AlarmOf(t)
      BY <1>1, <1>2, <1>3, <3>1 DEF AlarmOf
    <3>4. \A u \in PendingNow : AlarmOf(u)' = AlarmOf(u)
      BY <1>4, <3>1, <3>3 DEF PendingNow, Live
    <3>5. QED  BY <3>2, <3>4 DEF AlarmsNow
  <2>2. CASE ~tasks[t].is_repeat
    <3>1. t \notin PendingNow
      BY <1>1, <2>2 DEF PendingNow, Pending
    <3>2. PendingNow' = PendingNow
      BY <1>1, <1>2, <1>3, <2>2 DEF PendingNow, Live, Pending
    <3>3. \A u \in PendingNow : AlarmOf(u)' = AlarmOf(u)
      BY <1>2, <1>4, <2>2, <3>1
    <3>4. QED  BY <3>2, <3>3 DEF AlarmsNow
  <2>3. QED  BY <2>1, <2>2
<1>6. QED  BY <1>1, <1>2, <1>3, <1>5 DEF Contract!Return, AlarmsNow, PendingNow

\* Turning, freeing and handing down go unnoticed.
LEMMA OtherContract ==
  ASSUME TimerInv,
         \/ UpdateDone \/ RunDone \/ (\E w \in {1, 2} : Cascade(w))
         \/ (\E t \in Ids : DropCanceled(t)) \/ Bounded \/ UNCHANGED vars
  PROVE  UNCHANGED Contract!timerVars
<1>1. CASE \E t \in Ids : DropCanceled(t)
  <2>1. PICK t \in Ids : DropCanceled(t)
    BY <1>1
  <2>2. /\ tasks[t].is_canceled /\ deleted' = deleted \cup {t} /\ tasks' = tasks
        /\ cur_frame' = cur_frame /\ ms_since_start' = ms_since_start
        /\ current' = current /\ next_timer_id' = next_timer_id
    BY <2>1 DEF DropCanceled, clock
  <2>3. PendingNow' = PendingNow
    BY <2>2 DEF PendingNow, Pending, Live
  <2>4. \A u \in PendingNow : AlarmOf(u)' = AlarmOf(u)
    BY <2>2 DEF AlarmOf
  <2>5. QED  BY <2>2, <2>3, <2>4, ContractStutters
<1>2. CASE UpdateDone \/ RunDone \/ (\E w \in {1, 2} : Cascade(w)) \/ Bounded \/ UNCHANGED vars
  <2>1. /\ deleted' = deleted /\ tasks' = tasks
        /\ cur_frame' = cur_frame /\ ms_since_start' = ms_since_start
        /\ current' = current /\ next_timer_id' = next_timer_id
    BY <1>2 DEF UpdateDone, RunDone, Cascade, Bounded, vars, clock
  <2>2. PendingNow' = PendingNow
    BY <2>1 DEF PendingNow, Pending, Live
  <2>3. \A u \in PendingNow : AlarmOf(u)' = AlarmOf(u)
    BY <2>1 DEF AlarmOf
  <2>4. QED  BY <2>1, <2>2, <2>3, ContractStutters
<1>3. QED  BY <1>1, <1>2

\* Every behaviour of the wheels is one of Timers, so what the server is promised of its
\* timers holds for any number of slots, delays and timers: apart from the alarms that are
\* a turn late, each rings in the frame it asked for, in order, unless it was cancelled,
\* and no handler runs while one is due (wheel_timer.cpp, all of it).
THEOREM WheelsKeepContract == Spec => KeepsContract
<1>1. Init => Contract!TimersInit
  <2> SUFFICES ASSUME Init PROVE Contract!TimersInit
    OBVIOUS
  <2>1. PendingNow = {}
    BY DEF Init, PendingNow, Live
  <2>2. AlarmsNow = [t \in {} |-> 0]
    BY <2>1 DEF AlarmsNow
  <2>3. QED  BY <2>2 DEF Init, Contract!TimersInit, AlarmsNow, PendingNow
<1>2. TimerInv /\ [Next]_vars => [Contract!TimersNext]_Contract!timerVars
  <2> SUFFICES ASSUME TimerInv, [Next]_vars
               PROVE  Contract!TimersNext \/ UNCHANGED Contract!timerVars
    OBVIOUS
  <2>1. CASE AddTimer
    BY <2>1, AddTimerContract DEF Contract!TimersNext
  <2>2. ASSUME NEW t \in Ids, DelTimer(t)
        PROVE  Contract!TimersNext \/ UNCHANGED Contract!timerVars
    BY <2>2, DelTimerContract DEF Contract!TimersNext, PendingNow
  <2>3. ASSUME NEW d \in 0 .. MaxElapse, Update(d)
        PROVE  Contract!TimersNext
    BY <2>3, UpdateContract DEF Contract!TimersNext
  <2>4. CASE TickBegin
    BY <2>4, TickContract DEF Contract!TimersNext
  <2>5. ASSUME NEW t \in Ids, Fire(t)
        PROVE  Contract!TimersNext
    BY <2>5, FireContract DEF Contract!TimersNext, PendingNow
  <2>6. CASE CallbackReturns
    BY <2>6, ReturnContract DEF Contract!TimersNext
  <2>7. QED  BY <2>1, <2>2, <2>3, <2>4, <2>5, <2>6, OtherContract DEF Next
<1>3. QED  BY <1>1, <1>2, TimerAlwaysRight, PTL DEF Spec, KeepsContract, Contract!TimersSpec

=============================================================================
