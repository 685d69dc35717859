--------------------------- MODULE SessionsProofs ---------------------------
(* Proofs about Combat and Sessions, for any number of connections, names, entities *)
(* and timers and all delays, cooldowns, costs and ranges the assumptions allow.    *)
EXTENDS Sessions, TLAPS

-----------------------------------------------------------------------------
(* Frames and milliseconds *)

\* A delay takes a frame at least.
LEMMA FramesType ==
  ASSUME NEW ms \in Nat
  PROVE  Frames(ms) \in Nat \ {0}
  BY IntervalAssumption DEF Frames

\* More frames are more milliseconds.
LEMMA FramesMonotonic ==
  ASSUME NEW m \in Nat, NEW n \in Nat, m <= n
  PROVE  m * Interval <= n * Interval /\ m * Interval \in Nat
<1>1. Interval \in Nat
  BY IntervalAssumption
<1>2. QED  BY <1>1

\* Frames add up.
LEMMA FramesAdd ==
  ASSUME NEW m \in Nat, NEW n \in Nat
  PROVE  /\ (m + n) * Interval = m * Interval + n * Interval
         /\ (m + 1) * Interval = m * Interval + Interval
<1>1. Interval \in Nat
  BY IntervalAssumption
<1>2. QED  BY <1>1

\* The frames of an attack's delay are over by the end of its cooldown.
LEMMA AttackFrames == Frames(AttackDelay) * Interval <= AttackCooldown
<1>1. Interval \in Nat \ {0} /\ AttackCooldown \in Nat /\ AttackDelay \in Nat
  BY IntervalAssumption, CombatConstants, DelaysOfEffects, DelaysAssumption
<1>2. AttackCooldown \div Interval \in Nat /\ (AttackCooldown \div Interval) * Interval <= AttackCooldown
  BY <1>1
<1>3. Frames(AttackDelay) * Interval <= (AttackCooldown \div Interval) * Interval
  BY <1>1, <1>2, FramesType, FramesMonotonic, AttackFitsCooldown
<1>4. Frames(AttackDelay) * Interval \in Nat
  BY <1>1, FramesType, FramesMonotonic
<1>5. (AttackCooldown \div Interval) * Interval \in Nat
  BY <1>1, <1>2
<1>6. QED  BY <1>1, <1>2, <1>3, <1>4, <1>5

-----------------------------------------------------------------------------
(* The invariant of Combat *)

\* No effect repeats.
OneShot == \A t \in DOMAIN alarms : ~alarms[t].repeat

\* A timer an entity remembers is pending and its own.
Remembered ==
    \A e \in DOMAIN fighters :
        /\ fighters[e].attack_timer # -1 =>
              /\ fighters[e].attack_timer \in DOMAIN jobs
              /\ jobs[fighters[e].attack_timer].owner = e
              /\ jobs[fighters[e].attack_timer].kind = "attack"
        /\ fighters[e].effect_timer # -1 =>
              /\ fighters[e].effect_timer \in DOMAIN jobs
              /\ jobs[fighters[e].effect_timer].owner = e
              /\ jobs[fighters[e].effect_timer].kind = "skill"

\* The frame in which an attack lands begins before the cooldown of its owner ends.
AttacksLand ==
    \A t \in DOMAIN jobs :
        jobs[t].kind = "attack" =>
            alarms[t].frame * Interval <= fighters[jobs[t].owner].next_attack

CombatInv ==
    /\ CombatTypeOK
    /\ next_eid > 1
    /\ frame * Interval <= now
    /\ OneShot
    /\ EffectsHaveOwners
    /\ ActiveWhilePending
    /\ Remembered
    /\ AttacksLand

\* A timer that is remembered is pending.
LEMMA RememberedIsNotStale == CombatTypeOK /\ Remembered => NoStaleTimer
  BY DEF CombatTypeOK, Remembered, NoStaleTimer, TimersOf

\* The cooldown is enough: when an entity may attack, its last attack has landed.
LEMMA LandedBeforeNext ==
  ASSUME CombatInv, Handling, NEW e \in DOMAIN fighters, MayAttack(fighters[e])
  PROVE  fighters[e].attack_timer = -1
<1> SUFFICES ASSUME fighters[e].attack_timer # -1 PROVE FALSE
  OBVIOUS
<1> DEFINE t == fighters[e].attack_timer
<1>1. t \in DOMAIN jobs /\ jobs[t].kind = "attack" /\ jobs[t].owner = e
  BY DEF CombatInv, Remembered
<1>2. alarms[t].frame * Interval <= fighters[e].next_attack
  BY <1>1 DEF CombatInv, AttacksLand
<1>3. /\ t \in DOMAIN alarms /\ alarms[t].frame \in Nat /\ frame \in Nat /\ now \in Nat
      /\ fighters[e].next_attack \in Nat
  <2>1. fighters[e] \in Fighter /\ t \in DOMAIN alarms /\ frame \in Nat /\ now \in Nat
    BY <1>1 DEF CombatInv, CombatTypeOK
  <2>2. alarms[t] \in [interval : Nat, ms : Nat, frame : Nat, repeat : BOOLEAN]
    BY <2>1 DEF CombatInv, CombatTypeOK
  <2>3. QED  BY <2>1, <2>2 DEF Fighter
<1>4. alarms[t].frame > frame
  BY <1>3 DEF Handling, Quiet, NothingDue, Due
<1>5. (frame + 1) * Interval <= alarms[t].frame * Interval
  BY <1>3, <1>4, FramesMonotonic
<1>6. /\ (frame + 1) * Interval \in Nat
      /\ alarms[t].frame * Interval \in Nat
  BY <1>3, FramesMonotonic
<1>7. now < (frame + 1) * Interval /\ now >= fighters[e].next_attack
  BY DEF Handling, Quiet, MayAttack
<1> HIDE DEF t
<1>8. QED  BY <1>2, <1>3, <1>5, <1>6, <1>7
-----------------------------------------------------------------------------
(* Types *)

Alarm == [interval : Nat, ms : Nat, frame : Nat, repeat : BOOLEAN]

\* A timer started from now.
LEMMA AlarmInType ==
  ASSUME frame \in Nat, NEW ms \in Delays, NEW repeat \in BOOLEAN
  PROVE  AlarmIn(ms, repeat) \in Alarm
<1>1. ms \in Nat /\ Frames(ms) \in Nat /\ Turn \in Nat
  BY DelaysAssumption, FramesType, IntervalAssumption
<1>2. frame * Interval \in Nat
  BY FramesMonotonic
<1>3. RingFrame(frame + Frames(ms), Frames(ms)) \in Nat
  BY <1>1 DEF RingFrame
<1>4. frame * Interval + ms \in Nat
  BY <1>1, <1>2
<1>5. QED  BY <1>1, <1>3, <1>4 DEF AlarmIn, Alarm

\* An attack asks for the frame it gets.
LEMMA AttackAlarm ==
  ASSUME frame \in Nat
  PROVE  AlarmIn(AttackDelay, FALSE).frame = frame + Frames(AttackDelay)
<1>1. AttackDelay \in Nat /\ Turn \in Nat
  BY DelaysAssumption, DelaysOfEffects, IntervalAssumption
<1>2. Frames(AttackDelay) \in Nat /\ ~(Frames(AttackDelay) >= Turn)
  BY <1>1, FramesType, AttackWithinTurn
<1>3. RingFrame(frame + Frames(AttackDelay), Frames(AttackDelay)) = frame + Frames(AttackDelay)
  BY <1>2 DEF RingFrame
<1>4. QED  BY <1>3 DEF AlarmIn

\* A fighter that has just entered.
LEMMA NewFighterType == NewFighter \in Fighter
<1>1. MaxHealth \in Nat /\ MaxMana \in Nat
  BY CombatConstants
<1>2. QED  BY <1>1 DEF NewFighter, Fighter

\* A hit takes health only, and keeps it in its range.
LEMMA HurtType ==
  ASSUME NEW f \in Fighter
  PROVE  /\ Hurt(f) \in Fighter
         /\ Hurt(f).in_space = f.in_space
         /\ Hurt(f).next_attack = f.next_attack
         /\ Hurt(f).attack_timer = f.attack_timer
         /\ Hurt(f).skill = f.skill
         /\ Hurt(f).effect_timer = f.effect_timer
<1>1. Damage \in Nat /\ MaxHealth \in Nat /\ f.health \in 0 .. MaxHealth
  BY CombatConstants DEF Fighter
<1>2. (IF f.health - Damage < 0 THEN 0 ELSE f.health - Damage) \in 0 .. MaxHealth
  BY <1>1
<1>3. QED  BY <1>2 DEF Hurt, Fighter

\* A fighter whose attack or skill has ended.
LEMMA FinishedType ==
  ASSUME NEW f \in Fighter, NEW kind \in {"attack", "skill"}
  PROVE  /\ Finished(f, kind) \in Fighter
         /\ Finished(f, kind).in_space = f.in_space
         /\ Finished(f, kind).next_attack = f.next_attack
         /\ kind = "attack" => /\ Finished(f, kind).attack_timer = -1
                               /\ Finished(f, kind).effect_timer = f.effect_timer
                               /\ Finished(f, kind).skill = f.skill
         /\ kind = "skill" => /\ Finished(f, kind).attack_timer = f.attack_timer
                              /\ Finished(f, kind).effect_timer = -1
                              /\ Finished(f, kind).skill = "done"
<1>1. CASE kind = "attack"
  BY <1>1 DEF Finished, Fighter
<1>2. CASE kind = "skill"
  BY <1>2 DEF Finished, Fighter
<1>3. QED  BY <1>1, <1>2

-----------------------------------------------------------------------------
(* The steps of Combat *)

\* No timers, no fighters.
LEMMA InitCombatInv == CombatInit => CombatInv
<1> SUFFICES ASSUME CombatInit PROVE CombatInv
  OBVIOUS
<1> USE DEF CombatInit, TimersInit
<1>1. fighters[1] = [NewFighter EXCEPT !.in_space = TRUE] /\ DOMAIN fighters = {1}
  OBVIOUS
<1>2. [NewFighter EXCEPT !.in_space = TRUE] \in Fighter
  BY NewFighterType DEF Fighter
<1>3. /\ fighters[1].attack_timer = -1 /\ fighters[1].effect_timer = -1
      /\ fighters[1].skill = "none"
  BY <1>1 DEF NewFighter
<1>4. CombatTypeOK
  BY <1>1, <1>2 DEF CombatTypeOK
<1>5. ActiveWhilePending /\ Remembered
  BY <1>1, <1>3 DEF ActiveWhilePending, Remembered
<1>6. OneShot /\ EffectsHaveOwners /\ AttacksLand
  BY DEF OneShot, EffectsHaveOwners, AttacksLand
<1>7. frame * Interval <= now /\ next_eid > 1
  BY IntervalAssumption
<1>8. QED  BY <1>4, <1>5, <1>6, <1>7 DEF CombatInv

\* Someone new has no timers.
LEMMA SpawnCombatInv ==
  ASSUME CombatInv, Spawn
  PROVE  CombatInv'
<1> USE DEF CombatInv
<1>1. UNCHANGED <<now, frame, alarms, next_id, ringing, jobs, fault>>
  BY DEF Spawn, timerVars
<1>2. /\ next_eid \in Nat /\ next_eid' = next_eid + 1
      /\ DOMAIN fighters \subseteq 1 .. next_eid - 1 /\ next_eid > 1
  BY DEF CombatTypeOK, Spawn
<1>3. /\ DOMAIN fighters' = DOMAIN fighters \cup {next_eid}
      /\ fighters'[next_eid] = NewFighter
      /\ \A e \in DOMAIN fighters : fighters'[e] = fighters[e]
  BY <1>2 DEF Spawn, gen_eid
<1>4. CombatTypeOK'
  <2>1. DOMAIN fighters' \subseteq 1 .. next_eid' - 1
    BY <1>2, <1>3
  <2>2. \A e \in DOMAIN fighters' : fighters'[e] \in Fighter
    BY <1>3, NewFighterType DEF CombatTypeOK
  <2>3. QED  BY <1>1, <1>2, <2>1, <2>2 DEF CombatTypeOK
<1>5. EffectsHaveOwners' /\ AttacksLand' /\ OneShot'
  BY <1>1, <1>3 DEF EffectsHaveOwners, AttacksLand, OneShot, InSpace
<1>6. ActiveWhilePending' /\ Remembered'
  BY <1>1, <1>3 DEF ActiveWhilePending, Remembered, NewFighter
<1>7. QED  BY <1>1, <1>2, <1>4, <1>5, <1>6

\* Who enters has no timer yet.
LEMMA EnterSpaceCombatInv ==
  ASSUME CombatInv, NEW e \in Nat, EnterSpace(e)
  PROVE  CombatInv'
<1> USE DEF CombatInv
<1>1. UNCHANGED <<now, frame, alarms, next_id, next_eid, ringing, jobs, fault>>
  BY DEF EnterSpace, timerVars
<1>2. e \in DOMAIN fighters /\ fighters[e] \in Fighter
  BY DEF CombatTypeOK, EnterSpace
<1>3. /\ DOMAIN fighters' = DOMAIN fighters
      /\ \A x \in DOMAIN fighters :
            /\ fighters'[x] \in Fighter
            /\ fighters[x].in_space => fighters'[x].in_space
            /\ fighters'[x].next_attack = fighters[x].next_attack
            /\ fighters'[x].attack_timer = fighters[x].attack_timer
            /\ fighters'[x].effect_timer = fighters[x].effect_timer
            /\ fighters'[x].skill = fighters[x].skill
  BY <1>2 DEF EnterSpace, CombatTypeOK, Fighter
<1>4. CombatTypeOK'
  BY <1>1, <1>3 DEF CombatTypeOK
<1>5. EffectsHaveOwners' /\ AttacksLand' /\ OneShot'
  BY <1>1, <1>3 DEF EffectsHaveOwners, AttacksLand, OneShot, InSpace
<1>6. ActiveWhilePending' /\ Remembered'
  BY <1>1, <1>3 DEF ActiveWhilePending, Remembered
<1>7. QED  BY <1>1, <1>4, <1>5, <1>6

\* The timers of those who go are cancelled, and only those.
LEMMA DespawnCombatInv ==
  ASSUME CombatInv, NEW gone, Despawn(gone)
  PROVE  CombatInv'
<1> USE DEF CombatInv
<1> DEFINE cancelled == UNION {TimersOf(fighters[e]) : e \in gone}
<1>1. /\ UNCHANGED <<now, frame, next_id, next_eid, ringing, fault>>
      /\ alarms' = [t \in DOMAIN alarms \ cancelled |-> alarms[t]]
      /\ jobs' = [t \in DOMAIN jobs \ cancelled |-> jobs[t]]
      /\ fighters' = [e \in DOMAIN fighters \ gone |-> fighters[e]]
  BY DEF Despawn, CancelAlarms, Without
<1>2. CombatTypeOK'
  BY <1>1 DEF CombatTypeOK
<1>3. ASSUME NEW t \in DOMAIN jobs'
      PROVE  jobs[t].owner \in DOMAIN fighters'
  <2>1. t \in DOMAIN jobs /\ t \notin cancelled
    BY <1>1
  <2>2. /\ jobs[t].owner \in DOMAIN fighters /\ t # -1
        /\ t \in {fighters[jobs[t].owner].attack_timer, fighters[jobs[t].owner].effect_timer}
    BY <2>1 DEF EffectsHaveOwners, InSpace, CombatTypeOK
  <2>3. t \in TimersOf(fighters[jobs[t].owner])
    BY <2>2 DEF TimersOf
  <2>4. jobs[t].owner \notin gone
    BY <2>1, <2>3
  <2>5. QED  BY <1>1, <2>2, <2>4
<1>4. EffectsHaveOwners' /\ AttacksLand' /\ OneShot'
  BY <1>1, <1>3 DEF EffectsHaveOwners, AttacksLand, OneShot, InSpace, CombatTypeOK
<1>5. ASSUME NEW e \in DOMAIN fighters', NEW t \in DOMAIN jobs, jobs[t].owner = e
      PROVE  t \in DOMAIN jobs'
  <2>1. SUFFICES ASSUME t \in cancelled PROVE FALSE
    BY <1>1
  <2>2. PICK d \in gone : t \in TimersOf(fighters[d])
    BY <2>1
  <2>3. d \in DOMAIN fighters
    BY DEF Despawn
  <2>4. jobs[t].owner = d
    BY <2>2, <2>3 DEF Remembered, TimersOf
  <2>5. QED  BY <1>1, <1>5, <2>4
<1>6. Remembered'
  BY <1>1, <1>5 DEF Remembered
<1>7. ActiveWhilePending'
  BY <1>1 DEF ActiveWhilePending
<1>8. QED  BY <1>1, <1>2, <1>4, <1>6, <1>7
\* What a new timer changes.
LEMMA Scheduled ==
  ASSUME CombatInv, NEW e \in DOMAIN fighters, NEW kind \in {"attack", "skill"},
         NEW delay \in Delays, Schedule(e, kind, delay)
  PROVE  /\ UNCHANGED <<now, frame, next_eid, ringing, fault>>
         /\ next_id \in Nat /\ next_id' = next_id + 1 /\ next_id \notin DOMAIN alarms
         /\ DOMAIN alarms' = DOMAIN alarms \cup {next_id}
         /\ alarms'[next_id] = AlarmIn(delay, FALSE)
         /\ \A t \in DOMAIN alarms : alarms'[t] = alarms[t]
         /\ DOMAIN jobs' = DOMAIN alarms'
         /\ jobs'[next_id].owner = e /\ jobs'[next_id].kind = kind
         /\ \A t \in DOMAIN jobs : jobs'[t] = jobs[t]
         /\ DOMAIN alarms' \subseteq 0 .. next_id' - 1
         /\ \A t \in DOMAIN alarms' : alarms'[t] \in Alarm
         /\ \A t \in DOMAIN jobs' :
               jobs'[t] \in [owner : Nat \ {0}, kind : {"attack", "skill"}]
         /\ OneShot'
<1> USE DEF CombatInv, CombatTypeOK
<1>1. UNCHANGED <<now, frame, next_eid, ringing, fault>>
  BY DEF Schedule, SetAlarm
<1>2. next_id \in Nat /\ next_id' = next_id + 1 /\ next_id \notin DOMAIN alarms
  BY DEF Schedule, SetAlarm
<1>3. /\ DOMAIN alarms' = DOMAIN alarms \cup {next_id}
      /\ alarms'[next_id] = AlarmIn(delay, FALSE)
      /\ \A t \in DOMAIN alarms : alarms'[t] = alarms[t]
  BY <1>2 DEF Schedule, SetAlarm
<1>4. /\ DOMAIN jobs' = DOMAIN alarms'
      /\ jobs'[next_id] = [owner |-> e, kind |-> kind]
      /\ \A t \in DOMAIN jobs : jobs'[t] = jobs[t]
  BY <1>2, <1>3 DEF Schedule
<1>5. jobs'[next_id].owner = e /\ jobs'[next_id].kind = kind
  BY <1>4
<1>6. DOMAIN alarms' \subseteq 0 .. next_id' - 1
  BY <1>2, <1>3
<1>7. AlarmIn(delay, FALSE) \in Alarm
  BY AlarmInType
<1>8. \A t \in DOMAIN alarms' : alarms'[t] \in Alarm
  BY <1>3, <1>7 DEF Alarm
<1>9. [owner |-> e, kind |-> kind] \in [owner : Nat \ {0}, kind : {"attack", "skill"}]
  OBVIOUS
<1>10. \A t \in DOMAIN jobs' : jobs'[t] \in [owner : Nat \ {0}, kind : {"attack", "skill"}]
  BY <1>3, <1>4, <1>9
<1>11. AlarmIn(delay, FALSE).repeat = FALSE
  BY DEF AlarmIn
<1>12. OneShot'
  BY <1>3, <1>11 DEF OneShot
<1>13. QED  BY <1>1, <1>2, <1>3, <1>4, <1>5, <1>6, <1>8, <1>10, <1>12

\* An assertion ends the process and changes nothing else.
LEMMA AssertionCombatInv ==
  ASSUME CombatInv, NEW e, AssertionFails(e)
  PROVE  CombatInv'
<1>1. UNCHANGED <<now, frame, alarms, next_id, ringing, fighters, next_eid, jobs>>
      /\ fault' = "assertion"
  BY DEF AssertionFails, timerVars
<1>2. QED  BY <1>1 DEF CombatInv, CombatTypeOK, OneShot, EffectsHaveOwners, ActiveWhilePending,
                       Remembered, AttacksLand, InSpace, Fighter

\* The new attack's timer overwrites none that is pending.
LEMMA AttackCombatInv ==
  ASSUME CombatInv, NEW e \in Nat, NormalAttack(e)
  PROVE  CombatInv'
<1> USE DEF CombatInv
<1> SUFFICES ASSUME ~AssertionFails(e) PROVE CombatInv'
  BY AssertionCombatInv
<1>1. /\ Handling /\ e \in DOMAIN fighters /\ fighters[e].in_space
      /\ MayAttack(fighters[e])
      /\ Schedule(e, "attack", AttackDelay)
      /\ fighters' = [fighters EXCEPT ![e].next_attack  = now + AttackCooldown,
                                      ![e].attack_timer = next_id]
  BY DEF NormalAttack
<1>2. AttackDelay \in Delays /\ AttackCooldown \in Nat
  BY DelaysOfEffects, CombatConstants
<1>3. /\ UNCHANGED <<now, frame, next_eid, ringing, fault>>
      /\ next_id \in Nat /\ next_id' = next_id + 1 /\ next_id \notin DOMAIN alarms
      /\ DOMAIN alarms' = DOMAIN alarms \cup {next_id}
      /\ alarms'[next_id] = AlarmIn(AttackDelay, FALSE)
      /\ \A t \in DOMAIN alarms : alarms'[t] = alarms[t]
      /\ DOMAIN jobs' = DOMAIN alarms'
      /\ jobs'[next_id].owner = e /\ jobs'[next_id].kind = "attack"
      /\ \A t \in DOMAIN jobs : jobs'[t] = jobs[t]
      /\ DOMAIN alarms' \subseteq 0 .. next_id' - 1
      /\ \A t \in DOMAIN alarms' : alarms'[t] \in Alarm
      /\ \A t \in DOMAIN jobs' : jobs'[t] \in [owner : Nat \ {0}, kind : {"attack", "skill"}]
      /\ OneShot'
  BY <1>1, <1>2, Scheduled
<1>4. fighters[e].attack_timer = -1
  BY <1>1, LandedBeforeNext
<1>5. now \in Nat /\ now + AttackCooldown \in Nat
  BY <1>2 DEF CombatTypeOK
<1>6. fighters[e] \in Fighter
  BY <1>1 DEF CombatTypeOK
<1>7. /\ DOMAIN fighters' = DOMAIN fighters
      /\ \A x \in DOMAIN fighters : x # e => fighters'[x] = fighters[x]
      /\ fighters'[e] \in Fighter
      /\ fighters'[e].in_space = fighters[e].in_space
      /\ fighters'[e].skill = fighters[e].skill
      /\ fighters'[e].effect_timer = fighters[e].effect_timer
      /\ fighters'[e].next_attack = now + AttackCooldown
      /\ fighters'[e].attack_timer = next_id
  BY <1>1, <1>3, <1>5, <1>6 DEF Fighter
<1>8. CombatTypeOK'
  BY <1>3, <1>7 DEF CombatTypeOK, Alarm
<1>9. ASSUME NEW t \in DOMAIN jobs
      PROVE  t # next_id /\ ~(jobs[t].kind = "attack" /\ jobs[t].owner = e)
  BY <1>3, <1>4 DEF EffectsHaveOwners, CombatTypeOK
<1>10. EffectsHaveOwners'
  <2> SUFFICES ASSUME NEW t \in DOMAIN jobs'
               PROVE  /\ jobs'[t].owner \in InSpace'
                      /\ t = (IF jobs'[t].kind = "attack"
                              THEN fighters'[jobs'[t].owner].attack_timer
                              ELSE fighters'[jobs'[t].owner].effect_timer)
    BY DEF EffectsHaveOwners
  <2>1. CASE t = next_id
    BY <1>1, <1>3, <1>7, <2>1 DEF InSpace
  <2>2. CASE t # next_id
    <3>1. t \in DOMAIN jobs /\ jobs'[t] = jobs[t]
      BY <1>3, <2>2 DEF CombatTypeOK
    <3>2. QED  BY <1>7, <1>9, <3>1 DEF EffectsHaveOwners, InSpace
  <2>3. QED  BY <2>1, <2>2
<1>11. AttacksLand'
  <2> SUFFICES ASSUME NEW t \in DOMAIN jobs', jobs'[t].kind = "attack"
               PROVE  alarms'[t].frame * Interval <= fighters'[jobs'[t].owner].next_attack
    BY DEF AttacksLand
  <2>1. CASE t = next_id
    <3>1. frame \in Nat /\ Frames(AttackDelay) \in Nat
      BY <1>2, FramesType, DelaysAssumption DEF CombatTypeOK
    <3>2. alarms'[t].frame = frame + Frames(AttackDelay)
      BY <1>3, <2>1, <3>1, AttackAlarm
    <3>3. (frame + Frames(AttackDelay)) * Interval
             = frame * Interval + Frames(AttackDelay) * Interval
      BY <3>1, FramesAdd
    <3>4. frame * Interval \in Nat /\ Frames(AttackDelay) * Interval \in Nat
      BY <3>1, FramesMonotonic
    <3>5. (frame + Frames(AttackDelay)) * Interval <= now + AttackCooldown
      BY <1>2, <1>5, <3>3, <3>4, AttackFrames
    <3>6. QED  BY <1>3, <1>7, <2>1, <3>2, <3>5
  <2>2. CASE t # next_id
    <3>1. t \in DOMAIN jobs /\ jobs'[t] = jobs[t] /\ alarms'[t] = alarms[t]
      BY <1>3, <2>2 DEF CombatTypeOK
    <3>2. jobs[t].owner # e /\ jobs[t].owner \in DOMAIN fighters
      BY <1>9, <3>1 DEF EffectsHaveOwners, InSpace
    <3>3. QED  BY <1>7, <3>1, <3>2 DEF AttacksLand
  <2>3. QED  BY <2>1, <2>2
<1>12. ActiveWhilePending'
  BY <1>1, <1>7 DEF ActiveWhilePending
<1>13. Remembered'
  BY <1>1, <1>3, <1>7 DEF Remembered, CombatTypeOK
<1>14. QED  BY <1>3, <1>8, <1>10, <1>11, <1>12, <1>13

\* A skill is only cast when its last effect has landed.
LEMMA CastCombatInv ==
  ASSUME CombatInv, NEW e \in Nat, CastSkill(e)
  PROVE  CombatInv'
<1> USE DEF CombatInv
<1> SUFFICES ASSUME ~AssertionFails(e) PROVE CombatInv'
  BY AssertionCombatInv
<1>1. /\ e \in DOMAIN fighters /\ fighters[e].in_space
      /\ CanCast(fighters[e])
      /\ Schedule(e, "skill", SkillDelay)
      /\ fighters' = [fighters EXCEPT ![e].mana = @ - SkillCost,
                                      ![e].next_cast = now + SkillCooldown,
                                      ![e].skill = Instance(@),
                                      ![e].effect_timer = next_id]
  BY DEF CastSkill
<1>2. SkillDelay \in Delays /\ SkillCooldown \in Nat /\ SkillCost \in Nat /\ MaxMana \in Nat
  BY DelaysOfEffects, CombatConstants
<1>3. /\ UNCHANGED <<now, frame, next_eid, ringing, fault>>
      /\ next_id \in Nat /\ next_id' = next_id + 1 /\ next_id \notin DOMAIN alarms
      /\ DOMAIN alarms' = DOMAIN alarms \cup {next_id}
      /\ \A t \in DOMAIN alarms : alarms'[t] = alarms[t]
      /\ DOMAIN jobs' = DOMAIN alarms'
      /\ jobs'[next_id].owner = e /\ jobs'[next_id].kind = "skill"
      /\ \A t \in DOMAIN jobs : jobs'[t] = jobs[t]
      /\ DOMAIN alarms' \subseteq 0 .. next_id' - 1
      /\ \A t \in DOMAIN alarms' : alarms'[t] \in Alarm
      /\ \A t \in DOMAIN jobs' : jobs'[t] \in [owner : Nat \ {0}, kind : {"attack", "skill"}]
      /\ OneShot'
  BY <1>1, <1>2, Scheduled
<1>4. fighters[e].effect_timer = -1
  BY <1>1 DEF CanCast, ActiveWhilePending
<1>5. now \in Nat /\ now + SkillCooldown \in Nat
  BY <1>2 DEF CombatTypeOK
<1>6. fighters[e] \in Fighter
  BY <1>1 DEF CombatTypeOK
<1>7. fighters[e].mana - SkillCost \in 0 .. MaxMana
  BY <1>1, <1>2, <1>6 DEF CanCast, Fighter
<1>8. /\ DOMAIN fighters' = DOMAIN fighters
      /\ \A x \in DOMAIN fighters : x # e => fighters'[x] = fighters[x]
      /\ fighters'[e] \in Fighter
      /\ fighters'[e].in_space = fighters[e].in_space
      /\ fighters'[e].skill = "active"
      /\ fighters'[e].effect_timer = next_id
      /\ fighters'[e].next_attack = fighters[e].next_attack
      /\ fighters'[e].attack_timer = fighters[e].attack_timer
  BY <1>1, <1>3, <1>5, <1>6, <1>7 DEF Fighter, Instance
<1>9. CombatTypeOK'
  BY <1>3, <1>8 DEF CombatTypeOK, Alarm
<1>10. ASSUME NEW t \in DOMAIN jobs
       PROVE  t # next_id /\ ~(jobs[t].kind = "skill" /\ jobs[t].owner = e)
  BY <1>3, <1>4 DEF EffectsHaveOwners, CombatTypeOK
<1>11. EffectsHaveOwners'
  <2> SUFFICES ASSUME NEW t \in DOMAIN jobs'
               PROVE  /\ jobs'[t].owner \in InSpace'
                      /\ t = (IF jobs'[t].kind = "attack"
                              THEN fighters'[jobs'[t].owner].attack_timer
                              ELSE fighters'[jobs'[t].owner].effect_timer)
    BY DEF EffectsHaveOwners
  <2>1. CASE t = next_id
    BY <1>1, <1>3, <1>8, <2>1 DEF InSpace
  <2>2. CASE t # next_id
    <3>1. t \in DOMAIN jobs /\ jobs'[t] = jobs[t] /\ jobs[t].kind \in {"attack", "skill"}
      BY <1>3, <2>2 DEF CombatTypeOK
    <3>2. QED  BY <1>8, <1>10, <3>1 DEF EffectsHaveOwners, InSpace
  <2>3. QED  BY <2>1, <2>2
<1>12. AttacksLand'
  <2> SUFFICES ASSUME NEW t \in DOMAIN jobs', jobs'[t].kind = "attack"
               PROVE  alarms'[t].frame * Interval <= fighters'[jobs'[t].owner].next_attack
    BY DEF AttacksLand
  <2>1. t \in DOMAIN jobs /\ jobs'[t] = jobs[t] /\ alarms'[t] = alarms[t]
    BY <1>3 DEF CombatTypeOK
  <2>2. jobs[t].owner \in DOMAIN fighters
    BY <2>1 DEF EffectsHaveOwners, InSpace
  <2>3. QED  BY <1>8, <2>1, <2>2 DEF AttacksLand
<1>13. ActiveWhilePending'
  BY <1>3, <1>8 DEF ActiveWhilePending
<1>14. Remembered'
  BY <1>1, <1>3, <1>8 DEF Remembered, CombatTypeOK
<1>15. QED  BY <1>3, <1>9, <1>11, <1>12, <1>13, <1>14
\* A hit changes no timers and no cooldowns.
LEMMA HitFighters ==
  ASSUME CombatTypeOK, NEW victims \in SUBSET DOMAIN fighters, NEW e \in DOMAIN fighters \ victims,
         NEW kind \in {"attack", "skill"},
         fighters' = [Hit(victims) EXCEPT ![e] = Finished(@, kind)]
  PROVE  /\ DOMAIN fighters' = DOMAIN fighters
         /\ \A x \in DOMAIN fighters :
               /\ fighters'[x] \in Fighter
               /\ fighters'[x].in_space = fighters[x].in_space
               /\ fighters'[x].next_attack = fighters[x].next_attack
               /\ x # e => /\ fighters'[x].attack_timer = fighters[x].attack_timer
                           /\ fighters'[x].skill = fighters[x].skill
                           /\ fighters'[x].effect_timer = fighters[x].effect_timer
         /\ fighters'[e] = Finished(fighters[e], kind)
<1>1. /\ DOMAIN fighters' = DOMAIN fighters
      /\ fighters'[e] = Finished(fighters[e], kind)
      /\ \A x \in DOMAIN fighters : x # e =>
            fighters'[x] = IF x \in victims THEN Hurt(fighters[x]) ELSE fighters[x]
  BY DEF Hit
<1>2. \A x \in DOMAIN fighters : fighters[x] \in Fighter
  BY DEF CombatTypeOK
<1>3. QED  BY <1>1, <1>2, HurtType, FinishedType

\* An effect finds its owner in the space, lands, and is forgotten.
LEMMA EffectCombatInv ==
  ASSUME CombatInv, NEW t \in DOMAIN jobs, Effect(t)
  PROVE  CombatInv'
<1> USE DEF CombatInv
<1> DEFINE e == jobs[t].owner
           kind == jobs[t].kind
<1>1. /\ e \in InSpace /\ e \in DOMAIN fighters /\ kind \in {"attack", "skill"}
      /\ t = IF kind = "attack" THEN fighters[e].attack_timer ELSE fighters[e].effect_timer
  BY DEF EffectsHaveOwners, CombatTypeOK, InSpace
<1>2. /\ UNCHANGED <<now, frame, next_id, next_eid, fault>>
      /\ ringing' = t
      /\ jobs' = [u \in DOMAIN jobs \ {t} |-> jobs[u]]
  BY <1>1 DEF Effect, Ring, Without
<1>3. alarms' = [u \in DOMAIN alarms \ {t} |-> alarms[u]]
  BY DEF Effect, Ring, OneShot, CombatTypeOK
<1>4. PICK victims \in SUBSET (InSpace \ {e}) :
         fighters' = [Hit(victims) EXCEPT ![e] = Finished(@, kind)]
  BY <1>1 DEF Effect
<1>5. victims \in SUBSET DOMAIN fighters /\ e \in DOMAIN fighters \ victims
  BY <1>1, <1>4 DEF InSpace
<1> HIDE DEF e, kind
<1>6. /\ DOMAIN fighters' = DOMAIN fighters
      /\ \A x \in DOMAIN fighters :
            /\ fighters'[x] \in Fighter
            /\ fighters'[x].in_space = fighters[x].in_space
            /\ fighters'[x].next_attack = fighters[x].next_attack
            /\ x # e => /\ fighters'[x].attack_timer = fighters[x].attack_timer
                        /\ fighters'[x].skill = fighters[x].skill
                        /\ fighters'[x].effect_timer = fighters[x].effect_timer
      /\ fighters'[e] = Finished(fighters[e], kind)
  BY <1>1, <1>4, <1>5, HitFighters
<1>7. fighters[e] \in Fighter
  BY <1>1 DEF CombatTypeOK
<1>8. /\ kind = "attack" => /\ fighters'[e].attack_timer = -1
                            /\ fighters'[e].effect_timer = fighters[e].effect_timer
                            /\ fighters'[e].skill = fighters[e].skill
      /\ kind = "skill" => /\ fighters'[e].attack_timer = fighters[e].attack_timer
                           /\ fighters'[e].effect_timer = -1
                           /\ fighters'[e].skill = "done"
  BY <1>1, <1>6, <1>7, FinishedType
<1>9. CombatTypeOK'
  <2>1. ringing' \in Nat \cup {-1}
    BY <1>2 DEF CombatTypeOK
  <2>2. QED  BY <1>2, <1>3, <1>6, <2>1 DEF CombatTypeOK
<1>10. OneShot' /\ AttacksLand'
  BY <1>2, <1>3, <1>6 DEF OneShot, AttacksLand, EffectsHaveOwners, InSpace, CombatTypeOK
<1>11. EffectsHaveOwners'
  <2> SUFFICES ASSUME NEW u \in DOMAIN jobs'
               PROVE  /\ jobs'[u].owner \in InSpace'
                      /\ u = (IF jobs'[u].kind = "attack"
                              THEN fighters'[jobs'[u].owner].attack_timer
                              ELSE fighters'[jobs'[u].owner].effect_timer)
    BY DEF EffectsHaveOwners
  <2>1. /\ u \in DOMAIN jobs /\ u # t /\ jobs'[u] = jobs[u]
        /\ jobs[u].kind \in {"attack", "skill"}
    BY <1>2 DEF CombatTypeOK
  <2>2. /\ jobs[u].owner \in InSpace
        /\ u = (IF jobs[u].kind = "attack" THEN fighters[jobs[u].owner].attack_timer
                                           ELSE fighters[jobs[u].owner].effect_timer)
    BY <2>1 DEF EffectsHaveOwners
  <2>3. jobs[u].owner = e => jobs[u].kind # kind
    BY <1>1, <2>1, <2>2
  <2>4. jobs[u].owner \in InSpace'
    BY <1>6, <2>2 DEF InSpace
  <2>5. CASE jobs[u].owner # e
    BY <1>6, <2>1, <2>2, <2>4, <2>5 DEF InSpace
  <2>6. CASE jobs[u].owner = e
    BY <1>1, <1>8, <2>1, <2>2, <2>3, <2>4, <2>6
  <2>7. QED  BY <2>5, <2>6
<1>12. ActiveWhilePending'
  BY <1>1, <1>6, <1>8 DEF ActiveWhilePending
<1>13. Remembered'
  <2> SUFFICES ASSUME NEW x \in DOMAIN fighters
               PROVE  /\ fighters'[x].attack_timer # -1 =>
                            /\ fighters'[x].attack_timer \in DOMAIN jobs'
                            /\ jobs'[fighters'[x].attack_timer].owner = x
                            /\ jobs'[fighters'[x].attack_timer].kind = "attack"
                      /\ fighters'[x].effect_timer # -1 =>
                            /\ fighters'[x].effect_timer \in DOMAIN jobs'
                            /\ jobs'[fighters'[x].effect_timer].owner = x
                            /\ jobs'[fighters'[x].effect_timer].kind = "skill"
    BY <1>6 DEF Remembered
  <2>1. fighters'[x].attack_timer # -1 =>
            fighters'[x].attack_timer = fighters[x].attack_timer /\ fighters[x].attack_timer # t
    BY <1>1, <1>6, <1>8 DEF Remembered, e, kind
  <2>2. fighters'[x].effect_timer # -1 =>
            fighters'[x].effect_timer = fighters[x].effect_timer /\ fighters[x].effect_timer # t
    BY <1>1, <1>6, <1>8 DEF Remembered, e, kind
  <2>3. QED  BY <1>2, <2>1, <2>2 DEF Remembered
<1>14. QED  BY <1>2, <1>9, <1>10, <1>11, <1>12, <1>13

\* While time passes, frames stay behind the clock.
LEMMA TimeCombatInv ==
  ASSUME CombatInv, Time
  PROVE  CombatInv'
<1> USE DEF CombatInv
<1>1. UNCHANGED <<alarms, next_id, fighters, next_eid, jobs, fault>>
  BY DEF Time, Pass, Tick, Return, combatVars
<1>2. now' \in Nat /\ frame' \in Nat /\ ringing' \in Nat \cup {-1}
  BY BoundsAssumption DEF Time, Pass, Tick, Return, CombatTypeOK
<1>3. frame' * Interval <= now'
  <2>1. CASE \E d \in 1 .. MaxElapse : Pass(d)
    <3>1. PICK d \in 1 .. MaxElapse : Pass(d)
      BY <2>1
    <3>2. frame' = frame /\ now' = now + d /\ frame \in Nat /\ now \in Nat /\ d \in Nat
      BY <3>1, BoundsAssumption DEF Pass, CombatTypeOK
    <3>3. frame * Interval \in Nat
      BY <3>2, FramesMonotonic
    <3>4. QED  BY <3>2, <3>3
  <2>2. CASE Tick
    BY <2>2 DEF Tick
  <2>3. CASE Return
    BY <2>3 DEF Return
  <2>4. QED  BY <2>1, <2>2, <2>3 DEF Time
<1>4. CombatTypeOK'
  BY <1>1, <1>2 DEF CombatTypeOK
<1>5. /\ OneShot' /\ EffectsHaveOwners' /\ ActiveWhilePending' /\ Remembered' /\ AttacksLand'
  BY <1>1 DEF OneShot, EffectsHaveOwners, ActiveWhilePending, Remembered, AttacksLand, InSpace
<1>6. QED  BY <1>1, <1>3, <1>4, <1>5

\* A step of something else.
LEMMA IdleCombatInv ==
  ASSUME CombatInv, UNCHANGED <<timerVars, combatVars>>
  PROVE  CombatInv'
  BY DEF timerVars, combatVars, CombatInv, CombatTypeOK, OneShot, EffectsHaveOwners,
         ActiveWhilePending, Remembered, AttacksLand, InSpace

-----------------------------------------------------------------------------
(* The invariant of Sessions *)

SessionsInv ==
    /\ CombatInv
    /\ TypeOK
    /\ OnePlayerPerConnection
    /\ NamesMatch
    /\ MembersMatch

\* The service starts with the monster and nobody else.
LEMMA InitSessionsInv == SessionsInit => SessionsInv
<1> SUFFICES ASSUME SessionsInit PROVE SessionsInv
  OBVIOUS
<1> USE DEF SessionsInit
<1>1. CombatInv
  BY InitCombatInv
<1>2. /\ DOMAIN fighters = {1} /\ fighters[1].in_space /\ next_eid = 2
      /\ DOMAIN player = {} /\ DOMAIN name_of = {} /\ names = {} /\ open = {}
      /\ members = {1} /\ service = "up"
  BY DEF CombatInit, NewFighter
<1>3. TypeOK
  BY <1>1, <1>2 DEF TypeOK, CombatInv
<1>4. OnePlayerPerConnection /\ NamesMatch /\ MembersMatch
  BY <1>2 DEF OnePlayerPerConnection, NamesMatch, MembersMatch, InSpace
<1>5. QED  BY <1>1, <1>3, <1>4 DEF SessionsInv

\* What neither creates, moves nor deletes anybody leaves the tables right.
LEMMA SamePeople ==
  ASSUME SessionsInv, CombatInv', UNCHANGED sessionVars, next_eid' = next_eid,
         DOMAIN fighters' = DOMAIN fighters,
         \A e \in DOMAIN fighters : fighters'[e].in_space = fighters[e].in_space
  PROVE  SessionsInv'
<1> USE DEF SessionsInv, sessionVars
<1>1. InSpace' = InSpace
  BY DEF InSpace
<1>2. TypeOK'
  BY DEF TypeOK, CombatInv
<1>3. OnePlayerPerConnection' /\ NamesMatch' /\ MembersMatch'
  BY <1>1 DEF OnePlayerPerConnection, NamesMatch, MembersMatch
<1>4. QED  BY <1>2, <1>3

\* A connection at a new or reused address starts as nobody.
LEMMA AcceptSessionsInv ==
  ASSUME SessionsInv, NEW c \in Conns, Accept(c)
  PROVE  SessionsInv'
<1> USE DEF SessionsInv, Accept, tables
<1>1. CombatInv'
  BY IdleCombatInv
<1>2. InSpace' = InSpace
  BY DEF InSpace, combatVars
<1>3. TypeOK'
  BY <1>1 DEF TypeOK, CombatInv, combatVars
<1>4. OnePlayerPerConnection' /\ NamesMatch' /\ MembersMatch'
  BY <1>2 DEF OnePlayerPerConnection, NamesMatch, MembersMatch, combatVars
<1>5. QED  BY <1>1, <1>3, <1>4

\* The new player gets an eid nobody has and a name nobody has.
LEMMA LoginSessionsInv ==
  ASSUME SessionsInv, NEW c \in Conns, NEW n \in Names, Login(c, n)
  PROVE  SessionsInv'
<1> USE DEF SessionsInv
<1>1. /\ service = "up" /\ c \in open /\ c \notin DOMAIN player /\ n \notin names
      /\ Spawn
      /\ player' = [d \in DOMAIN player \cup {c} |-> IF d = c THEN next_eid ELSE player[d]]
      /\ names' = names \cup {n}
      /\ name_of' = [e \in DOMAIN name_of \cup {next_eid} |->
                        IF e = next_eid THEN n ELSE name_of[e]]
      /\ UNCHANGED <<open, members, service>>
  BY DEF Login, Up, NameTaken, gen_eid
<1>2. CombatInv'
  BY <1>1, SpawnCombatInv
<1>3. /\ next_eid \in Nat /\ next_eid > 1 /\ next_eid' = next_eid + 1
      /\ next_eid \notin DOMAIN fighters
      /\ DOMAIN fighters' = DOMAIN fighters \cup {next_eid}
      /\ \A e \in DOMAIN fighters : fighters'[e] = fighters[e]
      /\ ~fighters'[next_eid].in_space
  BY <1>1 DEF Spawn, gen_eid, NewFighter, CombatInv, CombatTypeOK
<1>4. /\ DOMAIN player' = DOMAIN player \cup {c} /\ player'[c] = next_eid
      /\ \A d \in DOMAIN player : player'[d] = player[d]
  BY <1>1
<1>5. /\ DOMAIN name_of' = DOMAIN name_of \cup {next_eid} /\ name_of'[next_eid] = n
      /\ next_eid \notin DOMAIN name_of
      /\ \A e \in DOMAIN name_of : name_of'[e] = name_of[e]
  BY <1>1, <1>3 DEF TypeOK
<1>6. TypeOK'
  BY <1>1, <1>2, <1>3, <1>4, <1>5 DEF TypeOK, CombatInv
<1>7. OnePlayerPerConnection'
  <2>1. DOMAIN fighters \ {1} = {player[d] : d \in DOMAIN player}
    BY <1>1 DEF OnePlayerPerConnection
  <2>2. DOMAIN fighters' \ {1} = {player'[d] : d \in DOMAIN player'}
    BY <1>3, <1>4, <2>1
  <2>3. \A d \in DOMAIN player : player[d] # next_eid
    BY <1>3, <2>1
  <2>4. \A d, f \in DOMAIN player' : player'[d] = player'[f] => d = f
    BY <1>1, <1>4, <2>3 DEF OnePlayerPerConnection
  <2>5. QED  BY <1>1, <1>4, <2>2, <2>4 DEF OnePlayerPerConnection
<1>8. NamesMatch'
  <2>1. /\ DOMAIN name_of = DOMAIN fighters \ {1}
        /\ names = {name_of[e] : e \in DOMAIN name_of}
        /\ \A e, f \in DOMAIN name_of : name_of[e] = name_of[f] => e = f
    BY <1>1 DEF NamesMatch
  <2>2. DOMAIN name_of' = DOMAIN fighters' \ {1}
    BY <1>3, <1>5, <2>1
  <2>3. names' = {name_of'[e] : e \in DOMAIN name_of'}
    BY <1>1, <1>5, <2>1
  <2>4. \A e, f \in DOMAIN name_of' : name_of'[e] = name_of'[f] => e = f
    BY <1>1, <1>5, <2>1
  <2>5. QED  BY <2>2, <2>3, <2>4 DEF NamesMatch
<1>9. MembersMatch'
  BY <1>1, <1>3 DEF MembersMatch, InSpace
<1>10. QED  BY <1>2, <1>6, <1>7, <1>8, <1>9

\* The player of a connection is alive, and it is not the monster.
LEMMA PlayerAlive ==
  ASSUME SessionsInv, NEW c, Logged(c)
  PROVE  service = "up" /\ c \in DOMAIN player /\ player[c] \in DOMAIN fighters \ {1}
         /\ player[c] \in Nat
  BY DEF SessionsInv, Logged, Up, OnePlayerPerConnection, TypeOK

\* A join puts a player that has been logged in into the space.
LEMMA JoinSessionsInv ==
  ASSUME SessionsInv, NEW c \in Conns, Join(c)
  PROVE  SessionsInv'
<1> DEFINE e == player[c]
<1>1. Logged(c) /\ EnterSpace(e) /\ members' = members \cup {e}
      /\ UNCHANGED <<open, tables, service>>
  BY DEF Join
<1>2. service = "up" /\ e \in DOMAIN fighters /\ e \in Nat
  BY <1>1, PlayerAlive
<1> HIDE DEF e
<1>3. CombatInv'
  BY <1>1, <1>2, EnterSpaceCombatInv DEF SessionsInv
<1>4. /\ next_eid' = next_eid /\ DOMAIN fighters' = DOMAIN fighters
      /\ fighters' = [fighters EXCEPT ![e].in_space = TRUE]
  BY <1>1 DEF EnterSpace
<1>5. fighters[e] \in Fighter
  BY <1>2 DEF SessionsInv, TypeOK, CombatTypeOK
<1>6. fighters'[e].in_space /\ \A x \in DOMAIN fighters : x # e => fighters'[x] = fighters[x]
  BY <1>2, <1>4, <1>5 DEF Fighter
<1>7. InSpace' = InSpace \cup {e}
  BY <1>2, <1>4, <1>6 DEF InSpace
<1>8. TypeOK'
  BY <1>1, <1>2, <1>3, <1>4 DEF SessionsInv, TypeOK, CombatInv, CombatTypeOK, tables
<1>9. OnePlayerPerConnection' /\ NamesMatch' /\ MembersMatch'
  BY <1>1, <1>2, <1>4, <1>7 DEF SessionsInv, OnePlayerPerConnection, NamesMatch, MembersMatch, tables
<1>10. QED  BY <1>3, <1>8, <1>9 DEF SessionsInv

\* Whoever is logged out leaves every table, and nobody else does.
LEMMA LogoutSessionsInv ==
  ASSUME SessionsInv, service = "up", NEW c \in DOMAIN player, Logout(c),
         service' = service, open' \subseteq Conns, DOMAIN player \ {c} \subseteq open'
  PROVE  SessionsInv'
<1> DEFINE e == player[c]
<1>1. /\ Despawn({e})
      /\ members' = members \ {e}
      /\ player' = [d \in DOMAIN player \ {c} |-> player[d]]
      /\ names' = names \ {name_of[e]}
      /\ name_of' = [x \in DOMAIN name_of \ {e} |-> name_of[x]]
  BY DEF Logout, Without
<1>2. /\ DOMAIN fighters \ {1} = {player[d] : d \in DOMAIN player}
      /\ \A d, f \in DOMAIN player : player[d] = player[f] => d = f
      /\ DOMAIN name_of = DOMAIN fighters \ {1}
      /\ names = {name_of[x] : x \in DOMAIN name_of}
      /\ \A x, y \in DOMAIN name_of : name_of[x] = name_of[y] => x = y
      /\ members = InSpace
  BY DEF SessionsInv, OnePlayerPerConnection, NamesMatch, MembersMatch
<1>3. e \in DOMAIN fighters \ {1} /\ \A d \in DOMAIN player : player[d] = e => d = c
  BY <1>2
<1> HIDE DEF e
<1>4. CombatInv'
  BY <1>1, DespawnCombatInv DEF SessionsInv
<1>5. /\ DOMAIN fighters' = DOMAIN fighters \ {e}
      /\ \A x \in DOMAIN fighters' : fighters'[x] = fighters[x]
      /\ next_eid' = next_eid
  BY <1>1 DEF Despawn, Without
<1>6. TypeOK'
  BY <1>1, <1>4, <1>5 DEF SessionsInv, TypeOK, CombatInv
<1>7. OnePlayerPerConnection'
  <2>1. DOMAIN fighters' \ {1} = {player'[d] : d \in DOMAIN player'}
    BY <1>1, <1>2, <1>3, <1>5 DEF e
  <2>2. \A d, f \in DOMAIN player' : player'[d] = player'[f] => d = f
    BY <1>1, <1>2
  <2>3. QED  BY <1>1, <2>1, <2>2 DEF OnePlayerPerConnection
<1>8. NamesMatch'
  <2>1. DOMAIN name_of' = DOMAIN fighters' \ {1}
    BY <1>1, <1>2, <1>5
  <2>2. names' = {name_of'[x] : x \in DOMAIN name_of'}
    BY <1>1, <1>2, <1>3
  <2>3. QED  BY <1>1, <1>2, <2>1, <2>2 DEF NamesMatch
<1>9. MembersMatch'
  BY <1>1, <1>2, <1>5 DEF MembersMatch, InSpace
<1>10. QED  BY <1>4, <1>6, <1>7, <1>8, <1>9 DEF SessionsInv

\* Who leaves is taken out of every table.
LEMMA LeaveSessionsInv ==
  ASSUME SessionsInv, NEW c \in Conns, Leave(c)
  PROVE  SessionsInv'
<1>1. service = "up" /\ c \in DOMAIN player /\ Logout(c) /\ UNCHANGED <<open, service>>
  BY DEF Leave, Logged, Up
<1>2. open \subseteq Conns /\ DOMAIN player \subseteq open
  BY <1>1 DEF SessionsInv, TypeOK, OnePlayerPerConnection
<1>3. QED  BY <1>1, <1>2, LogoutSessionsInv

\* A connection that is lost takes its player along, if it has one.
LEMMA LostSessionsInv ==
  ASSUME SessionsInv, NEW c \in Conns, Lost(c)
  PROVE  SessionsInv'
<1>1. service = "up" /\ open' = open \ {c} /\ service' = service
  BY DEF Lost, Up
<1>2. open \subseteq Conns /\ DOMAIN player \subseteq open
  BY <1>1 DEF SessionsInv, TypeOK, OnePlayerPerConnection
<1>3. CASE c \in DOMAIN player
  BY <1>1, <1>2, <1>3, LogoutSessionsInv DEF Lost
<1>4. CASE c \notin DOMAIN player
  <2>1. UNCHANGED <<timerVars, combatVars, tables, members>>
    BY <1>4 DEF Lost
  <2>2. CombatInv'
    BY <2>1, IdleCombatInv DEF SessionsInv
  <2>3. InSpace' = InSpace
    BY <2>1 DEF InSpace, combatVars
  <2>4. TypeOK'
    BY <1>1, <2>1, <2>2 DEF SessionsInv, TypeOK, CombatInv, combatVars, tables
  <2>5. OnePlayerPerConnection' /\ NamesMatch' /\ MembersMatch'
    BY <1>1, <1>2, <1>4, <2>1, <2>3
       DEF SessionsInv, OnePlayerPerConnection, NamesMatch, MembersMatch, combatVars, tables
  <2>6. QED  BY <2>2, <2>4, <2>5 DEF SessionsInv
<1>5. QED  BY <1>3, <1>4

\* stop() deletes all players, and nobody reads the tables it leaves behind.
LEMMA StopSessionsInv ==
  ASSUME SessionsInv, Stop
  PROVE  SessionsInv'
<1>1. /\ Despawn({player[c] : c \in DOMAIN player})
      /\ members' = {} /\ service' = "stopped" /\ UNCHANGED <<open, tables>>
  BY DEF Stop
<1>2. CombatInv'
  BY <1>1, DespawnCombatInv DEF SessionsInv
<1>3. next_eid' = next_eid
  BY <1>1 DEF Despawn
<1>4. TypeOK'
  BY <1>1, <1>2, <1>3 DEF SessionsInv, TypeOK, CombatInv, tables
<1>5. OnePlayerPerConnection' /\ NamesMatch' /\ MembersMatch'
  BY <1>1 DEF OnePlayerPerConnection, NamesMatch, MembersMatch
<1>6. QED  BY <1>2, <1>4, <1>5 DEF SessionsInv

\* Attacks and skills leave the tables alone.
LEMMA AttackSessionsInv ==
  ASSUME SessionsInv, NEW c \in Conns, Attack(c) \/ Cast(c)
  PROVE  SessionsInv'
<1> DEFINE e == player[c]
<1>1. Logged(c) /\ (NormalAttack(e) \/ CastSkill(e)) /\ UNCHANGED sessionVars
  BY DEF Attack, Cast
<1>2. e \in Nat /\ e \in DOMAIN fighters
  BY <1>1, PlayerAlive
<1> HIDE DEF e
<1>3. CombatInv'
  BY <1>1, <1>2, AttackCombatInv, CastCombatInv DEF SessionsInv
<1>4. fighters[e] \in Fighter
  BY <1>2 DEF SessionsInv, TypeOK, CombatTypeOK
<1>5. /\ next_eid' = next_eid /\ DOMAIN fighters' = DOMAIN fighters
      /\ \A x \in DOMAIN fighters : fighters'[x].in_space = fighters[x].in_space
  <2>1. CASE NormalAttack(e)
    BY <1>2, <1>4, <2>1 DEF NormalAttack, AssertionFails, Schedule, Fighter
  <2>2. CASE CastSkill(e)
    <3>1. CASE AssertionFails(e)
      BY <3>1 DEF AssertionFails
    <3>2. CASE ~AssertionFails(e)
      <4>1. /\ next_eid' = next_eid
            /\ fighters' = [fighters EXCEPT ![e].mana = @ - SkillCost,
                                            ![e].next_cast = now + SkillCooldown,
                                            ![e].skill = Instance(@),
                                            ![e].effect_timer = next_id]
        BY <2>2, <3>2 DEF CastSkill, Schedule
      <4>2. QED  BY <1>2, <1>4, <4>1 DEF Fighter, Instance
    <3>3. QED  BY <3>1, <3>2
  <2>3. QED  BY <1>1, <2>1, <2>2
<1>6. QED  BY <1>1, <1>3, <1>5, SamePeople

\* So do the timers.
LEMMA TimerStepSessionsInv ==
  ASSUME SessionsInv, TimerStep
  PROVE  SessionsInv'
<1>1. UNCHANGED sessionVars
  BY DEF TimerStep
<1>2. CASE Time
  <2>1. CombatInv'
    BY <1>2, TimeCombatInv DEF SessionsInv
  <2>2. QED  BY <1>1, <1>2, <2>1, SamePeople DEF Time, combatVars
<1>3. CASE \E t \in DOMAIN jobs : Effect(t)
  <2>1. PICK t \in DOMAIN jobs : Effect(t)
    BY <1>3
  <2>2. CombatInv'
    BY <2>1, EffectCombatInv DEF SessionsInv
  <2> DEFINE e == jobs[t].owner
             kind == jobs[t].kind
  <2>3. e \in InSpace /\ e \in DOMAIN fighters /\ kind \in {"attack", "skill"} /\ CombatTypeOK
    BY DEF SessionsInv, CombatInv, EffectsHaveOwners, CombatTypeOK, InSpace
  <2>4. PICK victims \in SUBSET (InSpace \ {e}) :
           fighters' = [Hit(victims) EXCEPT ![e] = Finished(@, kind)]
    BY <2>1, <2>3 DEF Effect
  <2>5. victims \in SUBSET DOMAIN fighters /\ e \in DOMAIN fighters \ victims
    BY <2>3, <2>4 DEF InSpace
  <2>6. next_eid' = next_eid
    BY <2>1 DEF Effect
  <2> HIDE DEF e, kind
  <2>7. /\ DOMAIN fighters' = DOMAIN fighters
        /\ \A x \in DOMAIN fighters : fighters'[x].in_space = fighters[x].in_space
    BY <2>3, <2>4, <2>5, HitFighters
  <2>8. QED  BY <1>1, <2>2, <2>6, <2>7, SamePeople
<1>4. QED  BY <1>2, <1>3 DEF TimerStep

\* Every step.
LEMMA StepSessionsInv == SessionsInv /\ [Next]_vars => SessionsInv'
<1> SUFFICES ASSUME SessionsInv, [Next]_vars PROVE SessionsInv'
  OBVIOUS
<1>1. CASE \E c \in Conns : Accept(c)
  BY <1>1, AcceptSessionsInv
<1>2. CASE \E c \in Conns : Lost(c)
  BY <1>2, LostSessionsInv
<1>3. CASE \E c \in Conns, n \in Names : Login(c, n)
  BY <1>3, LoginSessionsInv
<1>4. CASE \E c \in Conns : Join(c)
  BY <1>4, JoinSessionsInv
<1>5. CASE \E c \in Conns : Leave(c)
  BY <1>5, LeaveSessionsInv
<1>6. CASE \E c \in Conns : Attack(c) \/ Cast(c)
  BY <1>6, AttackSessionsInv
<1>7. CASE Stop
  BY <1>7, StopSessionsInv
<1>8. CASE TimerStep
  BY <1>8, TimerStepSessionsInv
<1>9. CASE Terminated \/ UNCHANGED vars
  <2>1. UNCHANGED <<timerVars, combatVars, sessionVars>>
    BY <1>9 DEF Terminated, Ended, vars
  <2>2. CombatInv'
    BY <2>1, IdleCombatInv DEF SessionsInv
  <2>3. QED  BY <2>1, <2>2, SamePeople DEF combatVars
<1>10. QED
  BY <1>1, <1>2, <1>3, <1>4, <1>5, <1>6, <1>7, <1>8, <1>9 DEF Next

\* Both invariants hold in every state, whatever clients do and however late timers run.
THEOREM SessionsAlwaysRight == Spec => []SessionsInv
<1>1. SessionsInit => SessionsInv
  BY InitSessionsInv
<1>2. SessionsInv /\ [Next]_vars => SessionsInv'
  BY StepSessionsInv
<1>3. QED  BY <1>1, <1>2, PTL DEF Spec

-----------------------------------------------------------------------------
(* Lives *)

\* How a life may go on, of e.
GoesOn(e) == <<Life(e), Life(e)'>> \notin {<<"gone", "fresh">>, <<"gone", "member">>,
                                          <<"member", "fresh">>}

\* Where nobody comes, goes or moves, no life changes.
LEMMA SameLives ==
  ASSUME DOMAIN fighters' = DOMAIN fighters, members' = members, service' = service, NEW e
  PROVE  GoesOn(e)
  BY DEF GoesOn, Life

\* Attacks, skills and timers create and delete nobody.
LEMMA ActionsKeepPeople ==
  ASSUME (\E c \in Conns : Attack(c) \/ Cast(c)) \/ TimerStep \/ Terminated
  PROVE  DOMAIN fighters' = DOMAIN fighters /\ members' = members /\ service' = service
<1>1. UNCHANGED sessionVars
  BY DEF Attack, Cast, TimerStep, Terminated
<1> SUFFICES DOMAIN fighters' = DOMAIN fighters
  BY <1>1 DEF sessionVars
<1>2. CASE \E c \in Conns : Attack(c) \/ Cast(c)
  BY <1>2 DEF Attack, Cast, NormalAttack, CastSkill, AssertionFails
<1>3. CASE TimerStep
  <2>1. CASE Time
    BY <2>1 DEF Time, combatVars
  <2>2. CASE \E t \in DOMAIN jobs : Effect(t)
    BY <2>2 DEF Effect, Hit
  <2>3. QED  BY <1>3, <2>1, <2>2 DEF TimerStep
<1>4. CASE Terminated
  BY <1>4 DEF Terminated, Ended, combatVars
<1>5. QED  BY <1>2, <1>3, <1>4

\* A new player gets an eid that has had no life before.
LEMMA LoginLives ==
  ASSUME SessionsInv, NEW c, NEW n, Login(c, n), NEW e \in 1 .. next_eid - 1
  PROVE  GoesOn(e)
<1>1. next_eid \in Nat
  BY DEF SessionsInv, TypeOK, CombatTypeOK
<1>2. DOMAIN fighters' = DOMAIN fighters \cup {next_eid}
  BY DEF Login, Spawn, gen_eid
<1>3. members' = members /\ service' = service
  BY DEF Login
<1>4. e # next_eid
  BY <1>1
<1>5. QED  BY <1>2, <1>3, <1>4 DEF GoesOn, Life

\* Who joins is alive: it has not been in the space before.
LEMMA JoinLives ==
  ASSUME SessionsInv, NEW c, Join(c), NEW e
  PROVE  GoesOn(e)
<1>1. service = "up" /\ player[c] \in DOMAIN fighters
  BY PlayerAlive DEF Join
<1>2. DOMAIN fighters' = DOMAIN fighters /\ members' = members \cup {player[c]} /\ service' = service
  BY DEF Join, EnterSpace
<1>3. QED  BY <1>1, <1>2 DEF GoesOn, Life

\* Who is logged out is over, in the space or not yet.
LEMMA LogoutLives ==
  ASSUME NEW c, Logout(c), service' = service, NEW e
  PROVE  GoesOn(e)
<1>1. /\ DOMAIN fighters' = DOMAIN fighters \ {player[c]}
      /\ members' = members \ {player[c]}
  BY DEF Logout, Despawn, Without
<1>2. QED  BY <1>1 DEF GoesOn, Life

\* Every step.
LEMMA StepLives ==
  ASSUME SessionsInv, Next, NEW e \in 1 .. next_eid - 1
  PROVE  GoesOn(e)
<1>1. CASE \E c \in Conns, n \in Names : Login(c, n)
  BY <1>1, LoginLives
<1>2. CASE \E c \in Conns : Join(c)
  BY <1>2, JoinLives
<1>3. CASE \E c \in Conns : Leave(c)
  <2>1. PICK c \in Conns : Leave(c)
    BY <1>3
  <2>2. Logout(c) /\ service' = service
    BY <2>1 DEF Leave
  <2>3. QED  BY <2>2, LogoutLives
<1>4. CASE \E c \in Conns : Lost(c)
  <2>1. PICK c \in Conns : Lost(c)
    BY <1>4
  <2>2. service' = service /\ (Logout(c) \/ UNCHANGED <<combatVars, members>>)
    BY <2>1 DEF Lost
  <2>3. QED  BY <2>2, LogoutLives, SameLives DEF combatVars
<1>5. CASE \E c \in Conns : Accept(c)
  BY <1>5, SameLives DEF Accept, combatVars
<1>6. CASE Stop
  BY <1>6 DEF Stop, GoesOn, Life
<1>7. CASE (\E c \in Conns : Attack(c) \/ Cast(c)) \/ TimerStep \/ Terminated
  BY <1>7, ActionsKeepPeople, SameLives
<1>8. QED
  BY <1>1, <1>2, <1>3, <1>4, <1>5, <1>6, <1>7 DEF Next

-----------------------------------------------------------------------------
(* Theorems *)

\* The players alive, the connections, the names taken and the members of the space
\* always agree (space_service.cpp: login, join, leave, on_lost_connection).
THEOREM TablesAlwaysMatch == Spec => []TablesMatch
<1>1. SessionsInv => TablesMatch
  BY DEF SessionsInv, TablesMatch
<1>2. QED  BY <1>1, SessionsAlwaysRight, PTL

\* No callback of an attack or a skill ever runs for an entity that is gone or out of
\* the space (combat_component.cpp and skill_1.cpp capture bare pointers).
THEOREM EffectsAlwaysHaveOwners == Spec => []EffectsHaveOwners
<1>1. SessionsInv => EffectsHaveOwners
  BY DEF SessionsInv, CombatInv
<1>2. QED  BY <1>1, SessionsAlwaysRight, PTL

\* CombatComponent::destroy never cancels a timer that has already run.
THEOREM TimersNeverStale == Spec => []NoStaleTimer
<1>1. SessionsInv => NoStaleTimer
  BY RememberedIsNotStale DEF SessionsInv, CombatInv
<1>2. QED  BY <1>1, SessionsAlwaysRight, PTL

\* A skill is active exactly while its effect is pending (skill_1.cpp).
THEOREM ActiveExactlyWhilePending == Spec => []ActiveWhilePending
<1>1. SessionsInv => ActiveWhilePending
  BY DEF SessionsInv, CombatInv
<1>2. QED  BY <1>1, SessionsAlwaysRight, PTL

\* No eid is ever given to a second entity, none enters the space twice, and none is
\* left alive outside it once it has been inside (entity.cpp: gen_eid;
\* space_service.cpp: login, join, leave, on_lost_connection, stop).
THEOREM EveryoneLivesOnce == Spec => LivesOnce
<1>1. SessionsInv /\ [Next]_vars
         => [\A e \in 1 .. next_eid - 1 :
                <<Life(e), Life(e)'>> \notin {<<"gone", "fresh">>, <<"gone", "member">>,
                                             <<"member", "fresh">>}]_vars
  BY StepLives DEF GoesOn
<1>2. QED  BY <1>1, SessionsAlwaysRight, PTL DEF Spec, LivesOnce
=============================================================================
