------------------------------- MODULE Combat -------------------------------
(***************************************************************************)
(* Attacks and skills (src/src/combat/combat_component.cpp and             *)
(* combat/skill/skill_1.cpp) of the entities of a space.                   *)
(*                                                                         *)
(* An attack is accepted after a cooldown in ms; its effect comes with a   *)
(* timer, some frames later.  The callback holds a bare pointer to the     *)
(* component (or skill) that set the timer, and the component remembers    *)
(* one timer id for its attack, so nothing but the cooldown keeps a second *)
(* attack from overwriting the id of a timer that is still pending.  When  *)
(* the entity is deleted, the timers remembered are cancelled; a timer     *)
(* forgotten would run on freed memory.                                    *)
(*                                                                         *)
(* The timers are those of Timers.  Who creates, moves into the space and  *)
(* deletes entities is left to Sessions.                                   *)
(***************************************************************************)
EXTENDS Timers

CONSTANTS
    MaxEids,        \* bound: entities that are created
    AttackDelay,    \* ms from a normal attack to its effect (500)
    AttackCooldown, \* ms between two normal attacks, 1000 / attack_speed (1000)
    SkillDelay,     \* ms from a cast to its effect (1500)
    SkillCooldown,  \* cool_down of the skill (5000)
    SkillCost,      \* cost_mana of the skill (2)
    MaxMana,        \* _max_mana (100)
    MaxHealth,      \* _max_health (100)
    Damage          \* what a hit takes: max(1, 10 - defence) (5)

ASSUME DelaysOfEffects == {AttackDelay, SkillDelay} \subseteq Delays
ASSUME CombatConstants ==
    {MaxEids, AttackCooldown, SkillCooldown, SkillCost, MaxMana, MaxHealth, Damage} \subseteq Nat
\* The effect of an attack is due no later than the frame of the next one.
ASSUME AttackFitsCooldown == Frames(AttackDelay) <= AttackCooldown \div Interval
\* And it is due in time: the delay is less than a turn, 1024 frames of 33 ms.
ASSUME AttackWithinTurn == Frames(AttackDelay) < Turn

VARIABLES
    fighters,   \* the entities alive: a function from their eids to their components
    next_eid,   \* what gen_eid() counts
    jobs,       \* what the callback of each pending alarm captured
    fault       \* "none", or why the process ended

combatVars == <<fighters, next_eid, jobs, fault>>

-----------------------------------------------------------------------------
(* Components *)

\* CombatComponent::init and a SpaceComponent outside any space.
NewFighter ==
    [in_space |-> FALSE, health |-> MaxHealth, mana |-> MaxMana,
     next_attack |-> 0, attack_timer |-> -1,
     next_cast |-> 0, skill |-> "none", effect_timer |-> -1]

InSpace == {e \in DOMAIN fighters : fighters[e].in_space}

\* AttrSet::take_damage, without critical hits, shields and lifesteal, which the
\* attributes of all entities rule out.
Hurt(f) == [f EXCEPT !.health = IF @ - Damage < 0 THEN 0 ELSE @ - Damage]

Hit(victims) == [e \in DOMAIN fighters |->
                    IF e \in victims THEN Hurt(fighters[e]) ELSE fighters[e]]

\* Faulty variant: the destructor forgets the skills.
TimersOf_AttackOnly(f) == {f.attack_timer} \ {-1}

\* The timers CombatComponent::destroy cancels: its own and those of its skills.
TimersOf(f) == {f.attack_timer, f.effect_timer} \ {-1}

Without(function, keys) == [k \in DOMAIN function \ keys |-> function[k]]

\* Message handlers run between updates, while the process lives.
Handling == Quiet /\ fault = "none"

-----------------------------------------------------------------------------
CombatInit ==
    /\ TimersInit
    /\ fighters = [e \in {1} |-> [NewFighter EXCEPT !.in_space = TRUE]] \* the monster
    /\ next_eid = 2
    /\ jobs = [t \in {} |-> 0]
    /\ fault = "none"

\* Faulty variant: the smallest number no entity has.
gen_eid_Recycles ==
    CHOOSE e \in 1 .. next_eid :
        e \notin DOMAIN fighters /\ \A f \in 1 .. e - 1 : f \in DOMAIN fighters

\* gen_eid: a counter, so that no number is given twice.
gen_eid == next_eid

\* A new entity and its components.
Spawn ==
    /\ Handling
    /\ next_eid <= MaxEids
    /\ fighters' = [e \in DOMAIN fighters \cup {gen_eid} |->
                      IF e = gen_eid THEN NewFighter ELSE fighters[e]]
    /\ next_eid' = next_eid + 1
    /\ UNCHANGED <<timerVars, jobs, fault>>

\* SpaceComponent::enter_space, in Space::join.
EnterSpace(e) ==
    /\ Handling
    /\ e \in DOMAIN fighters
    /\ fighters' = [fighters EXCEPT ![e].in_space = TRUE]
    /\ UNCHANGED <<timerVars, next_eid, jobs, fault>>

\* Space::leave and the destructors of the entities gone and their components.
Despawn(gone) ==
    /\ Handling
    /\ gone \subseteq DOMAIN fighters
    /\ LET cancelled == UNION {TimersOf(fighters[e]) : e \in gone}
       IN  CancelAlarms(cancelled) /\ jobs' = Without(jobs, cancelled)
    /\ fighters' = Without(fighters, gone)
    /\ UNCHANGED <<next_eid, fault>>

\* A timer whose callback captured the component of e.
Schedule(e, kind, delay) ==
    /\ SetAlarm(delay, FALSE)
    /\ jobs' = [t \in DOMAIN jobs \cup {next_id} |->
                  IF t = next_id THEN [owner |-> e, kind |-> kind] ELSE jobs[t]]
    /\ UNCHANGED <<next_eid, fault>>

\* play_animation asserts that the player is in a space (player.cpp:62).
AssertionFails(e) ==
    /\ ~fighters[e].in_space
    /\ fault' = "assertion"
    /\ UNCHANGED <<timerVars, fighters, next_eid, jobs>>

\* The cooldown is over.
MayAttack(f) == now >= f.next_attack

\* CombatComponent::normal_attack, with a combo that exists.
NormalAttack(e) ==
    /\ Handling
    /\ e \in DOMAIN fighters
    /\ MayAttack(fighters[e])
    /\ \/ AssertionFails(e)
       \/ /\ fighters[e].in_space
          /\ fighters' = [fighters EXCEPT ![e].next_attack  = now + AttackCooldown,
                                          ![e].attack_timer = next_id]
          /\ Schedule(e, "attack", AttackDelay)

\* can_cast_skill.
CanCast(f) == f.mana >= SkillCost /\ now >= f.next_cast /\ f.skill # "active"

\* Faulty variant: the instance is not reset for its next use.
Instance_NotReset(state) == IF state = "none" THEN "active" ELSE state

\* get_or_create_skill_instance: a new instance is active, an old one is reset.
Instance(state) == "active"

\* CombatComponent::cast_skill, with a skill that exists, and Skill_1::execute.
CastSkill(e) ==
    /\ Handling
    /\ e \in DOMAIN fighters
    /\ CanCast(fighters[e])
    /\ \/ AssertionFails(e)
       \/ /\ fighters[e].in_space
          /\ fighters' = [fighters EXCEPT ![e].mana = @ - SkillCost,
                                          ![e].next_cast = now + SkillCooldown,
                                          ![e].skill = Instance(@),
                                          ![e].effect_timer = next_id]
          /\ Schedule(e, "skill", SkillDelay)

\* Faulty variant: the effect leaves the timer id where it is.
Finished_KeepsId(f, kind) == f

\* What a callback stores in its owner at its end.
Finished(f, kind) ==
    IF kind = "attack" THEN [f EXCEPT !.attack_timer = -1]
    ELSE [f EXCEPT !.effect_timer = -1, !.skill = "done"]

\* The callback of an effect: any of the entities in the space may be in its reach.
Effect(t) ==
    LET e == jobs[t].owner
    IN  /\ fault = "none"
        /\ Ring(t)
        /\ jobs' = Without(jobs, {t})
        /\ IF e \in InSpace
           THEN /\ \E victims \in SUBSET (InSpace \ {e}) :
                      fighters' = [Hit(victims) EXCEPT ![e] = Finished(@, jobs[t].kind)]
                /\ fault' = fault
           ELSE /\ fault' = "dangling"  \* the owner is freed or its space is null
                /\ fighters' = fighters
        /\ UNCHANGED next_eid

\* Time goes on while the process lives.
Time ==
    /\ fault = "none"
    /\ (\E d \in 1 .. MaxElapse : Pass(d)) \/ Tick \/ Return
    /\ UNCHANGED combatVars

\* The process has ended, or its time is no longer explored.
Ended ==
    /\ fault # "none" \/ now = MaxNow
    /\ UNCHANGED <<timerVars, combatVars>>

-----------------------------------------------------------------------------
(* Properties *)

Fighter ==
    [in_space : BOOLEAN, health : 0 .. MaxHealth, mana : 0 .. MaxMana,
     next_attack : Nat, attack_timer : Nat \cup {-1},
     next_cast : Nat, skill : {"none", "active", "done"}, effect_timer : Nat \cup {-1}]

\* Timers, components and what callbacks captured have their types; in particular
\* neither health nor mana leaves its range.
CombatTypeOK ==
    /\ now \in Nat /\ frame \in Nat /\ next_id \in Nat /\ next_eid \in Nat
    /\ ringing \in Nat \cup {-1}
    /\ DOMAIN alarms \subseteq 0 .. next_id - 1
    /\ \A t \in DOMAIN alarms :
          alarms[t] \in [interval : Nat, ms : Nat, frame : Nat, repeat : BOOLEAN]
    /\ DOMAIN fighters \subseteq 1 .. next_eid - 1
    /\ \A e \in DOMAIN fighters : fighters[e] \in Fighter
    /\ DOMAIN jobs = DOMAIN alarms
    /\ \A t \in DOMAIN jobs : jobs[t] \in [owner : Nat \ {0}, kind : {"attack", "skill"}]
    /\ fault \in {"none", "assertion", "dangling"}

\* Every pending effect belongs to an entity that exists, is in the space and
\* remembers the timer, so deleting the entity cancels it and no callback ever runs
\* for an entity that is gone, whoever attacks, leaves and is late in whatever order.
EffectsHaveOwners ==
    \A t \in DOMAIN jobs :
        LET e == jobs[t].owner
        IN  /\ e \in InSpace
            /\ t = (IF jobs[t].kind = "attack" THEN fighters[e].attack_timer
                                               ELSE fighters[e].effect_timer)

\* A timer id an entity remembers is pending: WheelTimer::del_timer, which would
\* write into the freed task of a timer that has run, is never called with one.
NoStaleTimer == \A e \in DOMAIN fighters : TimersOf(fighters[e]) \subseteq DOMAIN alarms

\* The skill of an entity is active exactly while its effect is pending: it is never
\* cast anew before it has landed, nor blocked after.
ActiveWhilePending ==
    \A e \in DOMAIN fighters :
        fighters[e].skill = "active" <=> fighters[e].effect_timer # -1
=============================================================================
