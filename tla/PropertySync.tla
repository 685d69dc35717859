---------------------------- MODULE PropertySync ----------------------------
(***************************************************************************)
(* How the properties of entities reach the clients: the dirty flags of    *)
(* AttrSet, the log of the skills (combat_component.cpp), Entity's deltas  *)
(* (entity.cpp) and the part of Space::update that sends them (space.cpp). *)
(*                                                                         *)
(* A client gets all properties of an entity that enters its sight and     *)
(* then, with every update, its delta: the properties whose flag is set.   *)
(* A player's own client gets them when it joins, and then its own deltas. *)
(* Who sees whom is Sight's.                                               *)
(*                                                                         *)
(* Clients are not in the repository: they are taken to store the          *)
(* attributes they receive.  Of the skills the model has the log of their  *)
(* changes and what of it was sent last.                                   *)
(***************************************************************************)
EXTENDS Sight, SyncLog

CONSTANTS
    MaxHealth,  \* health of a new entity
    MaxMana,    \* mana of a new entity
    SkillCost,  \* mana a cast costs
    Times       \* the next_cast_time a cast may set

ASSUME Attributes == {MaxHealth, MaxMana, SkillCost} \subseteq Nat

VARIABLES
    attrs,      \* _attr_set of each entity
    flags,      \* its _dirty_flag
    skill_log,  \* the _dirty_log of its _skill_infos; a skill is its next_cast_time
    others,     \* others[p][e]: the attributes the client of p has of e
    own,        \* the attributes the client of p has of p
    told        \* the log of skills the last delta brought to the client of p

serverVars == <<attrs, flags, skill_log>>
clientVars == <<others, own, told>>
vars       == <<sightVars, serverVars, clientVars>>

Fields == {"health", "mana"}

\* What a client has of an entity it does not show.
Nothing == [f \in Fields |-> -1]

\* AttrSet::init and the skill CombatComponent::init pushes back.
NewAttrs == [f \in Fields |-> IF f = "health" THEN MaxHealth ELSE MaxMana]
NewLog   == <<PushBack(0)>>

-----------------------------------------------------------------------------
PropertyInit ==
    /\ Init
    /\ attrs = [e \in Eids |-> NewAttrs]
    /\ flags = [e \in Eids |-> {}]
    /\ skill_log = [e \in Eids |-> NewLog]
    /\ others = [p \in Players |-> [e \in Eids |-> Nothing]]
    /\ own = [p \in Players |-> Nothing]
    /\ told = [p \in Players |-> <<>>]

\* sync_full_info, at the end of the join message.
FullInfo(p) ==
    /\ own' = [own EXCEPT ![p] = attrs[p]]
    /\ UNCHANGED <<serverVars, others, told>>

\* An entity joins; a player may send the message again and is only sent its
\* properties.
Join(e) ==
    /\ e \in Players => own[e] = Nothing \/ e \in present  \* who has left is gone
    /\ Enter(e) \/ (e \in present \cap Players /\ UNCHANGED sightVars)
    /\ IF e \in Players THEN FullInfo(e) ELSE UNCHANGED <<serverVars, clientVars>>

\* A player leaves for good: entities are not used again.
LeaveForGood(p) ==
    /\ p \in Players
    /\ Leave(p)
    /\ UNCHANGED <<serverVars, clientVars>>

\* Faulty variant: the setter forgets the flag.
Flagged_Never(fs, field) == fs

\* The setter of a property.
Flagged(fs, field) == fs \cup {field}

\* add_health of a negative number.
Damaged(health) == IF health = 0 THEN 0 ELSE health - 1

\* take_damage.
Hurt(e) ==
    /\ e \in present
    /\ attrs' = [attrs EXCEPT ![e].health = Damaged(@)]
    /\ flags' = [flags EXCEPT ![e] = Flagged(@, "health")]
    /\ UNCHANGED <<sightVars, skill_log, clientVars>>

\* cast_skill, past its cooldown: mana, and next_cast_time, which goes to the log.
Cast(p, time) ==
    /\ p \in present \cap Players
    /\ attrs[p].mana >= SkillCost
    /\ attrs' = [attrs EXCEPT ![p].mana = @ - SkillCost]
    /\ flags' = [flags EXCEPT ![p] = Flagged(@, "mana")]
    /\ skill_log' = [skill_log EXCEPT ![p] = Append(@, MarkDirty(0, time))]
    /\ UNCHANGED <<sightVars, clientVars>>

\* What a client has after the delta fs of an entity, where it had known before.
AfterDelta(known, fs, e) ==
    [f \in Fields |-> IF f \in fs THEN attrs[e][f] ELSE known[f]]

\* Faulty variant: what enters the sight is sent as a delta.
Seen_DeltaOnly(p, e, resent) == AfterDelta(others[p][e], flags[e], e)

\* The attributes of e after an update that shows it to p: everything if it has just
\* entered or its notify is sent again, the delta in any case.
Seen(p, e, resent) ==
    IF e \notin shown[p] \/ e \in resent
    THEN AfterDelta(attrs[e], flags[e], e)
    ELSE AfterDelta(others[p][e], flags[e], e)

\* Space::update: all deltas are taken first; each player's own client gets its own,
\* then what its player sees.  It calls Entity::reset_dirty, which leaves the flags
\* and logs of the components as they are.
Update ==
    /\ Deliver
    /\ \E resent \in [Players -> SUBSET Eids] :
          /\ \A p \in Players : resent[p] \subseteq shown[p] \cap sees[p]
          /\ others' = [p \in Players |-> [e \in Eids |->
                          IF e \in sees[p] THEN Seen(p, e, resent[p]) ELSE Nothing]]
    /\ own' = [p \in Players |->
                 IF p \in present THEN AfterDelta(own[p], flags[p], p) ELSE own[p]]
    /\ told' = [p \in Players |-> IF p \in present THEN skill_log[p] ELSE told[p]]
    /\ UNCHANGED serverVars

SightChanges == Refresh /\ UNCHANGED <<serverVars, clientVars>>

PropertyNext ==
    \/ \E e \in Eids :
          \/ Join(e) \/ LeaveForGood(e) \/ Hurt(e)
          \/ \E time \in Times : Cast(e, time)
    \/ SightChanges
    \/ Update

PropertySpec == PropertyInit /\ [][PropertyNext]_vars

-----------------------------------------------------------------------------
(* Properties *)

\* Attributes stay within their range, on the server and on the clients.
PropertyTypeOK ==
    /\ attrs \in [Eids -> [Fields -> Nat]]
    /\ flags \in [Eids -> SUBSET Fields]
    /\ \A p \in Players :
          /\ own[p] \in [Fields -> Nat \cup {-1}]
          /\ others[p] \in [Eids -> [Fields -> Nat \cup {-1}]]

\* Whatever a client has wrong of its player, or of an entity it shows, is flagged on
\* the server, so the next delta puts it right.
StaleIsFlagged ==
    /\ PropertyTypeOK
    /\ \A p \in Players \cap present, f \in Fields :
          /\ own[p][f] # attrs[p][f] => f \in flags[p]
          /\ \A e \in shown[p] : others[p][e][f] # attrs[e][f] => f \in flags[e]

\* An update leaves every client with the very attributes of its player and of all
\* its player sees, those that entered with this update, that were hurt since the
\* last one or whose enter message is sent again included.
UpdateBringsUpToDate ==
    [][Update =>
          \A p \in Players \cap present :
              /\ own'[p] = attrs[p]
              /\ \A e \in sees[p] : others'[p][e] = attrs[e]]_vars

\* space.cpp:236 says of the line after the deltas that it resets the state: so nothing
\* the deltas of this update have told is left to be told by the next one.
UpdateResets ==
    [][Update => \A e \in present : flags'[e] = {} /\ skill_log'[e] = <<>>]_vars
=============================================================================
