------------------------------- MODULE Space -------------------------------
(***************************************************************************)
(* A space (src/src/space.cpp): the entities in it, the area-of-interest   *)
(* service it owns, and what the clients of its players are told about     *)
(* each other's presence.                                                  *)
(*                                                                         *)
(* Every 100 ms Space::update fetches the sight of all entities and sends  *)
(* each player the entities that entered or left its sight.  A client      *)
(* keeps the set of entities it was told of (its view): an enter message   *)
(* adds to it and a leave message removes from it.  The client is not in   *)
(* the repository.                                                         *)
(*                                                                         *)
(* Space's map _eid_2_entity is GridAOI's life: its keys are Members.      *)
(***************************************************************************)
EXTENDS GridAOI

CONSTANT Players    \* the entities with a ConnectionComponent; others are monsters

ASSUME PlayersAssumption == Players \subseteq Eids

VARIABLE view       \* view[p]: the entities the client of p believes in sight

spaceVars == <<vars, view>>

-----------------------------------------------------------------------------
(* What a client makes of the notifies of its player. *)

\* Faulty variant: leave messages are filtered like enter messages.
Sent_LeavesFiltered(s) ==
    [i \in 1 .. Len(s) |->
        [is_add |-> s[i].is_add, entities |-> s[i].entities \cap Members]]

\* What Space::update puts into the messages for the notifies s: an enter message
\* carries only entities find_entity still knows, a leave message all of them.
Sent(s) ==
    [i \in 1 .. Len(s) |->
        [is_add   |-> s[i].is_add,
         entities |-> IF s[i].is_add THEN s[i].entities \cap Members
                                     ELSE s[i].entities]]

Mentions(m, x) == x \in m.entities

\* A view after the messages s: the last message that mentions an entity decides.
Applied(v, s) ==
    {x \in Eids :
        \/ x \in v /\ \A i \in 1 .. Len(s) : ~Mentions(s[i], x)
        \/ \E i \in 1 .. Len(s) :
              /\ Mentions(s[i], x) /\ s[i].is_add
              /\ \A j \in i + 1 .. Len(s) : ~Mentions(s[j], x)}

\* What the client of p would show if its pending notifies were sent now.
Pending(p) == Applied(view[p], Sent(entities[p].notifies))

-----------------------------------------------------------------------------
SpaceInit ==
    /\ Init
    /\ view = [p \in Players |-> {}]

\* Space::join of a new entity.
Join(e) ==
    /\ AddEntity(e)
    /\ UNCHANGED view

\* Space::leave, for a player that logs out or is disconnected; its client has
\* left the game.  Monsters stay.
Leave(p) ==
    /\ p \in Players
    /\ DelEntity(p)
    /\ view' = [view EXCEPT ![p] = {}]

\* Space::update_position.
Move(e) ==
    /\ UpdateEntity(e)
    /\ UNCHANGED view

\* Space::update: fetch all states, and for those find_entity knows (the members:
\* a ghost has eid 0) that have a connection send one message per notify, in order.
Update ==
    /\ FetchState
    /\ view' = [p \in Players |-> IF Member(p) THEN Pending(p) ELSE view[p]]

\* Whom sync_aoi_update tells p about: the entities in its sight that still exist.
AoiUpdates(p) == entities[p].interests \cap Members

\* Faulty variant: the message goes to those e sees.
CallOthers_Interests(e) == {p \in Players : Member(p) /\ p \in entities[e].interests}

\* call_others: the players a message about e is sent to.
CallOthers(e) == {p \in Players : Member(p) /\ p \in entities[e].observers}

\* ~Space stops the service.
Destroy == (StopCall \/ StopSetFlag \/ StopJoin) /\ UNCHANGED view

AOIStep == AOIThread /\ UNCHANGED view

SpaceNext ==
    \/ \E e \in Eids : Join(e) \/ Leave(e) \/ Move(e)
    \/ Update
    \/ Destroy
    \/ AOIStep
    \/ Terminated /\ UNCHANGED view

SpaceSpec == SpaceInit /\ [][SpaceNext]_spaceVars

(* The AOI thread is scheduled and the timer of the space runs Update again   *)
(* and again.  stop() gets _stop_flag_mutex at last: it is free for 50 ms in  *)
(* every round, but not continuously, hence the strong fairness.  Nothing     *)
(* makes the main thread call any other operation.                            *)
SpaceFairSpec ==
    /\ SpaceSpec
    /\ WF_spaceVars(AOIStep)
    /\ SF_spaceVars(StopSetFlag /\ UNCHANGED view)
    /\ WF_spaceVars(StopJoin /\ UNCHANGED view)
    /\ WF_spaceVars(Update)

-----------------------------------------------------------------------------
(* Properties *)

\* Whatever notifies are still pending or sent twice, a client that applied them
\* would show exactly those entities present that its player sees on the server.
ViewMatchesInterests ==
    /\ TypeOK /\ view \in [Players -> SUBSET Eids]
    /\ \A p \in Players \cap Members :
          Pending(p) \cap Members = AoiUpdates(p)

\* A message about an entity (an animation, its damage) reaches exactly the
\* clients that show it once their pending notifies are applied: call_others goes by
\* observers, the views by the interests of the others.
BroadcastMatchesView ==
    \A e \in Members :
        CallOthers(e) = {p \in Players \cap Members : e \in Pending(p)}

\* The promise of Sight, read off the variables of the space.
Promise == INSTANCE Sight WITH
    present <- Members,
    sees    <- [e \in Eids |-> IF Member(e) THEN entities[e].interests \cap Members ELSE {}],
    shown   <- [p \in Players |-> IF Member(p) THEN view[p] \cap Members ELSE {}]

KeepsPromise == Promise!Spec

\* When entities stop moving and leaving, every client comes to show, and goes on
\* showing, exactly the entities within the radius of its player.
ViewsConverge ==
    <>[](Stopping \/ \A p \in Players \cap Members :
                        view[p] = {b \in Members : b # p /\ Sees(p, b)})
=============================================================================
