------------------------------- MODULE Sight -------------------------------
(***************************************************************************)
(* What a space promises its players, without cells, threads, copies or    *)
(* messages.  The server holds a relation "who sees whom" among the        *)
(* entities present; it may recompute it at any time.  A client is shown   *)
(* the entities its player sees, and is brought up to date for all players *)
(* at once.                                                                *)
(***************************************************************************)
CONSTANTS
    Eids,       \* the entities that may ever enter
    Players     \* those with a client, a subset of Eids

ASSUME PlayersAreEids == Players \subseteq Eids

VARIABLES
    present,    \* the entities in the space
    sees,       \* e -> whom e sees
    shown       \* player -> whom its client is shown

sightVars == <<present, sees, shown>>

Init ==
    /\ present = {}
    /\ sees = [e \in Eids |-> {}]
    /\ shown = [p \in Players |-> {}]

\* A newcomer sees nobody, is seen by nobody and is shown nobody.
Enter(e) ==
    /\ e \notin present
    /\ present' = present \cup {e}
    /\ UNCHANGED <<sees, shown>>

\* Whoever leaves is forgotten on the server and on every client.
Leave(e) ==
    /\ e \in present
    /\ present' = present \ {e}
    /\ sees' = [a \in Eids |-> IF a = e THEN {} ELSE sees[a] \ {e}]
    /\ shown' = [p \in Players |-> IF p = e THEN {} ELSE shown[p] \ {e}]

\* The server recomputes the relation; nobody sees itself or an absentee.
Refresh ==
    /\ sees' \in [Eids -> SUBSET present]
    /\ \A a \in Eids : a \notin sees'[a] /\ (a \notin present => sees'[a] = {})
    /\ UNCHANGED <<present, shown>>

\* Every client is shown what its player sees.
Deliver ==
    /\ shown' = [p \in Players |-> sees[p]]
    /\ UNCHANGED <<present, sees>>

Next ==
    \/ \E e \in Eids : Enter(e) \/ Leave(e)
    \/ Refresh
    \/ Deliver

Spec == Init /\ [][Next]_sightVars
=============================================================================
