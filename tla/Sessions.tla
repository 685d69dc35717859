------------------------------ MODULE Sessions ------------------------------
(***************************************************************************)
(* Connections, logins and the players behind them (src/src/               *)
(* space_service.cpp, with tcp_connection.cpp, tcp_server.cpp, player.cpp  *)
(* and the membership of space.cpp).  Every message is handled between two *)
(* timer updates; connections come and go in any order with the messages,  *)
(* and the memory of a closed connection may serve the next one.           *)
(*                                                                         *)
(* The send buffer of a connection (16 MB) is assumed not to overflow.     *)
(***************************************************************************)
EXTENDS Combat

CONSTANTS
    Conns,      \* the addresses a TcpConnection may get
    Names       \* the user names clients ask for

VARIABLES
    open,       \* the addresses of the connections that exist
    player,     \* _conn_2_player: a function on its keys to eids
    names,      \* _exists_names
    name_of,    \* _name of each Player alive
    members,    \* Space::_eid_2_entity
    service     \* "up", or "stopped" once stop() has returned

tables      == <<player, names, name_of>>
sessionVars == <<open, player, names, name_of, members, service>>
vars        == <<timerVars, combatVars, sessionVars>>

\* The service is up and gets to handle an event.
Up == Handling /\ service = "up"

\* A message of a connection that is logged in.
Logged(c) == Up /\ c \in open /\ c \in DOMAIN player

-----------------------------------------------------------------------------
\* SpaceService::start, and Space's constructor with its monster.
SessionsInit ==
    /\ CombatInit
    /\ open = {}
    /\ player = [c \in {} |-> 0]
    /\ names = {}
    /\ name_of = [e \in {} |-> 0]
    /\ members = {1}
    /\ service = "up"

\* TcpServer::on_new_connection.
Accept(c) ==
    /\ Up
    /\ c \notin open
    /\ open' = open \cup {c}
    /\ UNCHANGED <<timerVars, combatVars, tables, members, service>>

\* Somebody is logged in under that name.
NameTaken(n) == n \in names

\* login, unless it is refused: already logged in, or the name exists.
Login(c, n) ==
    /\ Up
    /\ c \in open
    /\ c \notin DOMAIN player
    /\ ~NameTaken(n)
    /\ Spawn
    /\ player' = [d \in DOMAIN player \cup {c} |-> IF d = c THEN gen_eid ELSE player[d]]
    /\ names' = names \cup {n}
    /\ name_of' = [e \in DOMAIN name_of \cup {gen_eid} |->
                     IF e = gen_eid THEN n ELSE name_of[e]]
    /\ UNCHANGED <<open, members, service>>

\* join.  Space::join does nothing for an entity it has.
Join(c) ==
    /\ Logged(c)
    /\ player[c] \notin members
    /\ EnterSpace(player[c])
    /\ members' = members \cup {player[c]}
    /\ UNCHANGED <<open, tables, service>>

\* SpaceService::leave for a connection that has a player: out of the space, out of
\* the tables, deleted.
Logout(c) ==
    LET e == player[c]
    IN  /\ Despawn({e})
        /\ members' = members \ {e}
        /\ player' = Without(player, {c})
        /\ names' = names \ {name_of[e]}
        /\ name_of' = Without(name_of, {e})

\* The leave message.  The connection stays and may log in again.
Leave(c) ==
    /\ Logged(c)
    /\ Logout(c)
    /\ UNCHANGED <<open, service>>

\* The normal_attack and skill_attack messages.
Attack(c) ==
    /\ Logged(c)
    /\ NormalAttack(player[c])
    /\ UNCHANGED sessionVars

Cast(c) ==
    /\ Logged(c)
    /\ CastSkill(player[c])
    /\ UNCHANGED sessionVars

\* Faulty variant: the connection is deleted and its player left alone.
Lost_KeepsPlayer(c) ==
    /\ Up
    /\ c \in open
    /\ open' = open \ {c}
    /\ UNCHANGED <<timerVars, combatVars, tables, members, service>>

\* The peer closes or resets the connection: on_lost_connection logs its player
\* out, if it has one, and deletes it.  on_error does nothing for any other error.
Lost(c) ==
    /\ Up
    /\ c \in open
    /\ IF c \in DOMAIN player THEN Logout(c)
       ELSE UNCHANGED <<timerVars, combatVars, tables, members>>
    /\ open' = open \ {c}
    /\ UNCHANGED service

\* SpaceService::stop: the space is deleted, then all players; the tables are left as
\* they are, and TcpServer::stop frees the listeners.
Stop ==
    /\ Up
    /\ Despawn({player[c] : c \in DOMAIN player})
    /\ members' = {}
    /\ service' = "stopped"
    /\ UNCHANGED <<open, tables>>

\* The timers of the process run whether the service is up or not.
TimerStep ==
    /\ Time \/ \E t \in DOMAIN jobs : Effect(t)
    /\ UNCHANGED sessionVars

\* Nothing that uses the tables is followed once stop() has returned.
Terminated ==
    /\ Ended \/ (service = "stopped" /\ UNCHANGED <<timerVars, combatVars>>)
    /\ UNCHANGED sessionVars

Next ==
    \/ \E c \in Conns :
          \/ Accept(c) \/ Lost(c)
          \/ \E n \in Names : Login(c, n)
          \/ Join(c) \/ Leave(c) \/ Attack(c) \/ Cast(c)
    \/ Stop
    \/ TimerStep
    \/ Terminated

Spec == SessionsInit /\ [][Next]_vars

-----------------------------------------------------------------------------
(* Properties *)

\* Connections, tables and the membership have their types.
TypeOK ==
    /\ CombatTypeOK
    /\ open \subseteq Conns
    /\ DOMAIN player \subseteq Conns
    /\ \A c \in DOMAIN player : player[c] \in Nat \ {0}
    /\ names \subseteq Names
    /\ DOMAIN name_of \subseteq 2 .. next_eid - 1
    /\ \A e \in DOMAIN name_of : name_of[e] \in Names
    /\ members \subseteq 1 .. next_eid - 1
    /\ service \in {"up", "stopped"}

\* Every Player alive belongs to exactly one connection that still exists, and every
\* entry of _conn_2_player leads to a Player alive: none is leaked, none is used
\* after its deletion, and a connection at a reused address starts as nobody.
OnePlayerPerConnection ==
    service = "up" =>
        /\ DOMAIN fighters \ {1} = {player[c] : c \in DOMAIN player}
        /\ \A c, d \in DOMAIN player : player[c] = player[d] => c = d
        /\ DOMAIN player \subseteq open

\* The set of names is the set of the names of the players, and no two players have
\* the same: a name is free again exactly when its player has gone.
NamesMatch ==
    service = "up" =>
        /\ DOMAIN name_of = DOMAIN fighters \ {1}
        /\ names = {name_of[e] : e \in DOMAIN name_of}
        /\ \A e, f \in DOMAIN name_of : name_of[e] = name_of[f] => e = f

\* The table of the space and the space pointers of its entities agree, so whoever is
\* found in the space is alive.
MembersMatch == service = "up" => members = InSpace

\* The three tables and the players alive tell the same story: none is leaked, none is
\* used after its deletion, none keeps a name that could be given to another.
TablesMatch == TypeOK /\ OnePlayerPerConnection /\ NamesMatch /\ MembersMatch

\* What the space and its AOI know of an eid that has been handed out, in the words of
\* GridAOI's variable life: nothing yet, that it is there, or that it is over.
Life(e) ==
    IF e \in members THEN "member"
    ELSE IF service = "up" /\ e \in DOMAIN fighters THEN "fresh"
    ELSE "gone"

\* An eid lives once, as GridAOI takes for granted of its ids: its entity enters the
\* space at most once, and once it has left the space, or is deleted without having
\* entered it, the eid names nobody ever again.  So nothing kept under an eid by a
\* round of the AOI thread, a view of a client or a table can come to mean another
\* player, whoever logs in later, over whichever connection, under whichever name.
LivesOnce ==
    [][\A e \in 1 .. next_eid - 1 :
          <<Life(e), Life(e)'>> \notin {<<"gone", "fresh">>, <<"gone", "member">>,
                                       <<"member", "fresh">>}]_vars

\* player.cpp:62 asserts that whoever plays an animation is in a space.
AssertionHolds == fault # "assertion"
=============================================================================
