------------------------------ MODULE GridAOI ------------------------------
(***************************************************************************)
(* The area-of-interest service (src/src/aoi/aoi.h, grid_aoi.h and         *)
(* grid_aoi.cpp).  Two threads share the table _entities and the index     *)
(* _grids:                                                                 *)
(*                                                                         *)
(*  - the main thread (the libevent loop) adds, deletes and moves entities *)
(*    and fetches their sight.  Each call holds _data_mutex from its first *)
(*    line to its last, so it is one step here;                            *)
(*                                                                         *)
(*  - the AOI thread copies both structures under _data_mutex, computes    *)
(*    who sees whom on the copies WITHOUT the mutex, and publishes the     *)
(*    result under it.  While it computes, the query reads the positions   *)
(*    out of the live _entities and not out of the copy                    *)
(*    (grid_aoi.cpp:202): a position may have changed, may change between  *)
(*    the reads of its two coordinates, and the record may be gone, in     *)
(*    which case operator[] inserts a zeroed one (a "ghost").              *)
(*                                                                         *)
(* Coordinates are integers; the rounding of floats is not modelled.       *)
(***************************************************************************)
EXTENDS Integers, Sequences, FiniteSets

CONSTANTS
    Eids,       \* the entity ids gen_eid() may hand out; it counts from 1
    Positions,  \* the points <<x, y>> an entity may stand on
    Radii,      \* the view radii callers ask for
    GridSize,   \* _grid_size
    MaxMoves    \* bound: calls of update_entity that are explored

ASSUME EidsAssumption      == Eids \subseteq Nat \ {0}
ASSUME PositionsAssumption == Positions \subseteq Int \X Int
ASSUME RadiiAssumption     == Radii \subseteq Nat \ {0}
\* Even, so that _max_view_radius = 1.5 * _grid_size is an integer (Space uses 30).
ASSUME GridSizeAssumption  == GridSize \in Nat \ {0} /\ GridSize % 2 = 0
ASSUME MaxMovesAssumption  == MaxMoves \in Nat

VARIABLES
    entities,   \* _entities: a function from the keys of the map to records
    grids,      \* _grids: cell -> ids listed there (a cell not yet created is {})
    life,       \* the caller's view of an id (Space's _eid_2_entity)
    moves,      \* calls of update_entity so far (bounded by MaxMoves)
    touched,    \* history: ids added or moved since the last snapshot
    thread,     \* where the AOI thread is
    snap,       \* run()'s local `entities`: the copy, then the result
    snapGrids,  \* run()'s local `grids`
    todo,       \* update(): ids of the copy still to be visited
    cur,        \* update(): the id being visited, 0 for none
    cands,      \* the query: ids listed by the cells in range, not yet looked at
    found,      \* the query: ids found within the radius
    probe,      \* the query: the candidate whose first coordinate has been read
    stopPc      \* how far the main thread is in stop()

mainVars   == <<entities, grids, life, moves, touched>>
copyVars   == <<snap, snapGrids>>
queryVars  == <<todo, cur, cands, found, probe>>
threadVars == <<thread, snap, snapGrids, todo, cur, cands, found, probe>>
vars       == <<entities, grids, life, moves, touched, thread, snap, snapGrids,
                todo, cur, cands, found, probe, stopPc>>

-----------------------------------------------------------------------------
(* Geometry *)

\* static_cast<int>(a / b) for b > 0: the quotient truncated toward zero.
Trunc(a, b) == IF a >= 0 THEN a \div b ELSE -((-a) \div b)

MaxViewRadius == (GridSize * 3) \div 2

calc_grid_pos(x, y) == <<Trunc(x, GridSize), Trunc(y, GridSize)>>

Cells == {calc_grid_pos(p[1], p[2]) : p \in Positions}

\* hypot(dx, dy) < radius, squared; a radius of 0 contains nothing.
InCircle(dx, dy, radius) == dx * dx + dy * dy < radius * radius

\* Faulty variant: the loops stop before the last row and the last column.
CellInRange_OffByOne(c, x, y, radius) ==
    /\ Trunc(x - radius, GridSize) <= c[1] /\ c[1] < Trunc(x + radius, GridSize)
    /\ Trunc(y - radius, GridSize) <= c[2] /\ c[2] < Trunc(y + radius, GridSize)

\* The cells the two nested loops of _get_entities_in_circle visit.
CellInRange(c, x, y, radius) ==
    /\ Trunc(x - radius, GridSize) <= c[1] /\ c[1] <= Trunc(x + radius, GridSize)
    /\ Trunc(y - radius, GridSize) <= c[2] /\ c[2] <= Trunc(y + radius, GridSize)

\* The ids those cells of the index g list.
Candidates(x, y, radius, g) ==
    {e \in Eids : \E c \in Cells : CellInRange(c, x, y, radius) /\ e \in g[c]}

-----------------------------------------------------------------------------
(* Data *)

Notify == [is_add : BOOLEAN, entities : SUBSET Eids]

\* AOIEntity{ eid, x, y, radius }: nobody in sight, nobody watching.
NewEntity(e, p, radius) ==
    [eid |-> e, x |-> p[1], y |-> p[2], radius |-> radius,
     interests |-> {}, observers |-> {}, notifies |-> <<>>]

\* What operator[] inserts for a key it does not find.
Ghost ==
    [eid |-> 0, x |-> 0, y |-> 0, radius |-> 0,
     interests |-> {}, observers |-> {}, notifies |-> <<>>]

Member(e) == life[e] = "member"
Members   == {e \in Eids : Member(e)}
NoProbe   == [eid |-> 0, axis |-> "none", value |-> 0]

\* The table with record r stored under key e.
With(table, e, r) ==
    [k \in DOMAIN table \cup {e} |-> IF k = e THEN r ELSE table[k]]

\* The table without key e.
Without(table, e) == [k \in DOMAIN table \ {e} |-> table[k]]

Sees(a, b) == InCircle(entities[a].x - entities[b].x,
                       entities[a].y - entities[b].y, entities[a].radius)

-----------------------------------------------------------------------------
Init ==
    /\ entities = [e \in {} |-> Ghost]
    /\ grids = [c \in Cells |-> {}]
    /\ life = [e \in Eids |-> "fresh"]
    /\ moves = 0
    /\ touched = {}
    /\ thread = "start"
    /\ snap = [e \in {} |-> Ghost]
    /\ snapGrids = [c \in Cells |-> {}]
    /\ todo = {}
    /\ cur = 0
    /\ cands = {}
    /\ found = {}
    /\ probe = NoProbe
    /\ stopPc = "run"

-----------------------------------------------------------------------------
(* The main thread.  While it is inside stop() it calls nothing else.      *)

\* Faulty variant: the radius is stored as asked.
Clamped_Never(asked) == asked

\* add_entity never stores a radius above _max_view_radius.
Clamped(asked) == IF asked > MaxViewRadius THEN MaxViewRadius ELSE asked

\* add_entity.  The caller adds an id once, right after creating it.
AddEntity(e) ==
    /\ stopPc = "run"
    /\ life[e] = "fresh"
    /\ e \notin DOMAIN entities
    /\ \E p \in Positions, asked \in Radii :
          /\ entities' = With(entities, e, NewEntity(e, p, Clamped(asked)))
          /\ grids' = [grids EXCEPT ![calc_grid_pos(p[1], p[2])] = @ \cup {e}]
    /\ life' = [life EXCEPT ![e] = "member"]
    /\ touched' = touched \cup {e}
    /\ UNCHANGED <<moves, threadVars, stopPc>>

\* Faulty variant: the id stays listed by its cell.
DelEntity_StaysListed(e) ==
    /\ stopPc = "run"
    /\ Member(e)
    /\ entities' = Without(entities, e)
    /\ life' = [life EXCEPT ![e] = "gone"]
    /\ UNCHANGED <<grids, moves, touched, threadVars, stopPc>>

\* del_entity.  Other records keep the id in interests and observers.
DelEntity(e) ==
    /\ stopPc = "run"
    /\ Member(e)
    /\ e \in DOMAIN entities
    /\ grids' = [grids EXCEPT ![calc_grid_pos(entities[e].x, entities[e].y)] = @ \ {e}]
    /\ entities' = Without(entities, e)
    /\ life' = [life EXCEPT ![e] = "gone"]
    /\ UNCHANGED <<moves, touched, threadVars, stopPc>>

\* Faulty variants: the id is not taken out of the old cell, or not put into the
\* new one.
Regrid_StaysListed(g, e, old, new) ==
    [c \in Cells |-> IF c = new THEN g[c] \cup {e} ELSE g[c]]

\* Cross-cell part of update_entity: into the new cell, then out of the old one.
Regrid(g, e, old, new) ==
    IF old = new THEN g
    ELSE [c \in Cells |-> IF c = new THEN g[c] \cup {e}
                          ELSE IF c = old THEN g[c] \ {e} ELSE g[c]]

\* update_entity.
UpdateEntity(e) ==
    /\ stopPc = "run"
    /\ moves < MaxMoves
    /\ Member(e)
    /\ e \in DOMAIN entities
    /\ \E p \in Positions :
          /\ grids' = Regrid(grids, e, calc_grid_pos(entities[e].x, entities[e].y),
                             calc_grid_pos(p[1], p[2]))
          /\ entities' = [entities EXCEPT ![e].x = p[1], ![e].y = p[2]]
    /\ moves' = moves + 1
    /\ touched' = touched \cup {e}
    /\ UNCHANGED <<life, threadVars, stopPc>>

\* The state fetch_state() hands out, and the table it leaves: the notifies of
\* every record, ghosts included, are moved out.
Fetched(table) == [e \in DOMAIN table |-> [table[e] EXCEPT !.notifies = <<>>]]

\* fetch_state.
FetchState ==
    /\ stopPc = "run"
    /\ entities' = Fetched(entities)
    /\ UNCHANGED <<grids, life, moves, touched, threadVars, stopPc>>

\* get_entities_in_circle: the query, with the live index, under _data_mutex.
EntitiesInCircle(x, y, radius) ==
    {e \in Candidates(x, y, radius, grids) :
        InCircle(x - entities[e].x, y - entities[e].y, radius)}

\* stop(): the destructor of Space asks the AOI thread to end ...
StopCall ==
    /\ stopPc = "run"
    /\ stopPc' = "locking"
    /\ UNCHANGED <<mainVars, threadVars>>

\* _stop_flag_mutex is held by run() from its first line, but for the wait.
StopMutexFree == thread \in {"start", "wait", "exited"}

\* ... sets _is_stop and notifies ...
StopSetFlag ==
    /\ stopPc = "locking"
    /\ StopMutexFree
    /\ stopPc' = "joining"
    /\ UNCHANGED <<mainVars, threadVars>>

\* Faulty variant: the flag is set after the join.
IsStop_AfterJoin == stopPc = "stopped"

IsStop == stopPc \in {"joining", "stopped"}

\* ... and joins the thread.
StopJoin ==
    /\ stopPc = "joining"
    /\ thread = "exited"
    /\ stopPc' = "stopped"
    /\ UNCHANGED <<mainVars, threadVars>>

-----------------------------------------------------------------------------
(* The AOI thread *)

\* run() takes _stop_flag_mutex.
ThreadStart ==
    /\ thread = "start"
    /\ thread' = "check"
    /\ UNCHANGED <<mainVars, copyVars, queryVars, stopPc>>

\* The loop condition fails.
ThreadExit ==
    /\ thread = "check"
    /\ IsStop
    /\ thread' = "exited"
    /\ UNCHANGED <<mainVars, copyVars, queryVars, stopPc>>

\* Copy the index and the table under _data_mutex.
Snapshot ==
    /\ thread = "check"
    /\ ~IsStop
    /\ snap' = entities
    /\ snapGrids' = grids
    /\ todo' = DOMAIN entities
    /\ touched' = {}
    /\ thread' = "update"
    /\ UNCHANGED <<entities, grids, life, moves, cur, cands, found, probe, stopPc>>

\* Faulty variant: the query walks the live index instead of the copy.
BeginQuery_LiveIndex(a) ==
    /\ thread = "update"
    /\ cur = 0
    /\ a \in todo
    /\ todo' = todo \ {a}
    /\ cur' = a
    /\ cands' = Candidates(snap[a].x, snap[a].y, snap[a].radius, grids)
    /\ found' = {}
    /\ UNCHANGED <<mainVars, copyVars, thread, probe, stopPc>>

\* update() visits the next record of the copy and starts its query.
BeginQuery(a) ==
    /\ thread = "update"
    /\ cur = 0
    /\ a \in todo
    /\ todo' = todo \ {a}
    /\ cur' = a
    /\ cands' = Candidates(snap[a].x, snap[a].y, snap[a].radius, snapGrids)
    /\ found' = {}
    /\ UNCHANGED <<mainVars, copyVars, thread, probe, stopPc>>

\* The query takes _entities[c], without the mutex, and reads one of its two
\* coordinates (hypot's arguments are evaluated in either order).  A missing
\* record is inserted as a ghost.
ReadFirst(c) ==
    /\ thread = "update"
    /\ cur # 0
    /\ probe = NoProbe
    /\ c \in cands
    /\ cands' = cands \ {c}
    /\ entities' = IF c \in DOMAIN entities THEN entities ELSE With(entities, c, Ghost)
    /\ \E axis \in {"x", "y"} :
          probe' = [eid |-> c, axis |-> axis,
                    value |-> IF axis = "x" THEN entities'[c].x ELSE entities'[c].y]
    /\ UNCHANGED <<grids, life, moves, touched, copyVars, thread, todo, cur, found, stopPc>>

\* The other coordinate, and the comparison.  If the record was erased between
\* the two reads its memory is freed: what is read, and so the answer, is arbitrary.
ReadSecond ==
    LET c  == probe.eid
        a  == snap[cur]
        x  == IF probe.axis = "x" THEN probe.value ELSE entities[c].x
        y  == IF probe.axis = "y" THEN probe.value ELSE entities[c].y
    IN  /\ thread = "update"
        /\ probe # NoProbe
        /\ IF c \in DOMAIN entities
           THEN found' = IF InCircle(a.x - x, a.y - y, a.radius)
                         THEN found \cup {c} ELSE found
           ELSE found' \in {found, found \cup {c}}
        /\ probe' = NoProbe
        /\ UNCHANGED <<mainVars, copyVars, thread, todo, cur, cands, stopPc>>

\* Faulty variant: the second notify is marked as an addition too.
Triggered_AlwaysAdd(notifies, old, new) ==
    notifies \o (IF new \ old = {} THEN <<>> ELSE <<[is_add |-> TRUE, entities |-> new \ old]>>)
             \o (IF old \ new = {} THEN <<>> ELSE <<[is_add |-> TRUE, entities |-> old \ new]>>)

\* The notifies of a record after its interests went from old to new.
Triggered(notifies, old, new) ==
    notifies \o (IF new \ old = {} THEN <<>> ELSE <<[is_add |-> TRUE,  entities |-> new \ old]>>)
             \o (IF old \ new = {} THEN <<>> ELSE <<[is_add |-> FALSE, entities |-> old \ new]>>)

\* Faulty variant: nobody is taken out of observers.
Registered_NeverErased(observers, a, b, old, new) ==
    IF b \in new \ old THEN observers \cup {a} ELSE observers

\* The observers of record b after a's interests went from old to new.
Registered(observers, a, b, old, new) ==
    IF b \in new \ old THEN observers \cup {a}
    ELSE IF b \in old \ new THEN observers \ {a} ELSE observers

\* Faulty variant: the entity, at distance 0 of itself, is not erased.
NewInterests_WithSelf(a, hits) == hits

\* Everybody within the radius but the entity itself.
NewInterests(a, hits) == hits \ {a}

\* The rest of update()'s loop body, on the copy.  The ids added to interests
\* are all in the copy (QueryStaysInCopy), so entities[other_eid] inserts none.
FinishQuery ==
    LET old == snap[cur].interests
        new == NewInterests(cur, found)
    IN  /\ thread = "update"
        /\ cur # 0
        /\ probe = NoProbe
        /\ cands = {}
        /\ snap' = [b \in DOMAIN snap |->
              [snap[b] EXCEPT
                 !.observers = Registered(@, cur, b, old, new),
                 !.interests = IF b = cur THEN new ELSE @,
                 !.notifies  = IF b = cur THEN Triggered(@, old, new) ELSE @]]
        /\ cur' = 0
        /\ found' = {}
        /\ UNCHANGED <<mainVars, thread, snapGrids, todo, cands, probe, stopPc>>

\* Faulty variant: whole records are put back, without the contains() test.
Published_WholeRecords(table, copy) ==
    [e \in DOMAIN table \cup DOMAIN copy |->
        IF e \in DOMAIN copy THEN copy[e] ELSE table[e]]

\* Faulty variant: the notifies of the round are dropped.
Published_NoNotifies(table, copy) ==
    [e \in DOMAIN table |->
        IF e \in DOMAIN copy
        THEN [table[e] EXCEPT !.interests = copy[e].interests,
                              !.observers = copy[e].observers]
        ELSE table[e]]

\* The live table once the sight computed in copy is swapped in.
Published(table, copy) ==
    [e \in DOMAIN table |->
        IF e \in DOMAIN copy
        THEN [table[e] EXCEPT !.interests = copy[e].interests,
                              !.observers = copy[e].observers,
                              !.notifies  = copy[e].notifies]
        ELSE table[e]]

\* Swap the sight into the live table under _data_mutex, drop the copies, wait.
Publish ==
    /\ thread = "update"
    /\ cur = 0
    /\ todo = {}
    /\ entities' = Published(entities, snap)
    /\ thread' = "wait"
    /\ snap' = [e \in {} |-> Ghost]
    /\ snapGrids' = [c \in Cells |-> {}]
    /\ UNCHANGED <<grids, life, moves, touched, queryVars, stopPc>>

\* wait_for returns: 50 ms have passed, or stop() notified.
Wake ==
    /\ thread = "wait"
    /\ thread' = "check"
    /\ UNCHANGED <<mainVars, copyVars, queryVars, stopPc>>

-----------------------------------------------------------------------------
MainThread ==
    \/ \E e \in Eids : AddEntity(e) \/ DelEntity(e) \/ UpdateEntity(e)
    \/ FetchState
    \/ StopCall
    \/ StopSetFlag
    \/ StopJoin

AOIThread ==
    \/ ThreadStart
    \/ ThreadExit
    \/ Snapshot
    \/ \E a \in Eids : BeginQuery(a) \/ ReadFirst(a)
    \/ ReadSecond
    \/ FinishQuery
    \/ Publish
    \/ Wake

\* The space is destroyed: nothing is left to run.
Terminated == stopPc = "stopped" /\ UNCHANGED vars

Next == MainThread \/ AOIThread \/ Terminated

Spec == Init /\ [][Next]_vars

-----------------------------------------------------------------------------
(* Properties *)

Entity == [eid : Nat, x : Int, y : Int, radius : 0 .. MaxViewRadius,
           interests : SUBSET Eids, observers : SUBSET Eids, notifies : Seq(Notify)]

\* Every variable of the service holds a value of its type (GridAOI's members
\* and run()'s locals), and no record has a radius above _max_view_radius.
TypeOK ==
    /\ DOMAIN entities \subseteq Eids
    /\ \A e \in DOMAIN entities : entities[e] \in Entity
    /\ grids \in [Cells -> SUBSET Eids]
    /\ life \in [Eids -> {"fresh", "member", "gone"}]
    /\ moves \in 0 .. MaxMoves
    /\ touched \subseteq Eids
    /\ thread \in {"start", "check", "update", "wait", "exited"}
    /\ DOMAIN snap \subseteq Eids
    /\ \A e \in DOMAIN snap : snap[e] \in Entity
    /\ snapGrids \in [Cells -> SUBSET Eids]
    /\ todo \subseteq Eids
    /\ cur \in Eids \cup {0}
    /\ cands \subseteq Eids
    /\ found \subseteq Eids
    /\ probe \in [eid : Eids, axis : {"x", "y"}, value : Int] \cup {NoProbe}
    /\ stopPc \in {"run", "locking", "joining", "stopped"}

\* The index agrees with the table: a cell lists exactly the members standing on
\* it (add_entity, del_entity and the cross-cell branch of update_entity), so no
\* ghost is ever listed and no member is listed twice.
GridsMatch ==
    \A e \in Eids, c \in Cells :
        e \in grids[c] <=> /\ Member(e)
                           /\ c = calc_grid_pos(entities[e].x, entities[e].y)

\* Between the callers' operations the table holds every member under its own
\* id; any other key is a ghost, blank, with eid 0 and radius 0, which
\* Space::update drops because find_entity(0) fails.
GhostsInert ==
    /\ \A e \in Members : e \in DOMAIN entities /\ entities[e].eid = e
    /\ \A e \in DOMAIN entities \ Members :
          entities[e].eid = 0 /\ entities[e].radius = 0 /\ life[e] = "gone"

\* The unlocked query of the AOI thread only meets ids of the copy: a candidate
\* comes from the copied index, which agrees with the copied table.  Otherwise
\* entities[other_eid] (grid_aoi.cpp:91) would grow the map under iteration.
QueryStaysInCopy == cur # 0 => cands \cup found \cup {cur} \subseteq DOMAIN snap

\* The grid query, which only looks at cells that overlap the square around the
\* circle, misses nobody: it equals a scan of all members (find_entities_in_circle
\* and find_entities_in_sector aim attacks with it).
QueryExact ==
    \A p \in Positions, radius \in Radii :
        EntitiesInCircle(p[1], p[2], radius) =
            {e \in Members : InCircle(p[1] - entities[e].x, p[2] - entities[e].y, radius)}

\* "I see you" and "I am watched by you" agree for every two members, whatever
\* was added, deleted or moved during the rounds: a message call_others sends to
\* the observers of b reaches exactly those whose interests hold b.
Symmetry ==
    \A a, b \in Members :
        b \in entities[a].interests <=> a \in entities[b].observers

\* What a round publishes is right for all it could know: two members that were
\* neither added nor moved since its snapshot see each other exactly when within
\* the radius, although the query read live positions without the mutex.
FreshSight ==
    thread = "wait" =>
        \A a, b \in Members \ touched :
            b \in entities[a].interests <=> a # b /\ Sees(a, b)

Stopping == stopPc # "run"

\* stop() returns: no wakeup is lost between the flag, the notification and the
\* wait of the AOI thread, and the join ends.
StopReturns == Stopping ~> stopPc = "stopped"

\* A deleted entity leaves the interests of everybody and stays out of them.
InterestsForget ==
    \A e \in Eids :
        life[e] = "gone" ~>
            [](Stopping \/ \A a \in Members : e \notin entities[a].interests)
=============================================================================
