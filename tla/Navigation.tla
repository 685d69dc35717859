----------------------------- MODULE Navigation -----------------------------
(***************************************************************************)
(* The navigation of space.cpp: the mesh is loaded from a file, and a      *)
(* query_path message sends the monster of the space on its way (whoever   *)
(* sends it, logged in or not).  Walk moves it along the corners of its    *)
(* path.  A message that comes while it walks sends it elsewhere from      *)
(* where it is.                                                            *)
(***************************************************************************)
EXTENDS StraightPath, Walk

CONSTANTS
    Files,       \* what may be in DemoScene.bin: sequences of tiles with references
    Goals,       \* the places messages name
    MaxNodes,    \* nodes of the query (2048)
    MaxPath,     \* room for a path, and for its corners (512)
    MaxRequests, \* bound: query_path messages
    LastRequest  \* bound: when the last may come; there is time for a walk after it

ASSUME NavigationAssumption ==
    {MaxNodes, MaxPath} \subseteq Nat \ {0} /\ {MaxRequests, LastRequest} \subseteq Nat

VARIABLES
    file,      \* the file, and the number of the tile that is read next, 0 at the end
    requests   \* how many messages came

vars == <<searchVars, walkVars, file, requests>>

Mirror(p) == [p EXCEPT ![1] = -@]

-----------------------------------------------------------------------------
(* loadAll *)

Entry == file.tiles[file.at]

\* What addTile answers is not looked at: a tile that does not fit is left out.
LoadTile ==
    /\ file.at \in DOMAIN file.tiles
    /\ Entry.ref # 0
    /\ file' = [file EXCEPT !.at = @ + 1]
    /\ IF MayReturn(Entry.ref) /\ Fits(DataOf(Entry.name)) THEN reloadTile(Entry.name, Entry.ref)
                                                   ELSE UNCHANGED meshVars
    /\ UNCHANGED <<queryVars, walkVars, requests>>

\* At the end of the file, or at a tile without a reference.
LoadEnd ==
    /\ file.at # 0
    /\ file.at \in DOMAIN file.tiles => Entry.ref = 0
    /\ file' = [file EXCEPT !.at = 0]
    /\ UNCHANGED <<searchVars, walkVars, requests>>

-----------------------------------------------------------------------------
(* Space::find_path: the corners from a to b, none if either is too far    *)
(* from the mesh.  The x axis is mirrored on the way in and out.           *)

Straight(from, end, path) ==
    LET corners == findStraightPath(tiles, from, end, path, MaxPath).corners
    IN  [i \in DOMAIN corners |-> Mirror(corners[i].pos)]

\* A path that ends short of the polygon of the goal ends as near to the goal as it gets.
StraightTo(from, to, toRef, path) ==
    LET last == path[Len(path)]
    IN  Straight(from, IF last = toRef THEN to ELSE closestPointOnPoly(PolyOf(tiles, last), to).pt, path)

\* Without a polygon near both places findPath finds nothing, and findStraightPath, given a
\* path of no polygons, no corners; what pathPolys[-1] holds, which is read in between, can
\* move the end of that path only.
PathBetween(from, to, fromRef, toRef) ==
    IF fromRef = 0 \/ toRef = 0 THEN << >>
    ELSE StraightTo(from, to, toRef,
                    findPath(tiles, fromRef, toRef, from, to, MaxNodes, Home, MaxPath).path)

find_path(a, b) ==
    PathBetween(Mirror(a), Mirror(b), findNearestPoly(tiles, posLookup, Mirror(a), Reachable),
                findNearestPoly(tiles, posLookup, Mirror(b), Reachable))

-----------------------------------------------------------------------------
(* The monster *)

\* SpaceService::query_path, Space::navigation_test and move_to.
QueryPath(goal) ==
    /\ file.at = 0
    /\ requests < MaxRequests /\ now <= LastRequest
    /\ requests' = requests + 1
    /\ MoveTo(find_path(monster.pos, goal))
    /\ UNCHANGED <<searchVars, file>>

Init ==
    /\ SearchInit
    /\ WalkInit
    /\ \E f \in Files : file = [tiles |-> f, at |-> 1]
    /\ requests = 0

\* The monster walks, or time passes.
WalkOn == Update /\ UNCHANGED <<searchVars, file, requests>>
Elapse == file.at = 0 /\ Clock /\ UNCHANGED <<searchVars, file, requests>>

Next ==
    \/ LoadTile
    \/ LoadEnd
    \/ \E goal \in Goals : QueryPath(goal)
    \/ WalkOn
    \/ Elapse

\* The event loop runs the timers again and again, and a callback that began goes on; nobody
\* has to send a message.
Spec == Init /\ [][Next]_vars /\ WF_vars(Elapse) /\ WF_vars(WalkOn)

-----------------------------------------------------------------------------
(* Properties *)

\* The monster is on the surface, seen from above, whatever way it was sent and wherever
\* it was when the next message came (find_path, findStraightPath, update).
StaysOnMesh ==
    file.at = 0 =>
        \E r \in PolyRefs(tiles) : InOrOn(Mirror(monster.pos), PolyOf(tiles, r))

\* A walk comes to its end, if no message sends the monster elsewhere: the timer that drives
\* it cancels itself (update).
Arrives == monster.timer # -1 ~> monster.timer = -1
=============================================================================
