------------------------------ MODULE NavQuery ------------------------------
(***************************************************************************)
(* Detour/DetourNavMeshQuery.cpp and DetourNode.{h,cpp}: searching the     *)
(* navigation mesh for a path, at once (findPath, what the server calls)   *)
(* or in slices, between which tiles may come and go.                      *)
(*                                                                         *)
(* Distances are |dx| + |dy| + |dz|, a metric as the code's is; points     *)
(* between two others are rounded.  The filter is the default one.  The    *)
(* any-angle option is left out.  A status is a set of flags.              *)
(***************************************************************************)
EXTENDS NavMesh

CONSTANTS
    AreaCost,    \* m_areaCost: a factor for each area
    TileSize,    \* the width of a tile
    PoolSizes,   \* how many nodes a query may have
    PathSizes,   \* the room of the caller for a path
    MaxAsked,    \* bound: changes of the mesh before a query
    Places,      \* where the callers are and want to go
    Junk         \* what may be left in the memory of the pool

ASSUME NavQueryAssumption ==
    PoolSizes \subseteq Nat \ {0} /\ PathSizes \subseteq Nat \ {0} /\ TileSize \in Nat \ {0}

VARIABLES
    query,   \* m_query and the node pool and open list behind it
    found,   \* history: what the last finalize returned
    calm     \* history: no tile has changed since the query began

queryVars == <<query, found, calm>>
searchVars == <<meshVars, queryVars>>

SUCCESS     == {"SUCCESS"}
FAILURE     == {"FAILURE"}
IN_PROGRESS == {"IN_PROGRESS"}
Details(status) == status \cap {"PARTIAL_RESULT", "OUT_OF_NODES", "BUFFER_TOO_SMALL"}

Answer(status, path) == [status |-> status, path |-> path]
INVALID_PARAM == Answer(FAILURE \cup {"INVALID_PARAM"}, << >>)

passFilter(poly) == poly.flags # 0
getCost(a, b, poly) == Dist(a, b) * AreaCost[poly.area]

-----------------------------------------------------------------------------
(* The node pool and the open list.  A search s has nodes, in the order    *)
(* they were made, and the heap of those that are open.                    *)

Node(id, state, pos) == [id |-> id, state |-> state, pos |-> pos, cost |-> 0, total |-> 0,
                         pidx |-> 0, flag |-> "NEW"]

findNode(nodes, id, state) ==
    LET hits == {n \in DOMAIN nodes : nodes[n].id = id /\ nodes[n].state = state}
    IN  IF hits = {} THEN 0 ELSE Most(hits)

\* findNodes(id, ., 1): the newest.
findNodes(nodes, id) ==
    LET hits == {n \in DOMAIN nodes : nodes[n].id = id} IN IF hits = {} THEN 0 ELSE Most(hits)

\* The node is there, or made; without room there is none, and nodes stay.
getNode(s, id, state) ==
    IF findNode(s.nodes, id, state) # 0 \/ Len(s.nodes) >= s.room THEN s.nodes
    ELSE Append(s.nodes, Node(id, state, s.junk))

RECURSIVE bubbleUp(_, _, _, _)
bubbleUp(nodes, heap, i, n) ==
    IF i > 1 /\ nodes[heap[i \div 2]].total > nodes[n].total
        THEN bubbleUp(nodes, [heap EXCEPT ![i] = heap[i \div 2]], i \div 2, n)
        ELSE [heap EXCEPT ![i] = n]

\* The hole goes down to the bottom, then n up from there.
RECURSIVE trickleDown(_, _, _, _)
trickleDown(nodes, heap, i, n) ==
    LET left  == 2 * i
        child == IF left < Len(heap) /\ nodes[heap[left]].total > nodes[heap[left + 1]].total
                 THEN left + 1 ELSE left
    IN  IF left > Len(heap) THEN bubbleUp(nodes, heap, i, n)
        ELSE trickleDown(nodes, [heap EXCEPT ![i] = heap[child]], child, n)

\* Faulty variant: the last takes the first place and stays there.
pop_Stays(nodes, heap) ==
    IF Len(heap) = 1 THEN << >> ELSE <<heap[Len(heap)]>> \o SubSeq(heap, 2, Len(heap) - 1)

pop(nodes, heap) ==
    LET rest == SubSeq(heap, 1, Len(heap) - 1)
    IN  IF rest = << >> THEN << >> ELSE trickleDown(nodes, rest, 1, heap[Len(heap)])

push(nodes, heap, n) == bubbleUp(nodes, Append(heap, n), Len(heap) + 1, n)

\* n has become cheaper.
modify(nodes, heap, n) == bubbleUp(nodes, heap, CHOOSE i \in DOMAIN heap : heap[i] = n, n)

\* The nodes from the first to n.
RECURSIVE Chain(_, _)
Chain(nodes, n) == IF n = 0 THEN << >> ELSE Append(Chain(nodes, nodes[n].pidx), n)

PathTo(nodes, n) == LET c == Chain(nodes, n) IN [i \in DOMAIN c |-> nodes[c[i]].id]

-----------------------------------------------------------------------------
(* Polygons near a place *)

calcTileLoc(pos) == <<pos[1] \div TileSize, pos[3] \div TileSize>>

Range2(lo, hi) == [i \in 1 .. (hi - lo + 1) |-> lo + i - 1]

\* The tiles of the rows of places from lo to hi.
TilesIn(ts, lut, lo, hi) ==
    Through(LAMBDA s, y : Through(LAMBDA s2, x : s2 \o getTilesAt(ts, lut, x, y), s, Range2(lo[1], hi[1])),
            << >>, Range2(lo[2], hi[2]))

RefsOf(ts, t, polys) == [i \in DOMAIN polys |-> Ref(ts, t, polys[i])]

\* The polygons the filter passes in the tiles a box touches, tile by tile.
PolysIn(ts, lut, box) ==
    Through(LAMBDA s, t : s \o RefsOf(ts, t, SelectSeq(queryPolygonsInTile(ts, t, box),
                                                      LAMBDA p : passFilter(ts[t].polys[p]))),
            << >>, TilesIn(ts, lut, calcTileLoc(box.bmin), calcTileLoc(box.bmax)))

queryPolygons(ts, lut, center, ext) == PolysIn(ts, lut, Around(center, ext))

RefDistance(ts, ref, pos) ==
    NearDistance(PolyOf(ts, ref), pos, ts[decodePolyIdTile(ref)].data.climb)

\* Where in a sequence the least value is first.
FirstLeast(d) == Least({n \in DOMAIN d : \A m \in DOMAIN d : d[n] <= d[m]})

NearestRef(ts, refs, pos) ==
    IF refs = << >> THEN 0
    ELSE refs[FirstLeast([i \in DOMAIN refs |-> RefDistance(ts, refs[i], pos)])]

\* The first of the nearest; none is zero.
findNearestPoly(ts, lut, center, ext) == NearestRef(ts, queryPolygons(ts, lut, center, ext), center)

-----------------------------------------------------------------------------
(* Portals *)

FirstLink(ts, from, to) ==
    LET hits == {i \in DOMAIN LinksOf(ts, from) : LinksOf(ts, from)[i].ref = to}
    IN  IF hits = {} THEN {} ELSE {LinksOf(ts, from)[Least(hits)]}

\* What has to be crossed at a link between two polygons: one point at an off-mesh
\* connection, part of an edge at the border of a tile.
Portal(e, link) ==
    IF link.side = ONE_TILE THEN e
    ELSE <<Lerp(e[1], e[2], link.bmin, 255), Lerp(e[1], e[2], link.bmax, 255)>>

PointOf(poly, link) == <<poly.verts[link.edge], poly.verts[link.edge]>>

\* None if either has lost its link to the other.
getPortalPoints(ts, from, to) ==
    LET a == PolyOf(ts, from)
        b == PolyOf(ts, to)
        there(link) ==
            CASE a.type = "OFFMESH" -> {PointOf(a, link)}
              [] a.type # "OFFMESH" /\ b.type = "OFFMESH" -> {PointOf(b, l) : l \in FirstLink(ts, to, from)}
              [] OTHER -> {Portal(EdgeOf(a, link.edge), link)}
    IN  UNION {there(link) : link \in FirstLink(ts, from, to)}

MidOf(portals, was) ==
    IF portals = {} THEN was ELSE LET x == CHOOSE x \in portals : TRUE IN Lerp(x[1], x[2], 1, 2)

\* The status of the call is ignored: without a portal the position stays what it was.
getEdgeMidPoint(ts, from, to, was) == MidOf(getPortalPoints(ts, from, to), was)

-----------------------------------------------------------------------------
(* The search.  Costs are multiplied by 1000 in totals, for H_SCALE.       *)

Heuristic(pos, to) == 999 * Dist(pos, to)

StartSearch(from, to, a, b, room, junk) ==
    [start |-> from, end |-> to, a |-> a, b |-> b, room |-> room, junk |-> junk,
     nodes |-> <<[Node(from, 0, a) EXCEPT !.total = Heuristic(a, b), !.flag = "OPEN"]>>,
     heap |-> <<1>>, last |-> 1, lastCost |-> Heuristic(a, b), out |-> FALSE]

\* Node n has its place and price in nodes now, and goes into the open list or up in it.
Queued(s, n, nodes) ==
    [s EXCEPT !.nodes = nodes,
              !.heap = IF s.nodes[n].flag = "OPEN" THEN modify(nodes, @, n) ELSE push(nodes, @, n)]

\* Node n of s is reached from node b, at a better price or for the first time.
ReachedFor(s, b, n, pos, cost, h) ==
    LET total == 1000 * cost + h
    IN  IF s.nodes[n].flag # "NEW" /\ total >= s.nodes[n].total THEN s
        ELSE [Queued(s, n, [s.nodes EXCEPT ![n] = [@ EXCEPT !.pos = pos, !.pidx = b, !.cost = cost,
                                                            !.total = total, !.flag = "OPEN"]])
                EXCEPT !.last = IF h < s.lastCost THEN n ELSE @,
                       !.lastCost = IF h < @ THEN h ELSE @]

ReachedAt(ts, s, b, n, pos) ==
    LET best  == s.nodes[b]
        final == s.nodes[n].id = s.end
    IN  ReachedFor(s, b, n, pos,
            best.cost + getCost(best.pos, pos, PolyOf(ts, best.id))
                + (IF final THEN getCost(pos, s.b, PolyOf(ts, s.end)) ELSE 0),
            IF final THEN 0 ELSE Heuristic(pos, s.b))

Improve(ts, s, b, n) ==
    ReachedAt(ts, s, b, n, IF s.nodes[n].flag # "NEW" THEN s.nodes[n].pos
                           ELSE getEdgeMidPoint(ts, s.nodes[b].id, s.nodes[n].id, s.nodes[n].pos))

ParentOf(s, b) == IF s.nodes[b].pidx = 0 THEN 0 ELSE s.nodes[s.nodes[b].pidx].id

\* The node a link leads to; there may be no room for it.
Enter(ts, s, b, link, state, sliced) ==
    LET nodes == getNode(s, link.ref, state)
        n     == findNode(nodes, link.ref, state)
    IN  CASE n = 0 -> [s EXCEPT !.out = TRUE]
          [] n # 0 /\ sliced /\ nodes[n].pidx # 0 /\ nodes[n].pidx = s.nodes[b].pidx -> s
          [] OTHER -> Improve(ts, [s EXCEPT !.nodes = nodes], b, n)

\* Faulty variant: the filter is not asked.
Relax_Unfiltered(ts, s, b, link, sliced) ==
    IF link.ref = ParentOf(s, b) THEN s
    ELSE Enter(ts, s, b, link, IF sliced \/ link.side = ONE_TILE THEN 0 ELSE link.side \div 2, sliced)

\* One link of the best node.  A polygon entered from another tile has a node for each
\* side; in slices it has one, and is not tried again from the same parent.
Relax(ts, s, b, link, sliced) ==
    IF link.ref = ParentOf(s, b) \/ ~passFilter(PolyOf(ts, link.ref)) THEN s
    ELSE Enter(ts, s, b, link, IF sliced \/ link.side = ONE_TILE THEN 0 ELSE link.side \div 2, sliced)

Closed(s) == [s EXCEPT !.heap = pop(s.nodes, s.heap), !.nodes[s.heap[1]].flag = "CLOSED"]

Expand(ts, s, b, sliced) ==
    Through(LAMBDA x, link : Relax(ts, x, b, link, sliced), s, LinksOf(ts, s.nodes[b].id))

RECURSIVE Search(_, _)
Search(ts, s) ==
    IF s.heap = << >> THEN s
    ELSE LET b == s.heap[1]
         IN  IF s.nodes[b].id = s.end THEN [Closed(s) EXCEPT !.last = b]
             ELSE Search(ts, Expand(ts, Closed(s), b, FALSE))

\* A path that is too long for the caller is cut at its end.
getPathToNode(nodes, n, maxPath) ==
    LET path == PathTo(nodes, n)
    IN  Answer(SUCCESS \cup (IF Len(path) > maxPath THEN {"BUFFER_TOO_SMALL"} ELSE {}),
               SubSeq(path, 1, Least({Len(path), maxPath})))

\* What a search that is over has found.
Outcome(s, to, maxPath) ==
    [getPathToNode(s.nodes, s.last, maxPath) EXCEPT !.status =
        @ \cup (IF s.nodes[s.last].id # to THEN {"PARTIAL_RESULT"} ELSE {})
          \cup (IF s.out THEN {"OUT_OF_NODES"} ELSE {})]

findPath(ts, from, to, a, b, room, junk, maxPath) ==
    IF ~isValidPolyRef(ts, from) \/ ~isValidPolyRef(ts, to) THEN INVALID_PARAM
    ELSE IF from = to THEN Answer(SUCCESS, <<from>>)
    ELSE Outcome(Search(ts, StartSearch(from, to, a, b, room, junk)), to, maxPath)

-----------------------------------------------------------------------------
(* In slices.  After a finalize, and at first, the query is all zero.      *)

Zero == [status |-> {}, start |-> 0, end |-> 0, s |-> << >>]

NoAnswer == Answer({}, << >>)

Begin(from, to, a, b, room, junk) ==
    LET ok == isValidPolyRef(tiles, from) /\ isValidPolyRef(tiles, to)
    IN  /\ Count
        /\ query' = [status |-> IF ~ok THEN FAILURE ELSE IF from = to THEN SUCCESS ELSE IN_PROGRESS,
                     start |-> from, end |-> to,
                     s |-> IF ok /\ from # to THEN StartSearch(from, to, a, b, room, junk) ELSE << >>]
        /\ found' = NoAnswer
        /\ calm' = TRUE
        /\ UNCHANGED <<tiles, nextFree, posLookup, saved, given, back>>

\* The middle of a polygon.
Middle(poly) == Lerp(poly.verts[1], poly.verts[IF Len(poly.verts) > 2 THEN 3 ELSE 2], 1, 2)
MiddleOf(ts, ref) == IF isValidPolyRef(ts, ref) THEN Middle(PolyOf(ts, ref)) ELSE <<0, 0, 0>>

initSlicedFindPath(from, to, room, junk) ==
    Begin(from, to, MiddleOf(tiles, from), MiddleOf(tiles, to), room, junk)

Set(status, s) == query' = [query EXCEPT !.status = status, !.s = s]

\* Only the best node, its parent and its grandparent are looked at again.
StillThere(ts, s, b) ==
    LET parent == s.nodes[b].pidx
        grand  == IF parent = 0 THEN 0 ELSE s.nodes[parent].pidx
    IN  \A n \in {b, parent, grand} \ {0} : isValidPolyRef(ts, s.nodes[n].id)

\* The search goes on, or is over.
Advance(s, over) ==
    IF over \/ s.heap = << >> THEN Set(SUCCESS \cup (IF s.out THEN {"OUT_OF_NODES"} ELSE {}), s)
    ELSE Set(IN_PROGRESS, s)

\* One node.  A call with more iterations is several of these in a row.
updateSlicedFindPath ==
    LET s == query.s
        b == s.heap[1]
    IN  /\ query.status = IN_PROGRESS
        /\ CASE ~isValidPolyRef(tiles, query.start) \/ ~isValidPolyRef(tiles, query.end) ->
                    Set(FAILURE, s)
             [] OTHER ->
                CASE s.nodes[b].id = query.end -> Advance([Closed(s) EXCEPT !.last = b], TRUE)
                  [] s.nodes[b].id # query.end /\ ~StillThere(tiles, s, b) -> Set(FAILURE, Closed(s))
                  [] OTHER -> Advance(Expand(tiles, Closed(s), b, TRUE), FALSE)
        /\ UNCHANGED <<meshVars, found, calm>>

\* What a query returns that would end at node n.
Finalized(n, maxPath) ==
    LET s    == query.s
        path == PathTo(s.nodes, n)
        out  == IF s.out THEN {"OUT_OF_NODES"} ELSE {}
        full == IF Len(path) >= maxPath THEN {"BUFFER_TOO_SMALL"} ELSE {}
    IN  Answer(SUCCESS \cup out \cup full, SubSeq(path, 1, Least({Len(path), maxPath})))

PartialIf(answer, partial) ==
    IF partial THEN [answer EXCEPT !.status = @ \cup {"PARTIAL_RESULT"}] ELSE answer

\* goals: where the path may end, for all the caller is told.
Finish(answer, goals) ==
    /\ found' = [status |-> answer.status, path |-> answer.path, start |-> query.start,
                 goals |-> goals, done |-> query.status # IN_PROGRESS, calm |-> calm]
    /\ query' = Zero
    /\ calm' = TRUE
    /\ UNCHANGED meshVars

\* A query that is all zero has found the way from nowhere to nowhere.
finalizeSlicedFindPath(maxPath) ==
    Finish(CASE query.status = FAILURE -> Answer(FAILURE, << >>)
             [] query.status # FAILURE /\ query.start = query.end -> Answer(SUCCESS, <<query.start>>)
             [] OTHER -> PartialIf(Finalized(query.s.last, maxPath),
                                   query.s.nodes[query.s.last].id # query.end),
           {query.end})

\* The path to the furthest polygon of an existing path the search has come to.
finalizeSlicedFindPathPartial(existing, maxPath) ==
    Finish(CASE query.status = FAILURE -> Answer(FAILURE, << >>)
             [] query.status # FAILURE /\ query.start = query.end -> Answer(SUCCESS, <<query.start>>)
             [] OTHER ->
                LET known == {i \in DOMAIN existing : findNodes(query.s.nodes, existing[i]) # 0}
                IN  IF known = {} THEN PartialIf(Finalized(query.s.last, maxPath), TRUE)
                    ELSE Finalized(findNodes(query.s.nodes, existing[Most(known)]), maxPath),
           {query.end} \cup {existing[i] : i \in DOMAIN existing})
-----------------------------------------------------------------------------

SearchInit ==
    /\ MeshInit
    /\ query = Zero
    /\ found = NoAnswer
    /\ calm = TRUE

\* Tiles change between two slices.
MeshStep ==
    /\ MeshNext
    /\ found' = NoAnswer
    /\ calm' = (query = Zero)
    /\ UNCHANGED query

PolyRefs(ts) == UNION {{Ref(ts, t, p) : p \in DOMAIN ts[t].polys} : t \in {u \in DOMAIN ts : ts[u].name # None}}

Reachable == <<2, 4, 2>>   \* the half extents the server looks with
Known == {findNearestPoly(tiles, posLookup, p, Reachable) : p \in Places}

\* Queries go between polygons near places, or to a tile that may be gone.
SearchNext ==
    \/ MeshStep
    \/ /\ query = Zero
       /\ ops < MaxAsked
       /\ \E from \in Known, to \in Known \cup Refs, room \in PoolSizes, junk \in Junk :
            initSlicedFindPath(from, to, room, junk)
    \/ updateSlicedFindPath
    \/ \E maxPath \in PathSizes :
        \/ finalizeSlicedFindPath(maxPath)
        \/ \E r \in Known : finalizeSlicedFindPathPartial(<<query.start, r>>, maxPath)

SearchSpec == SearchInit /\ [][SearchNext]_searchVars

-----------------------------------------------------------------------------
(* Properties *)

\* Where a step may lead to from a polygon, and where any number of steps.
Beyond(ts, r) == {q \in {LinksOf(ts, r)[i].ref : i \in DOMAIN LinksOf(ts, r)} : passFilter(PolyOf(ts, q))}

RECURSIVE Reach(_, _)
Reach(ts, S) ==
    LET more == S \cup UNION {Beyond(ts, r) : r \in S} IN IF more = S THEN S ELSE Reach(ts, more)

\* The open list is a heap of the open nodes, each once; from every node the parents lead
\* back to the start, in no circle, and at no greater cost; and while no tile changes,
\* whatever lies behind a closed node has been seen, unless nodes ran out.
SearchSound ==
    query.s # << >> =>
        LET s     == query.s
            N     == DOMAIN s.nodes
            up[n \in {0} \cup N, k \in 0 .. Len(s.nodes)] ==
                IF k = 0 \/ n = 0 THEN n ELSE up[s.nodes[n].pidx, k - 1]
        IN  /\ \A i \in 2 .. Len(s.heap) : s.nodes[s.heap[i \div 2]].total <= s.nodes[s.heap[i]].total
            /\ {s.heap[i] : i \in DOMAIN s.heap} = {n \in N : s.nodes[n].flag = "OPEN"}
            /\ Cardinality({s.heap[i] : i \in DOMAIN s.heap}) = Len(s.heap)
            /\ Len(s.nodes) <= s.room
            /\ \A n \in N : /\ up[n, Len(s.nodes)] = 0
                            /\ s.nodes[n].pidx = 0 <=> n = 1
                            /\ n # 1 => s.nodes[s.nodes[n].pidx].cost <= s.nodes[n].cost
            /\ calm /\ ~s.out /\ query.status # FAILURE =>
                \A n \in N : s.nodes[n].flag = "CLOSED" /\ s.nodes[n].id # query.end =>
                    \A r \in Beyond(tiles, s.nodes[n].id) : findNodes(s.nodes, r) # 0

\* A path: from the start, one link at a time, through polygons that may be entered.
Walkable(ts, path) ==
    \A i \in 1 .. (Len(path) - 1) : path[i + 1] \in Beyond(ts, path[i])

NoRepeats(path) == \A i, j \in DOMAIN path : i # j => path[i] # path[j]

\* A path that a query in slices returns starts where it was asked to and ends at a goal,
\* or says that it is partial or cut; it holds if no tile has changed; and then it is
\* partial only if the search was broken off, or out of nodes, or there is no way.
SlicedPathHolds ==
    "SUCCESS" \in found.status =>
        LET last == found.path[Len(found.path)]
        IN  /\ found.path[1] = found.start
            /\ NoRepeats(found.path)
            /\ Details(found.status) = {} => last \in found.goals
            /\ found.calm /\ found.start # 0 =>
                /\ Walkable(tiles, found.path)
                /\ /\ "PARTIAL_RESULT" \in found.status /\ "OUT_OF_NODES" \notin found.status
                   /\ found.done /\ Cardinality(found.goals) = 1
                   => found.goals \cap Reach(tiles, {found.start}) = {}
=============================================================================
