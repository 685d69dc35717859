------------------------------ MODULE NavArea ------------------------------
(***************************************************************************)
(* Detour/DetourNavMeshQuery.cpp: the searches around a place: the         *)
(* polygons within a circle or a shape, the neighbourhood without          *)
(* overlaps, the walls of a polygon, the nearest wall, and the place a     *)
(* small move ends at.  The server offers none of them yet.                *)
(*                                                                         *)
(* Squared distances are exact, shapes are rectangles.                     *)
(***************************************************************************)
EXTENDS NavQuery

SqDistance2D(p, q) == Sq(p[1] - q[1]) + Sq(p[3] - q[3])
SqToEdge(pos, e) == SqDistance2D(NearOnEdge(pos, e), pos)

\* Edges are visited from the last.
EdgeOrder(poly) == LET n == Len(poly.verts) IN [i \in 1 .. n |-> IF i = 1 THEN n ELSE i - 1]

\* Links of an edge that lead on.
OpenLinks(ts, ref, j) ==
    SelectSeq(LinksOf(ts, ref), LAMBDA l : l.edge = j /\ passFilter(PolyOf(ts, l.ref)))

InnerRef(ts, ref, j) == Ref(ts, decodePolyIdTile(ref), PolyOf(ts, ref).neis[j])

\* An inner edge behind which one may walk.
InnerOpen(ts, ref, j) ==
    LET nei == PolyOf(ts, ref).neis[j]
    IN  nei \in 1 .. (EXT_LINK - 1) /\ passFilter(PolyOf(ts, InnerRef(ts, ref, j)))

-----------------------------------------------------------------------------
(* Dijkstra's search through the portals a circle or a shape touches.      *)

InCircle(center, radius, portal) == SqToEdge(center, portal) <= Sq(radius)

Circle(center, radius) == [circle |-> TRUE, center |-> center, radius |-> radius]
Shape(box) == [circle |-> FALSE] @@ box

Touches(region, portal) ==
    IF region.circle THEN InCircle(region.center, region.radius, portal)
    ELSE \A k \in {1, 3} : /\ Least({portal[1][k], portal[2][k]}) <= region.bmax[k]
                           /\ region.bmin[k] <= Most({portal[1][k], portal[2][k]})

\* Node n is reached from b at that price.
ApproachFor(s, b, n, pos, total) ==
    IF s.nodes[n].flag = "CLOSED" \/ (s.nodes[n].flag = "OPEN" /\ total >= s.nodes[n].total) THEN s
    ELSE Queued(s, n, [s.nodes EXCEPT ![n] = [@ EXCEPT !.pos = pos, !.pidx = b, !.total = total,
                                                       !.flag = "OPEN"]])

ApproachAt(ts, s, b, n, pos) ==
    ApproachFor(s, b, n, pos,
                s.nodes[b].total + getCost(s.nodes[b].pos, pos, PolyOf(ts, s.nodes[b].id)))

\* It is reached through the portal.
Approach(ts, s, b, n, portal) ==
    ApproachAt(ts, s, b, n, IF s.nodes[n].flag = "NEW" THEN Lerp(portal[1], portal[2], 1, 2)
                            ELSE s.nodes[n].pos)

\* Where there is no portal the code goes on with whatever is in its place.
AnyOr(portals, junk) == IF portals = {} THEN <<junk, junk>> ELSE CHOOSE x \in portals : TRUE
PortalOr(ts, from, to, junk) == AnyOr(getPortalPoints(ts, from, to), junk)

\* From node b through a portal to what is behind.
SpreadTo(ts, region, s, b, ref, portal) ==
    LET nodes == getNode(s, ref, 0)
        n     == findNode(nodes, ref, 0)
    IN  IF ~Touches(region, portal) THEN s
        ELSE IF n = 0 THEN [s EXCEPT !.out = TRUE]
        ELSE Approach(ts, [s EXCEPT !.nodes = nodes], b, n, portal)

SpreadFrom(ts, region, s, b) ==
    Through(LAMBDA x, link :
                IF link.ref = ParentOf(s, b) \/ ~passFilter(PolyOf(ts, link.ref)) THEN x
                ELSE SpreadTo(ts, region, x, b, link.ref, PortalOr(ts, s.nodes[b].id, link.ref, x.junk)),
            Closed(s), LinksOf(ts, s.nodes[b].id))

RECURSIVE Spread(_, _, _, _)
Spread(ts, region, s, res) ==
    LET b   == s.heap[1]
        hit == [ref |-> s.nodes[b].id, parent |-> ParentOf(s, b), cost |-> s.nodes[b].total]
    IN  IF s.heap = << >> THEN [res |-> res, s |-> s]
        ELSE Spread(ts, region, SpreadFrom(ts, region, s, b), Append(res, hit))

Dijkstra(ts, region, from, center, room, junk) ==
    Spread(ts, region,
           [StartSearch(from, 0, center, center, room, junk) EXCEPT !.nodes[1].total = 0], << >>)

\* What was found, as much as the caller has room for.
Cut(d, maxResult) ==
    [d EXCEPT !.res = SubSeq(@, 1, Least({Len(@), maxResult}))] @@
    [status |-> SUCCESS \cup (IF Len(d.res) > maxResult THEN {"BUFFER_TOO_SMALL"} ELSE {})
                        \cup (IF d.s.out THEN {"OUT_OF_NODES"} ELSE {})]

findPolysAroundCircle(ts, from, center, radius, room, junk, maxResult) ==
    Cut(Dijkstra(ts, Circle(center, radius), from, center, room, junk), maxResult)

\* The search starts in the middle of the shape.
findPolysAroundShape(ts, from, box, room, junk, maxResult) ==
    Cut(Dijkstra(ts, Shape(box), from, Lerp(box.bmin, box.bmax, 1, 2), room, junk), maxResult)

\* The way to a polygon the last search has closed.
getPathFromDijkstraSearch(ts, s, ref, maxPath) ==
    LET n == findNodes(s.nodes, ref)
    IN  IF ~isValidPolyRef(ts, ref) \/ n = 0 THEN INVALID_PARAM
        ELSE IF s.nodes[n].flag # "CLOSED" THEN INVALID_PARAM
        ELSE getPathToNode(s.nodes, n, maxPath)

-----------------------------------------------------------------------------
(* The neighbourhood: breadth first, with a small pool that also holds the *)
(* polygons that were looked at and not taken; no polygon is taken that    *)
(* lies over one that was.                                                 *)

Overlap2D(p, q) ==
    LET a == BoxOf(p.verts)  b == BoxOf(q.verts)
    IN  \A k \in {1, 3} : a.bmin[k] < b.bmax[k] /\ b.bmin[k] < a.bmax[k]

\* w: nodes, the queue of nodes to come, and the results.  Node n, behind a link of cur, may
\* be taken; near are the polygons behind the others.
Take(ts, w, cur, n, near) ==
    LET ref  == w.nodes[n].id
        seen == [w EXCEPT !.nodes[n].flag = "CLOSED", !.nodes[n].pidx = cur]
    IN  IF \E i \in DOMAIN w.res : /\ w.res[i].ref \notin near
                                   /\ Overlap2D(PolyOf(ts, ref), PolyOf(ts, w.res[i].ref)) THEN seen
        ELSE [seen EXCEPT !.queue = IF Len(@) < w.stack THEN Append(@, n) ELSE @,
                          !.full = @ \/ Len(w.res) >= w.maxResult,
                          !.res = IF Len(@) < w.maxResult
                                  THEN Append(@, [ref |-> ref, parent |-> w.nodes[cur].id]) ELSE @]

Look(ts, w, cur, ref) ==
    LET nodes == getNode(w, ref, 0)
        n     == findNode(nodes, ref, 0)
        poly  == PolyOf(ts, ref)
        id    == w.nodes[cur].id
    IN  CASE n = 0 -> w
          [] n # 0 /\ \/ nodes[n].flag = "CLOSED" \/ poly.type = "OFFMESH" \/ ~passFilter(poly)
                      \/ ~InCircle(w.center, w.radius, PortalOr(ts, id, ref, w.junk)) ->
                [w EXCEPT !.nodes = nodes]
          [] OTHER -> Take(ts, [w EXCEPT !.nodes = nodes], cur, n,
                           {LinksOf(ts, id)[i].ref : i \in DOMAIN LinksOf(ts, id)})

RECURSIVE Widen(_, _)
Widen(ts, w) ==
    IF w.queue = << >> THEN w
    ELSE LET cur == Head(w.queue)
         IN  Widen(ts, Through(LAMBDA x, link : Look(ts, x, cur, link.ref),
                               [w EXCEPT !.queue = Tail(@)], LinksOf(ts, w.nodes[cur].id)))

MAX_STACK == 48

Neighbourhood(w) ==
    [status |-> SUCCESS \cup (IF w.full THEN {"BUFFER_TOO_SMALL"} ELSE {}), res |-> w.res]

findLocalNeighbourhood(ts, from, center, radius, room, junk, maxResult) ==
    Neighbourhood(
        Widen(ts, [nodes |-> <<[Node(from, 0, center) EXCEPT !.flag = "CLOSED"]>>, queue |-> <<1>>,
                   res |-> <<[ref |-> from, parent |-> 0]>>, full |-> FALSE, center |-> center,
                   radius |-> radius, room |-> room, stack |-> MAX_STACK, junk |-> junk,
                   maxResult |-> maxResult]))

-----------------------------------------------------------------------------
(* Walls *)

MAX_INTERVAL == 16

\* Before the first that begins where it ends or later.
insertInterval(ints, new) ==
    LET later == {i \in DOMAIN ints : new.tmax <= ints[i].tmin}
        at    == IF later = {} THEN Len(ints) + 1 ELSE Least(later)
    IN  IF Len(ints) >= MAX_INTERVAL THEN ints
        ELSE SubSeq(ints, 1, at - 1) \o <<new>> \o SubSeq(ints, at, Len(ints))

\* The open portals of an edge, after the sentinel at its start.
Portals(links) ==
    insertInterval(
        Through(insertInterval, << >>,
                [i \in DOMAIN links |-> [ref |-> links[i].ref, tmin |-> links[i].bmin, tmax |-> links[i].bmax]]),
        [ref |-> 0, tmin |-> -1, tmax |-> 0])

\* Each portal, and the wall before it if there is any.
Segments(ints) ==
    Through(LAMBDA s, k :
                s \o (IF ints[k].ref # 0 THEN <<ints[k]>> ELSE << >>)
                  \o (IF ints[k - 1].tmax # ints[k].tmin
                       THEN <<[ref |-> 0, tmin |-> ints[k - 1].tmax, tmax |-> ints[k].tmin]>> ELSE << >>),
            << >>, Range2(2, Len(ints)))

\* Faulty variant: no sentinel at the end of the edge.
EdgeSegments_OpenEnd(ts, ref, j) == Segments(Portals(OpenLinks(ts, ref, j)))

\* A border edge, cut into the portals that are open and the wall between.
EdgeSegments(ts, ref, j) ==
    Segments(insertInterval(Portals(OpenLinks(ts, ref, j)), [ref |-> 0, tmin |-> 255, tmax |-> 256]))

\* An inner edge is whole.
SegmentsOf(ts, ref, j) ==
    IF PolyOf(ts, ref).neis[j] >= EXT_LINK THEN EdgeSegments(ts, ref, j)
    ELSE <<[ref |-> IF InnerOpen(ts, ref, j) THEN InnerRef(ts, ref, j) ELSE 0, tmin |-> 0, tmax |-> 255]>>

Room(segs, maxSegments) ==
    [status |-> SUCCESS \cup (IF Len(segs) > maxSegments THEN {"BUFFER_TOO_SMALL"} ELSE {}),
     segs |-> SubSeq(segs, 1, Least({Len(segs), maxSegments}))]

\* The segments of a polygon, portals with what is behind them, walls with zero.
getPolyWallSegments(ts, ref, maxSegments) ==
    LET named(j, segs) == [i \in DOMAIN segs |-> [edge |-> j] @@ segs[i]]
    IN  Room(Through(LAMBDA s, j : s \o named(j, SegmentsOf(ts, ref, j)), << >>, EdgeOrder(PolyOf(ts, ref))),
             maxSegments)

\* Of a border edge only its newest link is asked: one open portal opens the edge.
Solid(ts, ref, j) ==
    IF PolyOf(ts, ref).neis[j] < EXT_LINK THEN ~InnerOpen(ts, ref, j)
    ELSE LET links == SelectSeq(LinksOf(ts, ref), LAMBDA l : l.edge = j)
         IN  links = << >> \/ ~passFilter(PolyOf(ts, links[1].ref))

\* Here a way costs what it is long.
DrawnAt(s, b, n, pos) == ApproachFor(s, b, n, pos, s.nodes[b].total + Dist(s.nodes[b].pos, pos))

DrawTo(ts, s, b, ref) ==
    LET nodes == getNode(s, ref, 0)
        n     == findNode(nodes, ref, 0)
    IN  IF n = 0 THEN [s EXCEPT !.out = TRUE]
        ELSE DrawnAt([s EXCEPT !.nodes = nodes], b, n,
                     IF nodes[n].flag # "NEW" THEN nodes[n].pos
                     ELSE getEdgeMidPoint(ts, s.nodes[b].id, ref, nodes[n].pos))

DrawFrom(ts, center, s, b, sq) ==
    Through(LAMBDA x, link :
                IF \/ link.ref = ParentOf(s, b) \/ PolyOf(ts, link.ref).type = "OFFMESH"
                   \/ SqToEdge(center, EdgeOf(PolyOf(ts, s.nodes[b].id), link.edge)) > sq
                   \/ ~passFilter(PolyOf(ts, link.ref)) THEN x
                ELSE DrawTo(ts, x, b, link.ref),
            Closed(s), LinksOf(ts, s.nodes[b].id))

NearestWall(ts, center, ref, sq) ==
    LET poly == PolyOf(ts, ref)
    IN  Least({sq} \cup {SqToEdge(center, EdgeOf(poly, j)) : j \in {k \in DOMAIN poly.verts : Solid(ts, ref, k)}})

\* The search draws in as it meets walls.
RECURSIVE Draw(_, _, _, _)
Draw(ts, center, s, sq) ==
    IF s.heap = << >> THEN [sq |-> sq, out |-> s.out]
    ELSE LET b   == s.heap[1]
             sq2 == NearestWall(ts, center, s.nodes[b].id, sq)
         IN  Draw(ts, center, DrawFrom(ts, center, s, b, sq2), sq2)

\* The square of the distance to the nearest wall, of the radius if there is none in it.
findDistanceToWall(ts, from, center, radius, room, junk) ==
    Draw(ts, center, [StartSearch(from, 0, center, center, room, junk) EXCEPT !.nodes[1].total = 0],
         Sq(radius))

-----------------------------------------------------------------------------
(* Moving along the surface                                                *)

\* The polygons behind an edge.
Behinds(ts, ref, j) ==
    LET nei   == PolyOf(ts, ref).neis[j]
        links == OpenLinks(ts, ref, j)
    IN  IF nei >= EXT_LINK THEN [i \in 1 .. Least({8, Len(links)}) |-> links[i].ref]
        ELSE IF InnerOpen(ts, ref, j) THEN <<InnerRef(ts, ref, j)>> ELSE << >>

\* An edge beside the move, further than half of it from its middle.  mid is twice the middle, reach the
\* square of the whole move, so that nothing is rounded (the code has 0.001 for that).
BesideMove(w, e) ==
    LET twice(p) == [k \in 1 .. 3 |-> 2 * p[k]] IN SqToEdge(w.mid, <<twice(e[1]), twice(e[2])>>) > w.reach

\* w: nodes, queue, the nearest point to the goal so far and the node it belongs to.  What is
\* behind edge e of cur is visited, if it is near enough to the move.
SlideTo(ts, w, cur, ref, e) ==
    LET nodes == getNode(w, ref, 0)
        n     == findNode(nodes, ref, 0)
    IN  IF n = 0 THEN w
        ELSE IF nodes[n].flag = "CLOSED" \/ BesideMove(w, e)
                \/ Len(w.queue) >= MAX_STACK THEN [w EXCEPT !.nodes = nodes]
        ELSE [w EXCEPT !.nodes = [nodes EXCEPT ![n].flag = "CLOSED", ![n].pidx = cur],
                       !.queue = Append(@, n)]

\* A wall stops the move.
SlideAlong(w, cur, pos) ==
    LET dist == SqDistance2D(pos, w.goal)
    IN  IF w.best = 0 \/ dist < w.dist THEN [w EXCEPT !.best = cur, !.pos = pos, !.dist = dist] ELSE w

SlideOver(ts, w, cur, e, behind) ==
    IF behind = << >> THEN SlideAlong(w, cur, NearOnEdge(w.goal, e))
    ELSE Through(LAMBDA x, ref : SlideTo(ts, x, cur, ref, e), w, behind)

RECURSIVE Slide(_, _)
Slide(ts, w) ==
    LET cur  == Head(w.queue)
        poly == PolyOf(ts, w.nodes[cur].id)
    IN  IF w.queue = << >> THEN w
        ELSE IF dtPointInPolygon(w.goal, poly) THEN [w EXCEPT !.best = cur, !.pos = w.goal]
        ELSE Slide(ts, Through(LAMBDA x, j : SlideOver(ts, x, cur, EdgeOf(poly, j),
                                                       Behinds(ts, w.nodes[cur].id, j)),
                               [w EXCEPT !.queue = Tail(@)], EdgeOrder(poly)))

Reported(w, path, maxVisited) ==
    [status |-> SUCCESS \cup (IF Len(path) >= maxVisited THEN {"BUFFER_TOO_SMALL"} ELSE {}),
     pos |-> w.pos, visited |-> SubSeq(path, 1, Least({Len(path), maxVisited}))]

Visited(w, maxVisited) == Reported(w, IF w.best = 0 THEN << >> ELSE PathTo(w.nodes, w.best), maxVisited)

\* Where a small move from one place towards another ends, and through which polygons.
moveAlongSurface(ts, from, a, b, room, maxVisited) ==
    Visited(Slide(ts, [nodes |-> <<[Node(from, 0, a) EXCEPT !.flag = "CLOSED"]>>, queue |-> <<1>>,
                       best |-> 0, dist |-> 0, pos |-> a, goal |-> b,
                       mid |-> [k \in 1 .. 3 |-> a[k] + b[k]],
                       reach |-> SqDistance2D(a, b) + Sq(a[2] - b[2]), room |-> room, junk |-> a]),
            maxVisited)

-----------------------------------------------------------------------------
(* Properties: what the queries answer, against what there is. *)

\* Every polygon whose inside the box meets is as far as the one found, or further, for
\* all the jumps of the tree and the division into tiles.
NearestIsNearest ==
    LET under(q, box) == LET poly == PolyOf(tiles, q)
                         IN  /\ poly.type = "GROUND" /\ passFilter(poly)
                             /\ overlapBoxes(box, BoxOf(poly.verts))
                             /\ Overlap2D(poly, [verts |-> <<box.bmin, box.bmax>>])
        right(r, pos, all) == /\ r = 0 => all = {}
                              /\ r # 0 => passFilter(PolyOf(tiles, r))
                              /\ \A q \in all : RefDistance(tiles, r, pos) <= RefDistance(tiles, q, pos)
    IN  \A pos \in Places : right(findNearestPoly(tiles, posLookup, pos, Reachable), pos,
                                  {q \in PolyRefs(tiles) : under(q, Around(pos, Reachable))})

Starts == {r \in Known \ {0} : PolyOf(tiles, r).type = "GROUND"}

\* findPath gives a path that can be walked, all the way, or says why it does not; it is
\* out of nodes or there is no way if it is partial.
PathIsPath ==
    LET holds(from, to, maxPath, a) ==
            /\ a.path[1] = from
            /\ Len(a.path) <= maxPath
            /\ Walkable(tiles, a.path)
            /\ Details(a.status) = {} => a.path[Len(a.path)] = to
            /\ "PARTIAL_RESULT" \in a.status /\ "OUT_OF_NODES" \notin a.status
                => to \notin Reach(tiles, {from})
    IN  \A from, to \in Starts, room \in {2, 64}, maxPath \in PathSizes, junk \in Junk :
            holds(from, to, maxPath,
                  findPath(tiles, from, to, MiddleOf(tiles, from), MiddleOf(tiles, to), room, junk, maxPath))

\* Where the portals a region touches lead to.
RECURSIVE Within(_, _, _, _)
Within(ts, region, junk, S) ==
    LET more == S \cup {q \in UNION {Beyond(ts, r) : r \in S} :
                            \E r \in S : q \in Beyond(ts, r) /\ Touches(region, PortalOr(ts, r, q, junk))}
    IN  IF more = S THEN S ELSE Within(ts, region, junk, more)

\* The polygons around a place are found once each, cheapest first, each by way of one found
\* before, all of them if nothing says otherwise; and the way to each may then be asked for.
AroundIsAround ==
    LET leads(way, from, ref) == way[1] = from /\ way[Len(way)] = ref /\ Walkable(tiles, way)
        holds(d, from, region, junk) ==
            /\ NoRepeats([i \in DOMAIN d.res |-> d.res[i].ref])
            /\ \A i \in 2 .. Len(d.res) :
                /\ d.res[i - 1].cost <= d.res[i].cost
                /\ \E j \in 1 .. (i - 1) : d.res[j].ref = d.res[i].parent
                /\ d.res[i].ref \in Beyond(tiles, d.res[i].parent)
                /\ leads(getPathFromDijkstraSearch(tiles, d.s, d.res[i].ref, 16).path, from, d.res[i].ref)
            /\ Details(d.status) = {} =>
                    {d.res[i].ref : i \in DOMAIN d.res} = Within(tiles, region, junk, {from})
    IN  \A from \in Starts, room \in {2, 64}, maxResult \in PathSizes, junk \in Junk :
            LET pos == MiddleOf(tiles, from)
                box == Around(pos, <<3, 1, 3>>)
            IN  /\ holds(findPolysAroundCircle(tiles, from, pos, 4, room, junk, maxResult),
                         from, Circle(pos, 4), junk)
                /\ holds(findPolysAroundShape(tiles, from, box, room, junk, maxResult), from, Shape(box), junk)

\* The neighbourhood is connected, on the ground, without repeats; and a polygon in it lies
\* over an earlier one only if both border the polygon it was reached from.
NeighbourhoodIsFlat ==
    LET linked(r, q) == \E i \in DOMAIN LinksOf(tiles, r) : LinksOf(tiles, r)[i].ref = q
        holds(res) ==
            /\ NoRepeats([i \in DOMAIN res |-> res[i].ref])
            /\ \A i \in 2 .. Len(res) :
                /\ PolyOf(tiles, res[i].ref).type = "GROUND"
                /\ res[i].ref \in Beyond(tiles, res[i].parent)
                /\ \E j \in 1 .. (i - 1) : res[j].ref = res[i].parent
                /\ \A j \in 1 .. (i - 1) :
                    Overlap2D(PolyOf(tiles, res[i].ref), PolyOf(tiles, res[j].ref))
                        => linked(res[i].parent, res[j].ref)
    IN  \A from \in Starts, radius \in {1, 9}, maxResult \in PathSizes, junk \in Junk :
            holds(findLocalNeighbourhood(tiles, from, MiddleOf(tiles, from), radius, 64, junk, maxResult).res)

\* The segments of a border edge cover it, without overlaps as long as the portals have none.
EdgesAreWhole ==
    LET apart(s) == \A i, k \in DOMAIN s : i # k => s[i].tmax <= s[k].tmin \/ s[k].tmax <= s[i].tmin
        whole(segs, links) ==
            apart([i \in DOMAIN links |-> [tmin |-> links[i].bmin, tmax |-> links[i].bmax]]) =>
                apart(segs) /\ SumOf([i \in DOMAIN segs |-> segs[i].tmax - segs[i].tmin]) = 255
        holds(r, segs) ==
            \A j \in DOMAIN PolyOf(tiles, r).verts :
                whole(SelectSeq(segs, LAMBDA s : s.edge = j), OpenLinks(tiles, r, j))
    IN  \A r \in PolyRefs(tiles) : PolyOf(tiles, r).type = "GROUND" =>
            holds(r, getPolyWallSegments(tiles, r, 64).segs)

\* Through edges nearer than the nearest wall no nearer wall is reached.
RECURSIVE Before(_, _, _, _)
Before(ts, center, sq, S) ==
    LET more == S \cup {q \in UNION {Beyond(ts, r) : r \in S} : PolyOf(ts, q).type = "GROUND" /\
                    \E r \in S : \E i \in DOMAIN LinksOf(ts, r) :
                        LinksOf(ts, r)[i].ref = q /\ SqToEdge(center, EdgeOf(PolyOf(ts, r), LinksOf(ts, r)[i].edge)) < sq}
    IN  IF more = S THEN S ELSE Before(ts, center, sq, more)

WallIsNearest ==
    LET holds(from, pos, sq) ==
            \A r \in Before(tiles, pos, sq, {from}) : \A j \in DOMAIN PolyOf(tiles, r).verts :
                Solid(tiles, r, j) => sq <= SqToEdge(pos, EdgeOf(PolyOf(tiles, r), j))
    IN  \A from \in Starts, junk \in Junk :
            LET pos == MiddleOf(tiles, from)
            IN  holds(from, pos, findDistanceToWall(tiles, from, pos, 9, 64, junk).sq)

\* A small move ends in the last polygon it visits, and every one it visits can be walked to
\* from the one before, unless a tile ran out of links.
InOrOn(pos, poly) ==
    LET box == BoxOf(poly.verts) IN \A k \in {1, 3} : box.bmin[k] <= pos[k] /\ pos[k] <= box.bmax[k]

MoveStaysOnSurface ==
    LET ends(m, goal, last) == InOrOn(m.pos, last) /\ (dtPointInPolygon(goal, last) => m.pos = goal)
        holds(m, from, a, goal) ==
            IF m.visited = << >> THEN m.pos = a
            ELSE /\ m.visited[1] = from
                 /\ (\A t \in Used(tiles) : ~tiles[t].dry) => Walkable(tiles, m.visited)
                 /\ ends(m, goal, PolyOf(tiles, m.visited[Len(m.visited)]))
    IN  \A from \in Starts, goal \in Places :
            LET a == MiddleOf(tiles, from)
            IN  holds(moveAlongSurface(tiles, from, a, goal, 64, 16), from, a, goal)

\* A query changes no tile, so every mesh is also met with no query under way; it is looked
\* at then, before anything is asked of it.
Idle == query = Zero /\ found = NoAnswer
=============================================================================
