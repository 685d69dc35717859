---------------------------- MODULE StraightPath ----------------------------
(***************************************************************************)
(* Detour/DetourNavMeshQuery.cpp: findStraightPath, which pulls a path of  *)
(* polygons into a line through their portals (the funnel), and raycast,   *)
(* which asks how far a straight line stays on the surface.                *)
(*                                                                         *)
(* The options that mark every crossing are left out: the server asks for  *)
(* none; so are the costs and the wall normal of a ray.                    *)
(***************************************************************************)
EXTENDS NavArea

\* Twice the area of a triangle seen from above; above zero if c is on one side of a-b.
dtTriArea2D(a, b, c) == (c[1] - a[1]) * (b[3] - a[3]) - (b[1] - a[1]) * (c[3] - a[3])

\* A place in a polygon stays; another goes to the first of the nearest points of its edges.
NearOnBoundary(poly, pos) ==
    IF poly.type = "GROUND" /\ dtPointInPolygon(pos, poly) THEN pos
    ELSE NearOnEdge(pos, EdgeOf(poly, FirstLeast([j \in DOMAIN poly.verts |-> SqToEdge(pos, EdgeOf(poly, j))])))

closestPointOnPolyBoundary(ts, ref, pos) == NearOnBoundary(PolyOf(ts, ref), pos)

-----------------------------------------------------------------------------
(* The funnel: an apex, and on either side the furthest point in sight,    *)
(* with the portal it belongs to and the polygon behind.                   *)

Side(pos, idx, ref, type) == [pos |-> pos, idx |-> idx, ref |-> ref, type |-> type]

\* A corner where there is one already only changes its kind; the list is over when it is
\* full or at its end.
appendVertex(f, pos, flags, ref, maxStraight) ==
    LET n      == Len(f.corners)
        corner == [pos |-> pos, flags |-> flags, ref |-> ref]
    IN  IF n > 0 /\ f.corners[n].pos = pos THEN [f EXCEPT !.corners[n] = corner]
        ELSE [f EXCEPT !.corners = Append(@, corner), !.over = n + 1 >= maxStraight \/ flags = "END"]

\* The apex goes to a side, which is a corner; both sides start there, with the polygons they
\* had, and the portals after it are looked at again.
Bend(f, side, maxStraight) ==
    LET flags == CASE side.ref = 0 -> "END"
                   [] side.ref # 0 /\ side.type = "OFFMESH" -> "OFFMESH"
                   [] OTHER -> "NONE"
        g == appendVertex(f, side.pos, flags, side.ref, maxStraight)
    IN  IF g.over THEN g
        ELSE [g EXCEPT !.apex = side.pos, !.at = side.idx,
                       !.left.pos = side.pos, !.left.idx = side.idx,
                       !.right.pos = side.pos, !.right.idx = side.idx]

\* Faulty variant: the sides are drawn in, also where they cross.
Narrow_NeverTurns(f, left, right, maxStraight) ==
    LET rightIn == dtTriArea2D(f.apex, f.right.pos, right.pos) <= 0
        g       == IF rightIn THEN [f EXCEPT !.right = right] ELSE f
    IN  IF dtTriArea2D(g.apex, g.left.pos, left.pos) >= 0 THEN [g EXCEPT !.left = left] ELSE g

\* One portal: each side is drawn in, or left, or crossed by the other.
Narrow(f, left, right, maxStraight) ==
    LET rightIn == dtTriArea2D(f.apex, f.right.pos, right.pos) <= 0
        rightOk == f.apex = f.right.pos \/ dtTriArea2D(f.apex, f.left.pos, right.pos) > 0
        g       == IF rightIn THEN [f EXCEPT !.right = right] ELSE f
        leftIn  == dtTriArea2D(g.apex, g.left.pos, left.pos) >= 0
        leftOk  == g.apex = g.left.pos \/ dtTriArea2D(g.apex, g.right.pos, left.pos) < 0
    IN  IF rightIn /\ ~rightOk THEN Bend(f, f.left, maxStraight)
        ELSE IF leftIn /\ ~leftOk THEN Bend(g, g.right, maxStraight)
        ELSE IF leftIn THEN [g EXCEPT !.left = left]
        ELSE g

\* The portal behind the i-th polygon; the last is the end.
PortalAfter(ts, path, i, to) ==
    IF i = Len(path) THEN {<<to, to>>}
    ELSE IF ~isValidPolyRef(ts, path[i + 1]) THEN {}
    ELSE getPortalPoints(ts, path[i], path[i + 1])

\* A portal that the start lies on is passed over.
PullThrough(ts, f, path, p, maxStraight) ==
    LET last == f.at = Len(path)
        ref  == IF last THEN 0 ELSE path[f.at + 1]
        type == IF last THEN "GROUND" ELSE PolyOf(ts, ref).type
    IN  IF f.at = 1 /\ ~last /\ SqToEdge(f.apex, p) = 0 THEN f
        ELSE Narrow(f, Side(p[1], f.at, ref, type), Side(p[2], f.at, ref, type), maxStraight)

\* Where there is none the path ends, as near to its end as the polygon goes.
PullStep(ts, f, path, portal, to, maxStraight) ==
    IF portal # {} THEN PullThrough(ts, [f EXCEPT !.at = @ + 1], path, CHOOSE x \in portal : TRUE, maxStraight)
    ELSE [appendVertex(f, closestPointOnPolyBoundary(ts, path[f.at + 1], to), "NONE", path[f.at + 1],
                       maxStraight)
            EXCEPT !.over = TRUE, !.partial = TRUE]

\* f.at is the last polygon of the path that is done.
RECURSIVE Pull(_, _, _, _, _)
Pull(ts, f, path, to, maxStraight) ==
    IF f.over \/ f.at >= Len(path) THEN f
    ELSE Pull(ts, PullStep(ts, f, path, PortalAfter(ts, path, f.at + 1, to), to, maxStraight),
              path, to, maxStraight)

Funnel(from, ref, maxStraight) ==
    LET side == Side(from, 1, ref, "NONE")
    IN  appendVertex([apex |-> from, left |-> side, right |-> side, at |-> 0, corners |-> << >>,
                      over |-> FALSE, partial |-> FALSE], from, "START", ref, maxStraight)

Ended(f, to, maxStraight) == IF f.over THEN f ELSE appendVertex(f, to, "END", 0, maxStraight)

\* A path of one polygon has no portals.
Straightened(ts, from, to, path, maxStraight) ==
    LET f == Funnel(from, path[1], maxStraight)
    IN  Ended(IF Len(path) = 1 THEN f ELSE Pull(ts, f, path, to, maxStraight), to, maxStraight)

Corners(f, maxStraight) ==
    [status |-> SUCCESS \cup (IF f.partial THEN {"PARTIAL_RESULT"} ELSE {})
                        \cup (IF Len(f.corners) >= maxStraight THEN {"BUFFER_TOO_SMALL"} ELSE {}),
     corners |-> f.corners]

\* The corners from a to b, both brought into the polygons at the ends of the path.
findStraightPath(ts, a, b, path, maxStraight) ==
    IF path = << >> THEN [status |-> INVALID_PARAM.status, corners |-> << >>]
    ELSE IF \E i \in {1, Len(path)} : ~isValidPolyRef(ts, path[i])
        THEN [status |-> INVALID_PARAM.status, corners |-> << >>]
    ELSE Corners(Straightened(ts, closestPointOnPolyBoundary(ts, path[1], a),
                              closestPointOnPolyBoundary(ts, path[Len(path)], b), path, maxStraight),
                 maxStraight)

-----------------------------------------------------------------------------
(* Rays.  How far along one is said by a fraction, its denominator above   *)
(* zero.                                                                   *)

Frac(n, d)  == IF d < 0 THEN [n |-> -n, d |-> -d] ELSE [n |-> n, d |-> d]
Above(s, t) == s.n * t.d > t.n * s.d

dtVperp2D(u, v) == u[3] * v[1] - u[1] * v[3]
Vector(a, b) == [k \in 1 .. 3 |-> b[k] - a[k]]

\* The part of a segment that is left behind an edge: d says which way it crosses, t where.
Clipped(s, j, n, d, t) ==
    CASE s.miss -> s
      [] ~s.miss /\ d = 0 -> [s EXCEPT !.miss = n < 0]
      [] ~s.miss /\ d < 0 -> IF ~Above(t, s.tmin) THEN s
                             ELSE [s EXCEPT !.tmin = t, !.miss = Above(t, s.tmax)]
      [] OTHER -> IF ~Above(s.tmax, t) THEN s
                  ELSE [s EXCEPT !.tmax = t, !.segMax = j, !.miss = Above(s.tmin, t)]

ClipTo(s, j, n, d) == Clipped(s, j, n, d, Frac(n, d))

\* The part of a segment in a polygon, and the edge it leaves by, unless it misses.
dtIntersectSegmentPoly2D(p0, p1, poly) ==
    LET step(s, j, e) == ClipTo(s, j, dtVperp2D(Vector(e[1], e[2]), Vector(e[1], p0)),
                                      dtVperp2D(Vector(p0, p1), Vector(e[1], e[2])))
    IN  Through(LAMBDA s, j : step(s, j, EdgeOf(poly, j)),
                [miss |-> FALSE, tmin |-> Frac(0, 1), tmax |-> Frac(1, 1), segMax |-> 0],
                EdgeOrder(poly))

\* The ray from a to b leaves by the part of the edge the link is for; across a corner the
\* part must be the whole.
ThroughPortal(poly, link, a, b, t) ==
    LET e  == EdgeOf(poly, link.edge)
        k  == Along(link.side)
        at(m) == 255 * e[1][k] + (e[2][k] - e[1][k]) * m
        x  == 255 * (a[k] * t.d + (b[k] - a[k]) * t.n)
        lo == Least({at(link.bmin), at(link.bmax)}) * t.d
        hi == Most({at(link.bmin), at(link.bmax)}) * t.d
    IN  \/ link.side = ONE_TILE
        \/ link.bmin = 0 /\ link.bmax = 255
        \/ link.side \in {0, 2, 4, 6} /\ lo <= x /\ x <= hi

\* r: the polygons so far, how far the ray went (2 means that it met no wall), and the polygon
\* it comes to, zero if it is over.
On(r, hit, maxPath) ==
    LET full == Len(r.path) >= maxPath
    IN  [r EXCEPT !.t = IF Above(hit.tmax, @) THEN hit.tmax ELSE @,
                  !.path = IF full THEN @ ELSE Append(@, r.next),
                  !.status = IF full THEN @ \cup {"BUFFER_TOO_SMALL"} ELSE @,
                  !.next = 0]

\* The links it may leave by.
WaysOut(ts, ref, a, b, hit) ==
    SelectSeq(LinksOf(ts, ref), LAMBDA l :
        /\ l.edge = hit.segMax
        /\ PolyOf(ts, l.ref).type = "GROUND" /\ passFilter(PolyOf(ts, l.ref))
        /\ ThroughPortal(PolyOf(ts, ref), l, a, b, hit.tmax))

CastOn(on, hit, ways) ==
    IF hit.segMax = 0 THEN [on EXCEPT !.t = Frac(2, 1)]
    ELSE IF ways = << >> THEN on
    ELSE IF "BUFFER_TOO_SMALL" \in on.status THEN [on EXCEPT !.status = @ \cup {"PARTIAL_RESULT"}]
    ELSE [on EXCEPT !.next = ways[1].ref]

CastStep(ts, a, b, maxPath, r, hit) ==
    IF hit.miss THEN [r EXCEPT !.next = 0]
    ELSE CastOn(On(r, hit, maxPath), hit, WaysOut(ts, r.next, a, b, hit))

RECURSIVE Cast(_, _, _, _, _)
Cast(ts, a, b, maxPath, r) ==
    IF r.next = 0 THEN r
    ELSE Cast(ts, a, b, maxPath,
              CastStep(ts, a, b, maxPath, r, dtIntersectSegmentPoly2D(a, b, PolyOf(ts, r.next))))

raycast(ts, from, a, b, maxPath) ==
    Cast(ts, a, b, maxPath, [status |-> SUCCESS, path |-> << >>, t |-> Frac(0, 1), next |-> from])

-----------------------------------------------------------------------------
(* Properties *)

\* The segments a-b and p-q have a point in common, seen from above.
Meet(a, b, p, q) ==
    LET apart(x, y) == (x > 0 /\ y > 0) \/ (x < 0 /\ y < 0)
    IN  /\ ~apart(dtTriArea2D(a, b, p), dtTriArea2D(a, b, q))
        /\ ~apart(dtTriArea2D(p, q, a), dtTriArea2D(p, q, b))
        /\ overlapBoxes(BoxOf(<<[a EXCEPT ![2] = 0], [b EXCEPT ![2] = 0]>>),
                        BoxOf(<<[p EXCEPT ![2] = 0], [q EXCEPT ![2] = 0]>>))

\* A line through the points c, from c[k] on, crosses the portals from the i-th on in order.
RECURSIVE Threads(_, _, _, _)
Threads(c, portals, k, i) ==
    \/ i > Len(portals)
    \/ /\ k < Len(c)
       /\ \/ Meet(c[k], c[k + 1], portals[i][1], portals[i][2]) /\ Threads(c, portals, k, i + 1)
          \/ Threads(c, portals, k + 1, i)

\* The straight path of a whole path runs from its start to its end through all its portals
\* in order, and it is taut: no corner can be left out, unless it lies on the way.
StraightIsTaut ==
    LET without(c, i) == SubSeq(c, 1, i - 1) \o SubSeq(c, i + 1, Len(c))
        taut(c, portals) ==
            /\ Threads(c, portals, 1, 1) \/ Len(c) = 1
            /\ \A i \in 2 .. (Len(c) - 1) :
                \/ ~Threads(without(c, i), portals, 1, 1)
                \/ dtTriArea2D(c[i - 1], c[i], c[i + 1]) = 0
        straight(c, a, end, portals) ==
            /\ c[1].pos = a
            /\ c[Len(c)].pos = end /\ c[Len(c)].flags = "END"
            /\ taut([i \in DOMAIN c |-> c[i].pos], portals)
        holds(a, b, path, portals) ==
            (\A i \in DOMAIN portals : portals[i] # {}) =>
                straight(findStraightPath(tiles, a, b, path, 16).corners, a,
                         closestPointOnPolyBoundary(tiles, path[Len(path)], b),
                         [i \in DOMAIN portals |-> CHOOSE p \in portals[i] : TRUE])
        along(a, b, path) ==
            holds(a, b, path, [i \in 1 .. (Len(path) - 1) |-> getPortalPoints(tiles, path[i], path[i + 1])])
    IN  \A from, to \in Starts, junk \in Junk :
            LET a == MiddleOf(tiles, from)
                b == MiddleOf(tiles, to)
            IN  along(a, b, findPath(tiles, from, to, a, b, 64, junk, 16).path)

\* A ray goes from polygon to polygon through portals it crosses, and meets no wall only if
\* its end lies in the last.
RayIsWalk ==
    LET holds(r, from, goal) ==
            /\ r.path[1] = from
            /\ Walkable(tiles, r.path)
            /\ r.t.n <= r.t.d \/ r.t = Frac(2, 1)
            /\ r.t = Frac(2, 1) /\ Details(r.status) = {} =>
                    InOrOn(goal, PolyOf(tiles, r.path[Len(r.path)]))
    IN  \A from \in Starts, goal \in Places, maxPath \in PathSizes :
            holds(raycast(tiles, from, MiddleOf(tiles, from), goal, maxPath), from, goal)

\* What each query answers, in every mesh that a query may begin in.
QueriesRight ==
    Idle /\ ops <= MaxAsked =>
        /\ TreeFindsAll
        /\ NearestIsNearest
        /\ PathIsPath
        /\ AroundIsAround
        /\ NeighbourhoodIsFlat
        /\ EdgesAreWhole
        /\ WallIsNearest
        /\ MoveStaysOnSurface
        /\ StraightIsTaut
        /\ RayIsWalk
=============================================================================
