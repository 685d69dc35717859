------------------------------ MODULE TileData ------------------------------
(***************************************************************************)
(* Detour/DetourNavMeshBuilder.cpp: what a builder makes of the polygons   *)
(* of one tile, and the tree that finds the polygons in a box.             *)
(*                                                                         *)
(* A point is <<x, y, z>>, y up, and integers are exact: the cells are one *)
(* unit wide and high.  Polygons are numbered from one.                    *)
(***************************************************************************)
EXTENDS Integers, Sequences, FiniteSets, SequencesExt, TLC

EXT_LINK  == 32768     \* DT_EXT_LINK, and the 0x8000 of raw neighbours
ONE_TILE  == 255       \* 0xff: a side that is none
BORDER    == 15        \* 0xf of a raw neighbour

\* op(...op(op(base, s[1]), s[2])..., s[n]).
Through(op(_, _), base, s) ==
    LET f[i \in 0 .. Len(s)] == IF i = 0 THEN base ELSE op(f[i - 1], s[i]) IN f[Len(s)]

\* The elements of s that are in S, in their order.
KeepIn(S, r, x) == IF x \in S THEN Append(r, x) ELSE r
Kept(s, S) == Through(LAMBDA r, x : KeepIn(S, r, x), << >>, s)

SumOf(s) == Through(LAMBDA a, b : a + b, 0, s)
Least(S) == CHOOSE a \in S : \A b \in S : a <= b
Most(S)  == CHOOSE a \in S : \A b \in S : a >= b
Indices(s) == [i \in 1 .. Len(s) |-> i]

\* A metric, as the code's is, on the grid of the model.
Dist(a, b) ==
    LET off(k) == IF a[k] < b[k] THEN b[k] - a[k] ELSE a[k] - b[k] IN off(1) + off(2) + off(3)

\* The point n / d of the way from a to b.
Lerp(a, b, n, d) == [k \in 1 .. 3 |-> a[k] + (2 * n * (b[k] - a[k]) + d) \div (2 * d)]

\* The corners of the box around some points.
BoxOf(points) ==
    [bmin |-> [k \in 1 .. 3 |-> Least({points[i][k] : i \in DOMAIN points})],
     bmax |-> [k \in 1 .. 3 |-> Most({points[i][k] : i \in DOMAIN points})]]

-----------------------------------------------------------------------------
(* The bounding volume tree: nodes in depth-first order; an inner node     *)
(* holds how far to jump to skip it, negated, a leaf its polygon.          *)

calcExtends(items) ==
    [bmin |-> [k \in 1 .. 3 |-> Least({items[i].bmin[k] : i \in DOMAIN items})],
     bmax |-> [k \in 1 .. 3 |-> Most({items[i].bmax[k] : i \in DOMAIN items})]]

longestAxis(x, y, z) == IF z > Most({x, y}) THEN 3 ELSE IF y > x THEN 2 ELSE 1

AxisOf(box) == longestAxis(box.bmax[1] - box.bmin[1], box.bmax[2] - box.bmin[2],
                           box.bmax[3] - box.bmin[3])

SortedOn(items, axis) == SortSeq(items, LAMBDA a, b : a.bmin[axis] < b.bmin[axis])

Inner(box, low, high) ==
    <<[bmin |-> box.bmin, bmax |-> box.bmax, i |-> -(1 + Len(low) + Len(high))]>> \o low \o high

Point == [1 .. 3 -> Int]

subdivide[items \in Seq([bmin : Point, bmax : Point, i : Nat])] ==
    IF Len(items) = 1 THEN <<items[1]>>
    ELSE LET sorted == SortedOn(items, AxisOf(calcExtends(items)))
             split  == Len(items) \div 2
         IN  Inner(calcExtends(items), subdivide[SubSeq(sorted, 1, split)],
                                       subdivide[SubSeq(sorted, split + 1, Len(items))])

\* bvNodeCount is twice the polygons, one more than there are nodes: the last one is
\* all zero, a leaf for the first polygon at the tile's corner.
createBVTree(params) ==
    LET item(i) == LET box == BoxOf(params.polys[i].verts)
                   IN  [bmin |-> box.bmin, bmax |-> box.bmax, i |-> i]
        zero    == [bmin |-> <<0, 0, 0>>, bmax |-> <<0, 0, 0>>, i |-> 1]
    IN  Append(subdivide[[i \in DOMAIN params.polys |-> item(i)]], zero)

-----------------------------------------------------------------------------
(* The rest of a tile.  Sides: 0 is x+, 2 is z+, 4 is x-, 6 is z-, odd     *)
(* ones are the corners between.                                           *)

SideStep == [s \in 0 .. 7 |-> <<IF s \in {7, 0, 1} THEN 1 ELSE IF s \in 3 .. 5 THEN -1 ELSE 0,
                                IF s \in 1 .. 3 THEN 1 ELSE IF s \in 5 .. 7 THEN -1 ELSE 0>>]

SideTowards(step) ==
    LET sides == {s \in 0 .. 7 : SideStep[s] = step}
    IN  IF sides = {} THEN ONE_TILE ELSE CHOOSE s \in sides : TRUE

\* Where the point lies beyond the tile.
classifyOffMeshPoint(pt, box) ==
    LET out(k) == IF pt[k] >= box.bmax[k] THEN 1 ELSE IF pt[k] < box.bmin[k] THEN -1 ELSE 0
    IN  SideTowards(<<out(1), out(3)>>)

\* Raw neighbours name sides in another order; a border is no neighbour.
PortalSide(raw) == IF raw % 16 = BORDER THEN 0
                   ELSE EXT_LINK + (CASE raw % 16 = 0 -> 4 [] raw % 16 = 1 -> 2
                                      [] raw % 16 = 2 -> 0 [] raw % 16 = 3 -> 6)

Neighbour(raw) == IF raw >= EXT_LINK THEN PortalSide(raw) ELSE raw + 1

World(params, v) == [k \in 1 .. 3 |-> params.bmin[k] + v[k]]

\* Both ends of connection c: where they lie.  A start too high or too low is nowhere.
Heights(params) ==
    UNION {{World(params, p.verts[j])[2] : j \in DOMAIN p.verts} :
                p \in {params.polys[i] : i \in DOMAIN params.polys}}

OutOfReach(y, heights, climb) == y < Least(heights) - climb \/ y > Most(heights) + climb

KeptClass(class, lost) == IF class = ONE_TILE /\ lost THEN 0 ELSE class

StartClass(params, c) == KeptClass(classifyOffMeshPoint(c.from, params),
                                   OutOfReach(c.from[2], Heights(params), params.climb))
EndClass(params, c)   == classifyOffMeshPoint(c.to, params)

\* Links for every edge, two more for a portal, two for an end that lies in the tile;
\* connections of other tiles that end here are not counted.
maxLinkCount(params) ==
    LET edges(p)   == Len(p.verts)
        portals(p) == Cardinality({j \in DOMAIN p.neis :
                                      p.neis[j] >= EXT_LINK /\ p.neis[j] % 16 # BORDER})
        ends(start, end) == Cardinality({k \in {1, 2} : <<start, end>>[k] = ONE_TILE})
    IN  SumOf([i \in DOMAIN params.polys |->
                 edges(params.polys[i]) + 2 * portals(params.polys[i])])
          + 2 * SumOf([i \in DOMAIN params.cons |-> ends(StartClass(params, params.cons[i]), EndClass(params, params.cons[i]))])

\* Only connections that start in the tile are stored, each with a polygon of its own.
dtCreateNavMeshData(params) ==
    LET stored == SelectSeq(params.cons, LAMBDA c : StartClass(params, c) = ONE_TILE)
        base   == Len(params.polys)
        ground(p) == [verts |-> [j \in DOMAIN p.verts |-> World(params, p.verts[j])],
                      neis  |-> [j \in DOMAIN p.neis |-> Neighbour(p.neis[j])],
                      type  |-> "GROUND", flags |-> p.flags, area |-> p.area]
        jump(c)   == [verts |-> <<c.from, c.to>>, neis |-> <<0, 0>>,
                      type  |-> "OFFMESH", flags |-> c.flags, area |-> c.area]
    IN  [x |-> params.x, y |-> params.y, layer |-> params.layer,
         bmin |-> params.bmin, bmax |-> params.bmax, climb |-> params.climb,
         maxLinkCount |-> maxLinkCount(params),
         polys |-> [i \in 1 .. base |-> ground(params.polys[i])]
                     \o [n \in DOMAIN stored |-> jump(stored[n])],
         cons  |-> [n \in DOMAIN stored |->
                      [poly |-> base + n, from |-> stored[n].from, to |-> stored[n].to,
                       rad |-> stored[n].rad, bidir |-> stored[n].bidir,
                       side |-> EndClass(params, stored[n])]],
         bvTree |-> IF params.bv THEN createBVTree(params) ELSE << >>]
=============================================================================
