------------------------------ MODULE NavMesh ------------------------------
(***************************************************************************)
(* Detour/DetourNavMesh.cpp: the tiles of a navigation mesh, the           *)
(* references to tiles and polygons, and the links between polygons, made  *)
(* and unmade as tiles come and go.  space.cpp loads tiles; a user may     *)
(* also remove and reload them.                                            *)
(*                                                                         *)
(* The links of a polygon are a sequence, newest first; which slot of the  *)
(* tile's array a link has is left out, how many slots are free is not.    *)
(* Polygons are rectangles of one height.                                  *)
(***************************************************************************)
EXTENDS TileData

CONSTANTS
    Source,                        \* what the tiles are built from, by name
    MaxTiles,                      \* m_maxTiles
    LutSize,                       \* m_tileLutSize
    TileSpan, PolySpan, SaltSpan,  \* 2 ^ m_tileBits, 2 ^ m_polyBits, 2 ^ m_saltBits
    MAX_NEIS,                      \* so many tiles at one place are looked at
    FileTiles,                     \* tiles in files that were saved earlier, with their references
    FlagValues,                    \* what setPolyFlags is called with
    Boxes,                         \* boxes to look for polygons in
    MaxOps                         \* bound: calls that change something

ASSUME NavMeshAssumption ==
    /\ {TileSpan, PolySpan} \subseteq Nat \ {0}
    /\ SaltSpan \in Nat \ {0, 1}
    /\ MaxTiles \in 1 .. TileSpan
    /\ {LutSize, MAX_NEIS} \subseteq Nat \ {0}
    /\ MaxOps \in Nat

VARIABLES
    tiles,       \* m_tiles, numbered from 0
    nextFree,    \* m_nextFree and what follows it
    posLookup,   \* m_posLookup: a list of tiles for each hash
    saved,       \* what storeTileState wrote
    given,       \* history: the references handed out, each with the tile it was for
    back,        \* history: the salt of a tile was turned back or came round
    ops

meshVars == <<tiles, nextFree, posLookup, saved, given, back, ops>>

\* The tiles as they are loaded, and the data of one.
Names == DOMAIN Source
DataOf(d) == dtCreateNavMeshData(Source[d])
None == "none"

\* addTile looks at the magic and the version of the data and takes the rest as it is: every
\* link has room to be counted, neighbours, connections and leaves of the tree are polygons.
IsSeq(s) == s \in Seq(ToSet(s))

WellFormed(data) ==
    /\ data.x \in Int /\ data.y \in Int /\ data.maxLinkCount \in Nat
    /\ IsSeq(data.polys) /\ \A p \in DOMAIN data.polys : IsSeq(data.polys[p].verts)
    /\ \A p \in DOMAIN data.polys : \A j \in DOMAIN data.polys[p].verts :
            data.polys[p].neis[j] \in 1 .. (EXT_LINK - 1) => data.polys[p].neis[j] \in DOMAIN data.polys
    /\ IsSeq(data.cons)  /\ \A i \in DOMAIN data.cons : data.cons[i].poly \in DOMAIN data.polys
    /\ IsSeq(data.bvTree)
    /\ \A n \in DOMAIN data.bvTree : data.bvTree[n].i > 0 => data.bvTree[n].i \in DOMAIN data.polys

ASSUME SourceAssumption ==
    /\ None \notin Names
    /\ \A d \in Names : WellFormed(DataOf(d))

\* What is in place t of m_tiles: the data stays as it was loaded, but for the polygons and
\* the links.
Blank(salt) == [salt |-> salt, name |-> None, data |-> << >>, polys |-> << >>, links |-> << >>,
                free |-> 0, dry |-> FALSE]

-----------------------------------------------------------------------------
(* References: zero is none.                                               *)

encodePolyId(salt, it, ip) == (salt * TileSpan + it) * PolySpan + (ip - 1)
decodePolyIdSalt(ref) == ((ref \div PolySpan) \div TileSpan) % SaltSpan
decodePolyIdTile(ref) == (ref \div PolySpan) % TileSpan
decodePolyIdPoly(ref) == (ref % PolySpan) + 1

ASSUME FileTilesAssumption ==
    \A g \in FileTiles :
        /\ g.name \in Names
        /\ \E salt \in 1 .. (SaltSpan - 1), t \in 0 .. (TileSpan - 1) : g.ref = encodePolyId(salt, t, 1)

Ref(ts, t, p) == encodePolyId(ts[t].salt, t, p)

isValidPolyRef(ts, ref) ==
    LET t == decodePolyIdTile(ref)
    IN  /\ ref # 0
        /\ t < MaxTiles
        /\ ts[t].salt = decodePolyIdSalt(ref) /\ ts[t].name # None
        /\ decodePolyIdPoly(ref) <= Len(ts[t].polys)

\* What an unchecked reference reads: there may be no such polygon.
PolyOf(ts, ref) == ts[decodePolyIdTile(ref)].polys[decodePolyIdPoly(ref)]
LinksOf(ts, ref) == ts[decodePolyIdTile(ref)].links[decodePolyIdPoly(ref)]

-----------------------------------------------------------------------------
(* Places                                                                  *)

\* The low bits of the two primes.
computeTileHash(x, y) == (3 * x + y) % LutSize

Used(ts) == {t \in DOMAIN ts : ts[t].name # None}

TilesAt(ts, lut, x, y) ==
    Kept(lut[computeTileHash(x, y)], {t \in Used(ts) : ts[t].data.x = x /\ ts[t].data.y = y})

\* As many as the callers have room for.
FirstOf(s, n) == SubSeq(s, 1, Least({Len(s), n}))

getTilesAt(ts, lut, x, y) == FirstOf(TilesAt(ts, lut, x, y), MAX_NEIS)

getTileAt(ts, lut, x, y, layer) ==
    Kept(TilesAt(ts, lut, x, y), {t \in Used(ts) : ts[t].data.layer = layer})

getNeighbourTilesAt(ts, lut, x, y, side) ==
    getTilesAt(ts, lut, x + SideStep[side][1], y + SideStep[side][2])

dtOppositeTile(side) == (side + 4) % 8

-----------------------------------------------------------------------------
(* Portals: edges on the border of a tile.                                 *)

\* The axis along a side: z for x+ and x-, x for z+ and z-; and the one across.
Along(side)  == IF side \in {0, 4} THEN 3 ELSE 1
Across(side) == 4 - Along(side)

EdgeOf(poly, j) == <<poly.verts[j], poly.verts[(j % Len(poly.verts)) + 1]>>

\* An edge seen along its side, from its lesser end to its greater.
calcSlabEndPoints(edge, side) ==
    LET a == edge[1]  b == edge[2]  k == Along(side)
    IN  IF a[k] < b[k] THEN [lo |-> a[k], loy |-> a[2], hi |-> b[k], hiy |-> b[2]]
                       ELSE [lo |-> b[k], loy |-> b[2], hi |-> a[k], hiy |-> a[2]]

\* The height of b over a at x, multiplied by both lengths.
Gap(a, b, x) ==
    LET y(s, other) == (s.loy * (s.hi - s.lo) + (s.hiy - s.loy) * (x - s.lo)) * (other.hi - other.lo)
    IN  y(b, a) - y(a, b)

\* Two slabs with these gaps at either end of what they share cross, or come near.
Close(dmin, dmax, thr) == dmin * dmax < 0 \/ dmin \in -thr .. thr \/ dmax \in -thr .. thr

\* They share more than a point, and cross or come within twice the climb at an end of
\* what they share.
overlapSlabs(a, b, climb) ==
    LET lo == Most({a.lo, b.lo})
        hi == Least({a.hi, b.hi})
    IN  lo < hi /\ Close(Gap(a, b, lo), Gap(a, b, hi), 2 * climb * (a.hi - a.lo) * (b.hi - b.lo))

\* The edges of a polygon behind an edge at this place with this slab.
Meeting(poly, slab, at, side, climb) ==
    {j \in DOMAIN poly.verts :
        /\ poly.neis[j] = EXT_LINK + side
        /\ EdgeOf(poly, j)[1][Across(side)] = at
        /\ overlapSlabs(slab, calcSlabEndPoints(EdgeOf(poly, j), side), climb)}

Shared(ref, a, b) == [ref |-> ref, lo |-> Most({a.lo, b.lo}), hi |-> Least({a.hi, b.hi})]

\* Up to four polygons of tile t behind an edge with this slab, the first such edge of each.
More(ts, slab, at, t, side, hits, p) ==
    LET poly  == ts[t].polys[p]
        edges == Meeting(poly, slab, at, side, ts[t].data.climb)
    IN  IF Len(hits) = 4 \/ edges = {} THEN hits
        ELSE Append(hits, Shared(Ref(ts, t, p), slab, calcSlabEndPoints(EdgeOf(poly, Least(edges)), side)))

PolysBehind(ts, slab, at, t, side) ==
    Through(LAMBDA hits, p : More(ts, slab, at, t, side, hits, p), << >>, Indices(ts[t].polys))

findConnectingPolys(ts, edge, t, side) ==
    PolysBehind(ts, calcSlabEndPoints(edge, side), edge[1][Across(side)], t, side)

-----------------------------------------------------------------------------
(* The nearest polygon                                                     *)

Clamp(v, lo, hi) == IF v < lo THEN lo ELSE IF v > hi THEN hi ELSE v

overlapBoxes(a, b) == \A k \in 1 .. 3 : a.bmin[k] <= b.bmax[k] /\ b.bmin[k] <= a.bmax[k]

\* The query box in units of the tree: rounded down to even, up to odd.
Quantised(data, box) ==
    LET rel(v, k) == Clamp(v, data.bmin[k], data.bmax[k]) - data.bmin[k]
        even(n)   == n - (n % 2)
    IN  [bmin |-> [k \in 1 .. 3 |-> even(rel(box.bmin[k], k))],
         bmax |-> [k \in 1 .. 3 |-> even(rel(box.bmax[k], k) + 1) + 1]]

\* The walk through the tree: an inner node that is missed is skipped with all its own.  w.at
\* is the node that is looked at next.
Visit(tree, q, w, n) ==
    LET node == tree[n]
        leaf == node.i > 0
        hit  == overlapBoxes(q, node)
    IN  IF n # w.at THEN w
        ELSE [at   |-> IF hit \/ leaf THEN n + 1 ELSE n - node.i,
              hits |-> IF leaf /\ hit THEN Append(w.hits, node.i) ELSE w.hits]

Traverse(tree, q) ==
    Through(LAMBDA w, n : Visit(tree, q, w, n), [at |-> 1, hits |-> << >>], Indices(tree)).hits

\* Without a tree: every polygon's box.
Linear(polys, box) ==
    Kept(Indices(polys),
         {p \in DOMAIN polys : polys[p].type = "GROUND" /\ overlapBoxes(box, BoxOf(polys[p].verts))})

queryPolygonsInTile(ts, t, box) ==
    LET data == ts[t].data
    IN  IF data.bvTree # << >> THEN Traverse(data.bvTree, Quantised(data, box))
                               ELSE Linear(ts[t].polys, box)

\* The borders on the lesser side belong to a polygon, those on the greater do not.
InBox2D(pos, box) == \A k \in {1, 3} : box.bmin[k] <= pos[k] /\ pos[k] < box.bmax[k]

dtPointInPolygon(pos, poly) == InBox2D(pos, BoxOf(poly.verts))

\* The point of an edge along an axis at (x, z); its height is taken along the edge.
OnEdge(e, x, z) ==
    LET k == IF e[1][1] # e[2][1] THEN 1 ELSE 3
        n == (IF k = 1 THEN x ELSE z) - e[1][k]
    IN  <<x, IF e[1][k] = e[2][k] THEN e[1][2]
             ELSE e[1][2] + (n * (e[2][2] - e[1][2])) \div (e[2][k] - e[1][k]), z>>

\* The nearest point to pos of an edge, seen from above.
NearOnEdge(pos, e) ==
    LET near(k) == Clamp(pos[k], Least({e[1][k], e[2][k]}), Most({e[1][k], e[2][k]}))
    IN  OnEdge(e, near(1), near(3))

\* Over the polygon only the height is missing; else the nearest point of its border.
NearestIn(box, poly, pos) ==
    [pt   |-> IF poly.type = "OFFMESH" THEN NearOnEdge(pos, EdgeOf(poly, 1))
              ELSE [k \in 1 .. 3 |-> Clamp(pos[k], box.bmin[k], box.bmax[k])],
     over |-> poly.type = "GROUND" /\ InBox2D(pos, box)]

closestPointOnPoly(poly, pos) == NearestIn(BoxOf(poly.verts), poly, pos)

Sq(n) == n * n

\* Over a polygon the climb is free.
Away(c, pos, climb) ==
    LET d(k) == pos[k] - c.pt[k]
    IN  IF c.over THEN Sq(Most({0, Most({d(2), -d(2)}) - climb})) ELSE Sq(d(1)) + Sq(d(2)) + Sq(d(3))

NearDistance(poly, pos, climb) == Away(closestPointOnPoly(poly, pos), pos, climb)

Around(pos, ext) == [bmin |-> [k \in 1 .. 3 |-> pos[k] - ext[k]],
                     bmax |-> [k \in 1 .. 3 |-> pos[k] + ext[k]]]

\* The nearest of some polygons of tile t, the first of them, or none.
Nearer(ts, t, pos, best, p) ==
    LET away(q) == NearDistance(ts[t].polys[q], pos, ts[t].data.climb)
    IN  IF best = 0 \/ away(p) < away(best) THEN p ELSE best

NearestOf(ts, t, pos, polys) == Through(LAMBDA best, p : Nearer(ts, t, pos, best, p), 0, polys)

\* The first of the nearest polygons of tile t near pos, or none.
findNearestPolyInTile(ts, t, pos, ext) ==
    NearestOf(ts, t, pos, queryPolygonsInTile(ts, t, Around(pos, ext)))

\* The polygon of t an end of a connection lands on, if one is within its radius.
LandsOn(p, c, pos, rad) ==
    IF p # 0 /\ Sq(c[1] - pos[1]) + Sq(c[3] - pos[3]) <= Sq(rad) THEN {<<p, c>>} ELSE {}

PlaceOn(ts, t, p, pos, rad) == LandsOn(p, closestPointOnPoly(ts[t].polys[p], pos).pt, pos, rad)

Landing(ts, t, pos, rad, climb) ==
    PlaceOn(ts, t, findNearestPolyInTile(ts, t, pos, <<rad, climb, rad>>), pos, rad)

-----------------------------------------------------------------------------
(* Links                                                                   *)

\* When no link is free the connection is silently left out.
AddLink(ts, t, p, link) ==
    IF ts[t].free = 0
        THEN [ts EXCEPT ![t].dry = TRUE]
        ELSE [ts EXCEPT ![t].free = @ - 1, ![t].links[p] = <<link>> \o @]

Link(ref, edge, side) == [ref |-> ref, edge |-> edge, side |-> side, bmin |-> 0, bmax |-> 0]

\* Part of an edge of length len, as 255ths of it.
PortionOf(len, n) == (510 * Clamp(n, 0, len) + len) \div (2 * len)

Portion(edge, side, at) ==
    LET k == Along(side)
    IN  IF edge[2][k] < edge[1][k] THEN PortionOf(edge[1][k] - edge[2][k], edge[1][k] - at)
                                   ELSE PortionOf(edge[2][k] - edge[1][k], at - edge[1][k])

\* Every polygon and edge, in order.
EdgesOf(polys) == FlattenSeq([p \in DOMAIN polys |-> [j \in DOMAIN polys[p].verts |-> <<p, j>>]])

\* A portal, and how it is linked to the polygon con behind it: between the portions a and b.
IsPortal(nei, side) == nei >= EXT_LINK /\ side \in {ONE_TILE, nei - EXT_LINK}

PortalLink(ts, t, e, edge, dir, con) ==
    LET a == Portion(edge, dir, con.lo)
        b == Portion(edge, dir, con.hi)
    IN  AddLink(ts, t, e[1], [ref |-> con.ref, edge |-> e[2], side |-> dir,
                              bmin |-> Least({a, b}), bmax |-> Most({a, b})])

LinkBehind(ts, t, e, edge, dir, cons) ==
    Through(LAMBDA s, con : PortalLink(s, t, e, edge, dir, con), ts, cons)

LinkPortal(ts, t, e, target) ==
    LET edge == EdgeOf(ts[t].polys[e[1]], e[2])
        dir  == ts[t].polys[e[1]].neis[e[2]] - EXT_LINK
    IN  LinkBehind(ts, t, e, edge, dir, findConnectingPolys(ts, edge, target, dtOppositeTile(dir)))

\* The portals of t on a side (or any) are linked to what is behind them in target.
PortalEdges(ts, t, side) ==
    LET edges == EdgesOf(ts[t].data.polys)
    IN  Kept(edges, {e \in ToSet(edges) : IsPortal(ts[t].polys[e[1]].neis[e[2]], side)})

connectExtLinks(ts, t, target, side) ==
    Through(LAMBDA s, e : LinkPortal(s, t, e, target), ts, PortalEdges(ts, t, side))

\* The end of connection con of target, on that side of t, is tied to where it lands in t.
EndAt(ts, t, target, con, side, from, at) ==
    LET moved == [ts EXCEPT ![target].polys[con.poly].verts[2] = at[2]]
        there == AddLink(moved, target, con.poly, Link(Ref(ts, t, at[1]), 2, from))
    IN  IF con.bidir THEN AddLink(there, t, at[1], Link(Ref(ts, target, con.poly), ONE_TILE, side))
                     ELSE there

TieEnd(ts, t, target, con, side) ==
    LET from    == IF side = ONE_TILE THEN ONE_TILE ELSE dtOppositeTile(side)
        landing == Landing(ts, t, con.to, con.rad, ts[target].data.climb)
    IN  IF con.side # from \/ ts[target].links[con.poly] = << >> \/ landing = {} THEN ts
        ELSE EndAt(ts, t, target, con, side, from, CHOOSE x \in landing : TRUE)

\* The connections of target that end on that side of it land in t.
connectExtOffMeshLinks(ts, t, target, side) ==
    Through(LAMBDA s, con : TieEnd(s, t, target, con, side), ts, ts[target].data.cons)

\* Every polygon and edge, the edges of each backward.
EdgesBack(polys) ==
    FlattenSeq([p \in DOMAIN polys |-> [j \in DOMAIN polys[p].verts |-> <<p, Len(polys[p].verts) + 1 - j>>]])

InnerEdges(ts, t) ==
    LET edges == EdgesBack(ts[t].data.polys)
    IN  Kept(edges, {e \in ToSet(edges) : /\ ts[t].polys[e[1]].type = "GROUND"
                                          /\ ts[t].polys[e[1]].neis[e[2]] \in 1 .. (EXT_LINK - 1)})

\* An edge is linked to the polygon behind it.
LinkEdge(ts, t, e) == AddLink(ts, t, e[1], Link(Ref(ts, t, ts[t].polys[e[1]].neis[e[2]]), e[2], ONE_TILE))

connectIntLinks(ts, t) == Through(LAMBDA s, e : LinkEdge(s, t, e), ts, InnerEdges(ts, t))

\* A connection is tied to the polygon it starts on, and back.
StartAt(ts, t, con, at) ==
    LET moved == [ts EXCEPT ![t].polys[con.poly].verts[1] = at[2]]
        out   == AddLink(moved, t, con.poly, Link(Ref(ts, t, at[1]), 1, ONE_TILE))
    IN  AddLink(out, t, at[1], Link(Ref(ts, t, con.poly), ONE_TILE, ONE_TILE))

TieStart(ts, t, con) ==
    LET landing == Landing(ts, t, con.from, con.rad, ts[t].data.climb)
    IN  IF landing = {} THEN ts ELSE StartAt(ts, t, con, CHOOSE x \in landing : TRUE)

baseOffMeshLinks(ts, t) == Through(LAMBDA s, con : TieStart(s, t, con), ts, ts[t].data.cons)

\* What stays of some links when those into target go, whatever salt they carry.
LinksElsewhere(ls, target) == Kept(ls, {l \in ToSet(ls) : decodePolyIdTile(l.ref) # target})

\* Faulty variant: the links are dropped, their slots are not given back.
unconnectLinks_Leaks(ts, t, target) ==
    [ts EXCEPT ![t].links = [p \in DOMAIN @ |-> LinksElsewhere(@[p], target)]]

LinkCount(links) == SumOf([p \in DOMAIN links |-> Len(links[p])])

\* The links of t into target go.
unconnectLinks(ts, t, target) ==
    LET kept == [p \in DOMAIN ts[t].links |-> LinksElsewhere(ts[t].links[p], target)]
    IN  [ts EXCEPT ![t].links = kept,
                   ![t].free = @ + LinkCount(ts[t].links) - LinkCount(kept)]

-----------------------------------------------------------------------------
(* Tiles come and go                                                       *)

Loaded(ts, t, salt, d, data) ==
    [ts EXCEPT ![t] = [salt |-> salt, name |-> d, data |-> data, polys |-> data.polys,
                       links |-> [p \in DOMAIN data.polys |-> << >>],
                       free |-> data.maxLinkCount, dry |-> FALSE]]

\* Both ways, for one neighbour.
Connect(ts, t, n, side) ==
    LET opp == IF side = ONE_TILE THEN ONE_TILE ELSE dtOppositeTile(side)
    IN  connectExtOffMeshLinks(
            connectExtOffMeshLinks(
                connectExtLinks(connectExtLinks(ts, t, n, side), n, t, opp), t, n, side), n, t, opp)

\* Inside, at once.
Alone(ts, t) == connectExtOffMeshLinks(baseOffMeshLinks(connectIntLinks(ts, t), t), t, t, ONE_TILE)

\* The tiles that are or will be connected to t at (x, y), each with its side: other layers,
\* then the neighbours on the eight sides.
Neighbours(ts, lut, t, x, y) ==
    LET with(found, side) == [n \in DOMAIN found |-> <<found[n], side>>]
    IN  FlattenSeq([i \in 1 .. 9 |->
            IF i = 1 THEN with(Kept(getTilesAt(ts, lut, x, y), DOMAIN ts \ {t}), ONE_TILE)
                     ELSE with(getNeighbourTilesAt(ts, lut, x, y, i - 2), i - 2)])

\* Faulty variant: only the neighbours across a side are connected, not across a corner.
Connected_NoCorners(ts, t, near) ==
    Through(LAMBDA s, n : IF n[2] \in {1, 3, 5, 7} THEN s ELSE Connect(s, t, n[1], n[2]), Alone(ts, t), near)

\* The links of a new tile: inside, to other layers, to the eight neighbours.
Connected(ts, t, near) == Through(LAMBDA s, n : Connect(s, t, n[1], n[2]), Alone(ts, t), near)

Count == ops < MaxOps /\ ops' = ops + 1

\* There is no tile at its place and level yet, and references can number its polygons.
Fits(data) ==
    /\ getTileAt(tiles, posLookup, data.x, data.y, data.layer) = << >>
    /\ Len(data.polys) <= PolySpan

\* The common end of addTile: tile t with its salt is in.
Insert(d, data, t, salt) ==
    LET lut == [posLookup EXCEPT ![computeTileHash(data.x, data.y)] = <<t>> \o @]
        ts  == Loaded(tiles, t, salt, d, data)
    IN  /\ Fits(data)
        /\ Count
        /\ tiles' = Connected(ts, t, Neighbours(ts, lut, t, data.x, data.y))
        /\ posLookup' = lut
        /\ given' = given \cup {[ref |-> encodePolyId(salt, t, 1), name |-> d]}
        /\ UNCHANGED saved

\* addTile with lastRef 0.
addTile(d) ==
    /\ nextFree # << >>
    /\ Insert(d, DataOf(d), Head(nextFree), tiles[Head(nextFree)].salt)
    /\ nextFree' = Tail(nextFree)
    /\ UNCHANGED back

\* The place the reference names is free.
MayReturn(lastRef) ==
    LET t == decodePolyIdTile(lastRef)
    IN  t < MaxTiles /\ \E i \in DOMAIN nextFree : nextFree[i] = t

\* addTile of a tile that was there before, or is in a file, with its reference: it brings its salt.
reloadTile(d, lastRef) ==
    LET t == decodePolyIdTile(lastRef)
    IN  /\ MayReturn(lastRef)
        /\ Insert(d, DataOf(d), t, decodePolyIdSalt(lastRef))
        /\ nextFree' = Kept(nextFree, DOMAIN tiles \ {t})
        /\ back' = (back \/ decodePolyIdSalt(lastRef) < tiles[t].salt)

\* Faulty variant: the salt stays.
NextSalt_Same(salt) == salt

NextSalt(salt) == LET s == (salt + 1) % SaltSpan IN IF s = 0 THEN 1 ELSE s

Freed(ts, t, near) == Through(LAMBDA s, n : unconnectLinks(s, n[1], t), ts, near)

\* The neighbours let go of t, t is blank, and first in the free list.  The reference is of a
\* tile that is there: the code compares the salt only, and with a reference that fits the
\* salt of an empty slot goes on to a header that is null.
removeTile(ref) ==
    LET t    == decodePolyIdTile(ref)
        data == tiles[t].data
        lut  == [posLookup EXCEPT ![computeTileHash(data.x, data.y)] = Kept(@, DOMAIN tiles \ {t})]
        ts   == Freed(tiles, t, Neighbours(tiles, lut, t, data.x, data.y))
    IN  /\ isValidPolyRef(tiles, ref)
        /\ Count
        /\ posLookup' = lut
        /\ tiles' = [ts EXCEPT ![t] = Blank(NextSalt(tiles[t].salt))]
        /\ nextFree' = <<t>> \o nextFree
        /\ back' = (back \/ tiles[t].salt = SaltSpan - 1)
        /\ UNCHANGED <<saved, given>>

-----------------------------------------------------------------------------
(* What may change in a tile that stays.                                   *)

setPolyFlags(ref, flags) ==
    /\ isValidPolyRef(tiles, ref)
    /\ PolyOf(tiles, ref).flags # flags
    /\ Count
    /\ tiles' = [tiles EXCEPT ![decodePolyIdTile(ref)].polys[decodePolyIdPoly(ref)].flags = flags]
    /\ UNCHANGED <<nextFree, posLookup, saved, given, back>>

setPolyArea(ref, area) ==
    /\ isValidPolyRef(tiles, ref)
    /\ PolyOf(tiles, ref).area # area
    /\ Count
    /\ tiles' = [tiles EXCEPT ![decodePolyIdTile(ref)].polys[decodePolyIdPoly(ref)].area = area]
    /\ UNCHANGED <<nextFree, posLookup, saved, given, back>>

storeTileState(t) ==
    /\ tiles[t].name # None
    /\ Count
    /\ saved' = {[ref |-> Ref(tiles, t, 1), name |-> tiles[t].name,
                  attrs |-> [p \in DOMAIN tiles[t].polys |->
                                <<tiles[t].polys[p].flags, tiles[t].polys[p].area>>]]}
    /\ UNCHANGED <<tiles, nextFree, posLookup, given, back>>

StateFits(state, t) == Len(tiles[t].polys) <= Len(state.attrs) /\ state.ref = Ref(tiles, t, 1)

restoreTileState(state, t) ==
    /\ tiles[t].name # None
    /\ StateFits(state, t)
    /\ Count
    /\ tiles' = [tiles EXCEPT ![t].polys = [p \in DOMAIN @ |->
                    [@[p] EXCEPT !.flags = state.attrs[p][1], !.area = state.attrs[p][2]]]]
    /\ UNCHANGED <<nextFree, posLookup, saved, given, back>>

-----------------------------------------------------------------------------

MeshInit ==
    /\ tiles = [t \in 0 .. (MaxTiles - 1) |-> Blank(1)]
    /\ nextFree = [i \in 1 .. MaxTiles |-> i - 1]
    /\ posLookup = [h \in 0 .. (LutSize - 1) |-> << >>]
    /\ saved = {}
    /\ given = {}
    /\ back = FALSE
    /\ ops = 0

Refs == {g.ref : g \in given}

MeshNext ==
    \/ \E d \in Names : addTile(d)
    \/ \E g \in given \cup FileTiles : reloadTile(g.name, g.ref)
    \/ \E r \in Refs : removeTile(r)
    \/ \E t \in Used(tiles) : storeTileState(t)
    \/ \E s \in saved, t \in Used(tiles) : restoreTileState(s, t)
    \/ \E t \in Used(tiles) : \E p \in DOMAIN tiles[t].polys, f \in FlagValues :
            setPolyFlags(Ref(tiles, t, p), f) \/ setPolyArea(Ref(tiles, t, p), f)

MeshSpec == MeshInit /\ [][MeshNext]_meshVars

-----------------------------------------------------------------------------
(* Properties                                                              *)

\* Every tile is in the free list or in the list of its place, once; no two tiles are at
\* one place; every link is in use or free.
TilesAccounted ==
    /\ \A t \in DOMAIN tiles :
        LET lists == {h \in DOMAIN posLookup : \E i \in DOMAIN posLookup[h] : posLookup[h][i] = t}
        IN  IF tiles[t].name = None
                THEN lists = {} /\ Cardinality({i \in DOMAIN nextFree : nextFree[i] = t}) = 1
                ELSE LET d == tiles[t].data
                     IN  /\ lists = {computeTileHash(d.x, d.y)}
                         /\ \A i \in DOMAIN nextFree : nextFree[i] # t
                         /\ getTileAt(tiles, posLookup, d.x, d.y, d.layer) = <<t>>
                         /\ tiles[t].free + LinkCount(tiles[t].links)
                              = d.maxLinkCount
    /\ Len(nextFree) + Cardinality(Used(tiles)) = MaxTiles

\* The polygons that share border, or are joined by a connection, said without links.
Behind(t, p, u, q) ==
    LET a == tiles[t].polys[p]  b == tiles[u].polys[q]
    IN  \E side \in 0 .. 7 :
            /\ tiles[u].data.x = tiles[t].data.x + SideStep[side][1]
            /\ tiles[u].data.y = tiles[t].data.y + SideStep[side][2]
            /\ \E i \in DOMAIN a.neis, j \in DOMAIN b.neis :
                /\ a.neis[i] = EXT_LINK + side /\ b.neis[j] = EXT_LINK + dtOppositeTile(side)
                /\ EdgeOf(a, i)[1][Across(side)] = EdgeOf(b, j)[1][Across(side)]
                /\ overlapSlabs(calcSlabEndPoints(EdgeOf(a, i), side),
                                calcSlabEndPoints(EdgeOf(b, j), side), tiles[t].data.climb)

\* Connection c of t lands on q of u, which is t or another layer, or the tile on its side.
Lands(t, c, u, q) ==
    LET a == tiles[t].data  b == tiles[u].data
        step == IF c.side = ONE_TILE THEN <<0, 0>> ELSE SideStep[c.side]
    IN  /\ <<b.x, b.y>> = <<a.x + step[1], a.y + step[2]>>
        /\ \E l \in Landing(tiles, u, c.to, c.rad, a.climb) : l[1] = q
        /\ Landing(tiles, t, c.from, c.rad, a.climb) # {}

\* It starts on q of its own tile.
StartsOn(t, c, u, q) ==
    t = u /\ \E l \in Landing(tiles, t, c.from, c.rad, tiles[t].data.climb) : l[1] = q

\* The connection that is polygon p of t.
ConsOf(t, p) == {c \in ToSet(tiles[t].data.cons) : c.poly = p}

ShouldLink(t, p, u, q) ==
    \/ t # u /\ Behind(t, p, u, q)
    \/ t = u /\ \E j \in DOMAIN tiles[t].polys[p].neis : tiles[t].polys[p].neis[j] = q
    \/ /\ tiles[u].polys[q].type = "GROUND"
       /\ \E c \in ConsOf(t, p) : StartsOn(t, c, u, q) \/ Lands(t, c, u, q)
    \/ /\ tiles[t].polys[p].type = "GROUND"
       /\ \E c \in ConsOf(u, q) : StartsOn(u, c, t, p) \/ (c.bidir /\ Lands(u, c, t, p))

\* No more layers at a place than addTile and removeTile look at.
FewLayers ==
    \A d \in Names : LET there  == {e \in Names : DataOf(e).x = DataOf(d).x /\ DataOf(e).y = DataOf(d).y}
                         layers == {DataOf(e).layer : e \in there}
                     IN  IsFiniteSet(layers) /\ Cardinality(layers) <= MAX_NEIS

\* The links are those the tiles that are there call for, in whatever order they came
\* and went, and none leads to a tile that is gone: but for a tile that ran out of links,
\* whose connections are then missing.
LinksFollowTiles ==
    FewLayers =>
    LET right(t, linked, wanted) == linked \subseteq wanted /\ (tiles[t].dry \/ linked = wanted)
        all == UNION {{u} \X (DOMAIN tiles[u].polys) : u \in Used(tiles)}
    IN  \A w \in all :
            right(w[1], {tiles[w[1]].links[w[2]][i].ref : i \in DOMAIN tiles[w[1]].links[w[2]]},
                  {Ref(tiles, x[1], x[2]) : x \in {y \in all : ShouldLink(w[1], w[2], y[1], y[2])}})

\* No link leads to a tile that is gone, or to another that took its place (removeTile unlinks
\* the tiles around and above, addTile and connectExtOffMeshLinks link no others): the half of
\* LinksFollowTiles that does not depend on the geometry.
NoneDangles ==
    FewLayers =>
    \A t \in Used(tiles) : \A p \in DOMAIN tiles[t].links : \A l \in ToSet(tiles[t].links[p]) :
        isValidPolyRef(tiles, l.ref)

\* A reference means the tile it was given out for, or nothing, as long as no salt has
\* been turned back (the salt of a reference: addTile, removeTile, isValidPolyRef).
RefsNameTheirTile ==
    ~back => \A g \in given : isValidPolyRef(tiles, g.ref) =>
                /\ tiles[decodePolyIdTile(g.ref)].name = g.name
                /\ \A h \in given : h.ref = g.ref => h = g

\* The tree finds every polygon in a box, for all its jumps.
TreeFindsAll ==
    \A t \in Used(tiles) : \A box \in Boxes :
        LET found == queryPolygonsInTile(tiles, t, box)
            all   == Linear(tiles[t].polys, box)
        IN  {all[i] : i \in DOMAIN all} \subseteq {found[i] : i \in DOMAIN found}
=============================================================================
