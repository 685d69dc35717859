--------------------------- MODULE NavMeshProofs ---------------------------
(* Proofs about NavMesh, for all tiles, sizes of the mesh, divisions of a reference and bounds. *)
EXTENDS NavMesh, DataLemmas, FiniteSetTheorems

Places == 0 .. MaxTiles - 1

-----------------------------------------------------------------------------
(* Folds.  The operator of a fold cannot be a parameter of a lemma, its     *)
(* name can.                                                               *)

Op(k, c, x, e) ==
    IF k = "sum" THEN x + e
    ELSE IF k = "kept" THEN KeepIn(c, x, e)
    ELSE IF k = "visit" THEN Visit(c[1], c[2], x, e)
    ELSE IF k = "nearest" THEN Nearer(c[1], c[2], c[3], x, e)
    ELSE IF k = "behind" THEN More(c[1], c[2], c[3], c[4], c[5], x, e)
    ELSE IF k = "portal" THEN PortalLink(x, c[1], c[2], c[3], c[4], e)
    ELSE IF k = "ext" THEN LinkPortal(x, c[1], e, c[2])
    ELSE IF k = "jumps" THEN TieEnd(x, c[1], c[2], e, c[3])
    ELSE IF k = "int" THEN LinkEdge(x, c, e)
    ELSE IF k = "base" THEN TieStart(x, c, e)
    ELSE IF k = "connect" THEN Connect(x, c, e[1], e[2])
    ELSE unconnectLinks(x, e[1], c)

IsFold(f, k, c, base, s, n) == f = [i \in 0 .. n |-> IF i = 0 THEN base ELSE Op(k, c, f[i - 1], s[i])]

\* A fold can be computed of any length.
LEMMA FoldExists ==
  ASSUME NEW k, NEW c, NEW base, NEW s, NEW n \in Nat
  PROVE  \E f : IsFold(f, k, c, base, s, n)
<1> DEFINE S == {m \in Nat : \E f : IsFold(f, k, c, base, s, m)}
<1>1. 0 \in S
  <2>1. IsFold([i \in 0 .. 0 |-> base], k, c, base, s, 0)
    BY DEF IsFold
  <2>2. QED  BY <2>1
<1>2. ASSUME NEW m \in Nat, m \in S
      PROVE  m + 1 \in S
  <2>1. PICK f : IsFold(f, k, c, base, s, m)
    BY <1>2
  <2>2. f = [i \in 0 .. m |-> IF i = 0 THEN base ELSE Op(k, c, f[i - 1], s[i])]
    BY <2>1 DEF IsFold
  <2> DEFINE g == [i \in 0 .. m + 1 |-> IF i # m + 1 THEN f[i] ELSE Op(k, c, f[m], s[i])]
  <2>3. ASSUME NEW i \in 0 .. m + 1
        PROVE  g[i] = IF i = 0 THEN base ELSE Op(k, c, g[i - 1], s[i])
    <3>1. CASE i # m + 1
      <4>1. i \in 0 .. m /\ g[i] = f[i] /\ (i # 0 => g[i - 1] = f[i - 1])
        BY <3>1
      <4>2. QED  BY <2>2, <4>1
    <3>2. CASE i = m + 1
      <4>1. i # 0 /\ g[i] = Op(k, c, f[m], s[i]) /\ g[i - 1] = f[m]
        BY <3>2
      <4>2. QED  BY <4>1
    <3>3. QED  BY <3>1, <3>2
  <2>4. IsFold(g, k, c, base, s, m + 1)
    <3>1. g = [i \in 0 .. m + 1 |-> g[i]]
      OBVIOUS
    <3> HIDE DEF g
    <3>2. QED  BY <2>3, <3>1 DEF IsFold
  <2>5. QED  BY <2>4
<1>3. Nat \subseteq S
  <2> HIDE DEF S
  <2>1. QED  BY <1>1, <1>2, Induction
<1>4. QED  BY <1>3

\* The sum of a sequence.
LEMMA SumRuns ==
  ASSUME NEW s,
         Len(s) \in Nat
  PROVE  \E f : /\ SumOf(s) = f[Len(s)] /\ f[0] = 0
                /\ \A i \in 1 .. Len(s) : f[i] = f[i - 1] + s[i]
<1> DEFINE n == Len(s)
           R(f) == f = [i \in 0 .. n |-> IF i = 0 THEN 0 ELSE f[i - 1] + s[i]]
           h == CHOOSE f : R(f)
<1>1. \A x, e : Op("sum", 0, x, e) = x + e
  BY DEF Op
<1>2. PICK g : IsFold(g, "sum", 0, 0, s, n)
  BY FoldExists
<1>3. R(g)
  BY <1>1, <1>2 DEF IsFold
<1>4. R(h)
  <2> HIDE DEF R
  <2>1. QED  BY <1>3
<1>5. SumOf(s) = h[n]
  BY DEF SumOf, Through
<1>6. h = [i \in 0 .. n |-> IF i = 0 THEN 0 ELSE h[i - 1] + s[i]]
  BY <1>4
<1> HIDE DEF h
<1>7. h[0] = 0 /\ \A i \in 1 .. n : h[i] = h[i - 1] + s[i]
  BY <1>6
<1>8. QED  BY <1>5, <1>7, Zenon

\* What is kept of a sequence.
LEMMA KeptRuns ==
  ASSUME NEW s, NEW S,
         Len(s) \in Nat
  PROVE  \E f : /\ Kept(s, S) = f[Len(s)] /\ f[0] = << >>
                /\ \A i \in 1 .. Len(s) : f[i] = KeepIn(S, f[i - 1], s[i])
<1> DEFINE n == Len(s)
           R(f) == f = [i \in 0 .. n |-> IF i = 0 THEN << >> ELSE KeepIn(S, f[i - 1], s[i])]
           h == CHOOSE f : R(f)
<1>1. \A x, e : Op("kept", S, x, e) = KeepIn(S, x, e)
  BY DEF Op
<1>2. PICK g : IsFold(g, "kept", S, << >>, s, n)
  BY FoldExists
<1>3. R(g)
  BY <1>1, <1>2 DEF IsFold
<1>4. R(h)
  <2> HIDE DEF R
  <2>1. QED  BY <1>3
<1>5. Kept(s, S) = h[n]
  BY DEF Kept, Through
<1>6. h = [i \in 0 .. n |-> IF i = 0 THEN << >> ELSE KeepIn(S, h[i - 1], s[i])]
  BY <1>4
<1> HIDE DEF h
<1>7. h[0] = << >> /\ \A i \in 1 .. n : h[i] = KeepIn(S, h[i - 1], s[i])
  BY <1>6
<1>8. QED  BY <1>5, <1>7, Zenon

\* The walk through a tree.
LEMMA TraverseRuns ==
  ASSUME NEW tree, NEW q,
         Len(Indices(tree)) \in Nat
  PROVE  \E f : /\ Traverse(tree, q) = f[Len(Indices(tree))].hits /\ f[0] = [at |-> 1, hits |-> << >>]
                /\ \A i \in 1 .. Len(Indices(tree)) : f[i] = Visit(tree, q, f[i - 1], Indices(tree)[i])
<1> DEFINE n == Len(Indices(tree))
           R(f) == f = [i \in 0 .. n |-> IF i = 0 THEN [at |-> 1, hits |-> << >>] ELSE Visit(tree, q, f[i - 1], Indices(tree)[i])]
           h == CHOOSE f : R(f)
<1>1. \A x, e : Op("visit", <<tree, q>>, x, e) = Visit(tree, q, x, e)
  BY DEF Op
<1>2. PICK g : IsFold(g, "visit", <<tree, q>>, [at |-> 1, hits |-> << >>], Indices(tree), n)
  BY FoldExists
<1>3. R(g)
  BY <1>1, <1>2 DEF IsFold
<1>4. R(h)
  <2> HIDE DEF R
  <2>1. QED  BY <1>3
<1>5. Traverse(tree, q) = h[n].hits
  BY DEF Traverse, Through
<1>6. h = [i \in 0 .. n |-> IF i = 0 THEN [at |-> 1, hits |-> << >>] ELSE Visit(tree, q, h[i - 1], Indices(tree)[i])]
  BY <1>4
<1> HIDE DEF h
<1>7. h[0] = [at |-> 1, hits |-> << >>] /\ \A i \in 1 .. n : h[i] = Visit(tree, q, h[i - 1], Indices(tree)[i])
  BY <1>6
<1>8. QED  BY <1>5, <1>7, Zenon

\* The nearest of some polygons.
LEMMA NearestRuns ==
  ASSUME NEW ts, NEW t, NEW pos, NEW polys,
         Len(polys) \in Nat
  PROVE  \E f : /\ NearestOf(ts, t, pos, polys) = f[Len(polys)] /\ f[0] = 0
                /\ \A i \in 1 .. Len(polys) : f[i] = Nearer(ts, t, pos, f[i - 1], polys[i])
<1> DEFINE n == Len(polys)
           R(f) == f = [i \in 0 .. n |-> IF i = 0 THEN 0 ELSE Nearer(ts, t, pos, f[i - 1], polys[i])]
           h == CHOOSE f : R(f)
<1>1. \A x, e : Op("nearest", <<ts, t, pos>>, x, e) = Nearer(ts, t, pos, x, e)
  BY DEF Op
<1>2. PICK g : IsFold(g, "nearest", <<ts, t, pos>>, 0, polys, n)
  BY FoldExists
<1>3. R(g)
  BY <1>1, <1>2 DEF IsFold
<1>4. R(h)
  <2> HIDE DEF R
  <2>1. QED  BY <1>3
<1>5. NearestOf(ts, t, pos, polys) = h[n]
  BY DEF NearestOf, Through
<1>6. h = [i \in 0 .. n |-> IF i = 0 THEN 0 ELSE Nearer(ts, t, pos, h[i - 1], polys[i])]
  BY <1>4
<1> HIDE DEF h
<1>7. h[0] = 0 /\ \A i \in 1 .. n : h[i] = Nearer(ts, t, pos, h[i - 1], polys[i])
  BY <1>6
<1>8. QED  BY <1>5, <1>7, Zenon

\* The polygons behind an edge.
LEMMA BehindRuns ==
  ASSUME NEW ts, NEW slab, NEW at, NEW t, NEW side,
         Len(Indices(ts[t].polys)) \in Nat
  PROVE  \E f : /\ PolysBehind(ts, slab, at, t, side) = f[Len(Indices(ts[t].polys))] /\ f[0] = << >>
                /\ \A i \in 1 .. Len(Indices(ts[t].polys)) : f[i] = More(ts, slab, at, t, side, f[i - 1], Indices(ts[t].polys)[i])
<1> DEFINE n == Len(Indices(ts[t].polys))
           R(f) == f = [i \in 0 .. n |-> IF i = 0 THEN << >> ELSE More(ts, slab, at, t, side, f[i - 1], Indices(ts[t].polys)[i])]
           h == CHOOSE f : R(f)
<1>1. \A x, e : Op("behind", <<ts, slab, at, t, side>>, x, e) = More(ts, slab, at, t, side, x, e)
  BY DEF Op
<1>2. PICK g : IsFold(g, "behind", <<ts, slab, at, t, side>>, << >>, Indices(ts[t].polys), n)
  BY FoldExists
<1>3. R(g)
  BY <1>1, <1>2 DEF IsFold
<1>4. R(h)
  <2> HIDE DEF R
  <2>1. QED  BY <1>3
<1>5. PolysBehind(ts, slab, at, t, side) = h[n]
  BY DEF PolysBehind, Through
<1>6. h = [i \in 0 .. n |-> IF i = 0 THEN << >> ELSE More(ts, slab, at, t, side, h[i - 1], Indices(ts[t].polys)[i])]
  BY <1>4
<1> HIDE DEF h
<1>7. h[0] = << >> /\ \A i \in 1 .. n : h[i] = More(ts, slab, at, t, side, h[i - 1], Indices(ts[t].polys)[i])
  BY <1>6
<1>8. QED  BY <1>5, <1>7, Zenon

\* An edge is linked to what is behind it, one after the other.
LEMMA LinkRuns ==
  ASSUME NEW ts, NEW t, NEW edge, NEW seen, NEW dir, NEW cons,
         Len(cons) \in Nat
  PROVE  \E f : /\ LinkBehind(ts, t, edge, seen, dir, cons) = f[Len(cons)] /\ f[0] = ts
                /\ \A i \in 1 .. Len(cons) : f[i] = PortalLink(f[i - 1], t, edge, seen, dir, cons[i])
<1> DEFINE n == Len(cons)
           R(f) == f = [i \in 0 .. n |-> IF i = 0 THEN ts ELSE PortalLink(f[i - 1], t, edge, seen, dir, cons[i])]
           h == CHOOSE f : R(f)
<1>1. \A x, e : Op("portal", <<t, edge, seen, dir>>, x, e) = PortalLink(x, t, edge, seen, dir, e)
  BY DEF Op
<1>2. PICK g : IsFold(g, "portal", <<t, edge, seen, dir>>, ts, cons, n)
  BY FoldExists
<1>3. R(g)
  BY <1>1, <1>2 DEF IsFold
<1>4. R(h)
  <2> HIDE DEF R
  <2>1. QED  BY <1>3
<1>5. LinkBehind(ts, t, edge, seen, dir, cons) = h[n]
  BY DEF LinkBehind, Through
<1>6. h = [i \in 0 .. n |-> IF i = 0 THEN ts ELSE PortalLink(h[i - 1], t, edge, seen, dir, cons[i])]
  BY <1>4
<1> HIDE DEF h
<1>7. h[0] = ts /\ \A i \in 1 .. n : h[i] = PortalLink(h[i - 1], t, edge, seen, dir, cons[i])
  BY <1>6
<1>8. QED  BY <1>5, <1>7, Zenon

\* The portals of a tile are linked, one after the other.
LEMMA ExtRuns ==
  ASSUME NEW ts, NEW t, NEW target, NEW side,
         Len(PortalEdges(ts, t, side)) \in Nat
  PROVE  \E f : /\ connectExtLinks(ts, t, target, side) = f[Len(PortalEdges(ts, t, side))] /\ f[0] = ts
                /\ \A i \in 1 .. Len(PortalEdges(ts, t, side)) : f[i] = LinkPortal(f[i - 1], t, PortalEdges(ts, t, side)[i], target)
<1> DEFINE n == Len(PortalEdges(ts, t, side))
           R(f) == f = [i \in 0 .. n |-> IF i = 0 THEN ts ELSE LinkPortal(f[i - 1], t, PortalEdges(ts, t, side)[i], target)]
           h == CHOOSE f : R(f)
<1>1. \A x, e : Op("ext", <<t, target>>, x, e) = LinkPortal(x, t, e, target)
  BY DEF Op
<1>2. PICK g : IsFold(g, "ext", <<t, target>>, ts, PortalEdges(ts, t, side), n)
  BY FoldExists
<1>3. R(g)
  BY <1>1, <1>2 DEF IsFold
<1>4. R(h)
  <2> HIDE DEF R
  <2>1. QED  BY <1>3
<1>5. connectExtLinks(ts, t, target, side) = h[n]
  BY DEF connectExtLinks, Through
<1>6. h = [i \in 0 .. n |-> IF i = 0 THEN ts ELSE LinkPortal(h[i - 1], t, PortalEdges(ts, t, side)[i], target)]
  BY <1>4
<1> HIDE DEF h
<1>7. h[0] = ts /\ \A i \in 1 .. n : h[i] = LinkPortal(h[i - 1], t, PortalEdges(ts, t, side)[i], target)
  BY <1>6
<1>8. QED  BY <1>5, <1>7, Zenon

\* The ends of connections are tied.
LEMMA JumpsRun ==
  ASSUME NEW ts, NEW t, NEW target, NEW side,
         Len(ts[target].data.cons) \in Nat
  PROVE  \E f : /\ connectExtOffMeshLinks(ts, t, target, side) = f[Len(ts[target].data.cons)] /\ f[0] = ts
                /\ \A i \in 1 .. Len(ts[target].data.cons) : f[i] = TieEnd(f[i - 1], t, target, ts[target].data.cons[i], side)
<1> DEFINE cons == ts[target].data.cons
           n == Len(cons)
           R(f) == f = [i \in 0 .. n |-> IF i = 0 THEN ts ELSE TieEnd(f[i - 1], t, target, cons[i], side)]
           h == CHOOSE f : R(f)
<1>1. \A x, e : Op("jumps", <<t, target, side>>, x, e) = TieEnd(x, t, target, e, side)
  BY DEF Op
<1>2. PICK g : IsFold(g, "jumps", <<t, target, side>>, ts, cons, n)
  BY FoldExists
<1>3. R(g)
  BY <1>1, <1>2 DEF IsFold
<1>4. R(h)
  <2> HIDE DEF R
  <2>1. QED  BY <1>3
<1>5. connectExtOffMeshLinks(ts, t, target, side) = h[n]
  BY DEF connectExtOffMeshLinks, Through
<1>6. h = [i \in 0 .. n |-> IF i = 0 THEN ts ELSE TieEnd(h[i - 1], t, target, cons[i], side)]
  BY <1>4
<1> HIDE DEF h, cons
<1>7. h[0] = ts /\ \A i \in 1 .. n : h[i] = TieEnd(h[i - 1], t, target, cons[i], side)
  BY <1>6
<1>8. QED  BY <1>5, <1>7, Zenon DEF cons

\* The polygons of a tile are linked to each other.
LEMMA IntRuns ==
  ASSUME NEW ts, NEW t,
         Len(InnerEdges(ts, t)) \in Nat
  PROVE  \E f : /\ connectIntLinks(ts, t) = f[Len(InnerEdges(ts, t))] /\ f[0] = ts
                /\ \A i \in 1 .. Len(InnerEdges(ts, t)) : f[i] = LinkEdge(f[i - 1], t, InnerEdges(ts, t)[i])
<1> DEFINE n == Len(InnerEdges(ts, t))
           R(f) == f = [i \in 0 .. n |-> IF i = 0 THEN ts ELSE LinkEdge(f[i - 1], t, InnerEdges(ts, t)[i])]
           h == CHOOSE f : R(f)
<1>1. \A x, e : Op("int", t, x, e) = LinkEdge(x, t, e)
  BY DEF Op
<1>2. PICK g : IsFold(g, "int", t, ts, InnerEdges(ts, t), n)
  BY FoldExists
<1>3. R(g)
  BY <1>1, <1>2 DEF IsFold
<1>4. R(h)
  <2> HIDE DEF R
  <2>1. QED  BY <1>3
<1>5. connectIntLinks(ts, t) = h[n]
  BY DEF connectIntLinks, Through
<1>6. h = [i \in 0 .. n |-> IF i = 0 THEN ts ELSE LinkEdge(h[i - 1], t, InnerEdges(ts, t)[i])]
  BY <1>4
<1> HIDE DEF h
<1>7. h[0] = ts /\ \A i \in 1 .. n : h[i] = LinkEdge(h[i - 1], t, InnerEdges(ts, t)[i])
  BY <1>6
<1>8. QED  BY <1>5, <1>7, Zenon

\* The starts of connections are tied.
LEMMA BaseRuns ==
  ASSUME NEW ts, NEW t,
         Len(ts[t].data.cons) \in Nat
  PROVE  \E f : /\ baseOffMeshLinks(ts, t) = f[Len(ts[t].data.cons)] /\ f[0] = ts
                /\ \A i \in 1 .. Len(ts[t].data.cons) : f[i] = TieStart(f[i - 1], t, ts[t].data.cons[i])
<1> DEFINE cons == ts[t].data.cons
           n == Len(cons)
           R(f) == f = [i \in 0 .. n |-> IF i = 0 THEN ts ELSE TieStart(f[i - 1], t, cons[i])]
           h == CHOOSE f : R(f)
<1>1. \A x, e : Op("base", t, x, e) = TieStart(x, t, e)
  BY DEF Op
<1>2. PICK g : IsFold(g, "base", t, ts, cons, n)
  BY FoldExists
<1>3. R(g)
  BY <1>1, <1>2 DEF IsFold
<1>4. R(h)
  <2> HIDE DEF R
  <2>1. QED  BY <1>3
<1>5. baseOffMeshLinks(ts, t) = h[n]
  BY DEF baseOffMeshLinks, Through
<1>6. h = [i \in 0 .. n |-> IF i = 0 THEN ts ELSE TieStart(h[i - 1], t, cons[i])]
  BY <1>4
<1> HIDE DEF h, cons
<1>7. h[0] = ts /\ \A i \in 1 .. n : h[i] = TieStart(h[i - 1], t, cons[i])
  BY <1>6
<1>8. QED  BY <1>5, <1>7, Zenon DEF cons

\* A tile is connected to those near it, one after the other.
LEMMA ConnectedRuns ==
  ASSUME NEW ts, NEW t, NEW near,
         Len(near) \in Nat
  PROVE  \E f : /\ Connected(ts, t, near) = f[Len(near)] /\ f[0] = Alone(ts, t)
                /\ \A i \in 1 .. Len(near) : f[i] = Connect(f[i - 1], t, near[i][1], near[i][2])
<1> DEFINE n == Len(near)
           R(f) == f = [i \in 0 .. n |-> IF i = 0 THEN Alone(ts, t) ELSE Connect(f[i - 1], t, near[i][1], near[i][2])]
           h == CHOOSE f : R(f)
<1>1. \A x, e : Op("connect", t, x, e) = Connect(x, t, e[1], e[2])
  BY DEF Op
<1>2. PICK g : IsFold(g, "connect", t, Alone(ts, t), near, n)
  BY FoldExists
<1>3. R(g)
  BY <1>1, <1>2 DEF IsFold
<1>4. R(h)
  <2> HIDE DEF R
  <2>1. QED  BY <1>3
<1>5. Connected(ts, t, near) = h[n]
  BY DEF Connected, Through
<1>6. h = [i \in 0 .. n |-> IF i = 0 THEN Alone(ts, t) ELSE Connect(h[i - 1], t, near[i][1], near[i][2])]
  BY <1>4
<1> HIDE DEF h
<1>7. h[0] = Alone(ts, t) /\ \A i \in 1 .. n : h[i] = Connect(h[i - 1], t, near[i][1], near[i][2])
  BY <1>6
<1>8. QED  BY <1>5, <1>7, Zenon

\* The neighbours of a tile let go of it, one after the other.
LEMMA FreedRuns ==
  ASSUME NEW ts, NEW t, NEW near,
         Len(near) \in Nat
  PROVE  \E f : /\ Freed(ts, t, near) = f[Len(near)] /\ f[0] = ts
                /\ \A i \in 1 .. Len(near) : f[i] = unconnectLinks(f[i - 1], near[i][1], t)
<1> DEFINE n == Len(near)
           R(f) == f = [i \in 0 .. n |-> IF i = 0 THEN ts ELSE unconnectLinks(f[i - 1], near[i][1], t)]
           h == CHOOSE f : R(f)
<1>1. \A x, e : Op("free", t, x, e) = unconnectLinks(x, e[1], t)
  BY DEF Op
<1>2. PICK g : IsFold(g, "free", t, ts, near, n)
  BY FoldExists
<1>3. R(g)
  BY <1>1, <1>2 DEF IsFold
<1>4. R(h)
  <2> HIDE DEF R
  <2>1. QED  BY <1>3
<1>5. Freed(ts, t, near) = h[n]
  BY DEF Freed, Through
<1>6. h = [i \in 0 .. n |-> IF i = 0 THEN ts ELSE unconnectLinks(h[i - 1], near[i][1], t)]
  BY <1>4
<1> HIDE DEF h
<1>7. h[0] = ts /\ \A i \in 1 .. n : h[i] = unconnectLinks(h[i - 1], near[i][1], t)
  BY <1>6
<1>8. QED  BY <1>5, <1>7, Zenon

-----------------------------------------------------------------------------
(* What is kept of a sequence *)

Unique(s) == \A i, j \in DOMAIN s : s[i] = s[j] => i = j

\* The elements of a sequence are in it.
LEMMA ElementsOf ==
  ASSUME NEW T, NEW s \in Seq(T)
  PROVE  /\ Len(s) \in Nat /\ DOMAIN s = 1 .. Len(s) /\ \A i \in 1 .. Len(s) : s[i] \in T
         /\ ToSet(s) \subseteq T /\ IsSeq(s)
         /\ \A x : x \in ToSet(s) <=> \E i \in 1 .. Len(s) : s[i] = x
<1>1. Len(s) \in Nat /\ DOMAIN s = 1 .. Len(s) /\ \A i \in 1 .. Len(s) : s[i] \in T
  OBVIOUS
<1>2. /\ ToSet(s) \subseteq T
      /\ \A x : x \in ToSet(s) <=> \E i \in 1 .. Len(s) : s[i] = x
  BY <1>1 DEF ToSet
<1>3. s \in Seq(ToSet(s))
  BY <1>1, <1>2, SeqDef
<1>4. QED  BY <1>1, <1>2, <1>3 DEF IsSeq

\* One element more or not.
LEMMA KeepInIs ==
  ASSUME NEW S, NEW r \in Seq(S), NEW x, NEW q, q = KeepIn(S, r, x)
  PROVE  /\ q \in Seq(S) /\ \A i \in 1 .. Len(r) : q[i] = r[i]
         /\ x \in S => Len(q) = Len(r) + 1 /\ q[Len(r) + 1] = x
         /\ x \notin S => q = r
<1>1. CASE x \in S
  <2>1. KeepIn(S, r, x) = Append(r, x)
    BY <1>1 DEF KeepIn
  <2>2. q = Append(r, x)
    BY <2>1
  <2>3. QED  BY <1>1, <2>2
<1>2. CASE x \notin S
  BY <1>2 DEF KeepIn
<1>3. QED  BY <1>1, <1>2

\* What is kept is what is in the set, and has no repetition that was not there.
LEMMA KeptIs ==
  ASSUME NEW T, NEW s \in Seq(T), NEW S
  PROVE  /\ Kept(s, S) \in Seq(S) /\ Len(Kept(s, S)) <= Len(s)
         /\ ToSet(Kept(s, S)) = ToSet(s) \cap S
         /\ Unique(s) => Unique(Kept(s, S))
<1> DEFINE n == Len(s)
<1>1. n \in Nat /\ DOMAIN s = 1 .. n /\ \A x : x \in ToSet(s) <=> \E i \in 1 .. n : s[i] = x
  BY ElementsOf
<1>2. PICK f : /\ Kept(s, S) = f[n] /\ f[0] = << >>
               /\ \A i \in 1 .. n : f[i] = KeepIn(S, f[i - 1], s[i])
  <2>1. Len(s) \in Nat
    OBVIOUS
  <2>2. QED  BY <2>1, KeptRuns, Zenon
<1> DEFINE All(i) == \A x \in S : (\E j \in 1 .. i : s[j] = x) <=> (\E j \in 1 .. Len(f[i]) : f[i][j] = x)
           Once(i) == Unique(s) => \A j, k \in 1 .. Len(f[i]) : f[i][j] = f[i][k] => j = k
           Good(i) == f[i] \in Seq(S) /\ Len(f[i]) <= i /\ All(i) /\ Once(i)
           G == {i \in Nat : i <= n => Good(i)}
<1>3. 0 \in G
  <2>1. Len(f[0]) = 0 /\ f[0] \in Seq(S)
    BY <1>2
  <2>2. 1 .. Len(f[0]) = {} /\ 1 .. 0 = {}
    BY <2>1
  <2>3. All(0) /\ Once(0)
    BY <2>2, Zenon
  <2> HIDE DEF All, Once
  <2>4. QED  BY <2>1, <2>3
<1>4. ASSUME NEW i \in Nat, i \in G, i + 1 <= n
      PROVE  Good(i + 1)
  <2> DEFINE q == f[i + 1]
             r == f[i]
             x == s[i + 1]
  <2>1. Good(i) /\ i + 1 \in 1 .. n /\ i \in 1 .. n \cup {0}
    BY <1>1, <1>4
  <2>2. PICK made : made = KeepIn(S, r, x) /\ made = q
    <3>1. (i + 1) - 1 = i
      OBVIOUS
    <3>2. QED  BY <1>2, <2>1, <3>1
  <2>3. /\ r \in Seq(S) /\ Len(r) \in Nat /\ q \in Seq(S) /\ Len(q) = Len(r) + (IF x \in S THEN 1 ELSE 0)
        /\ \A j \in 1 .. Len(r) : q[j] = r[j] /\ r[j] \in S
        /\ x \in S => q[Len(r) + 1] = x
    <3>1. r \in Seq(S)
      BY <2>1
    <3>2. Len(r) \in Nat /\ \A j \in 1 .. Len(r) : r[j] \in S
      BY <3>1
    <3>3. \A z : z = r => z \in Seq(S)
      BY <3>1
    <3> HIDE DEF q, r, x
    <3>4. r \in Seq(S)
      BY <3>3
    <3>5. /\ made \in Seq(S) /\ \A j \in 1 .. Len(r) : made[j] = r[j]
          /\ x \in S => Len(made) = Len(r) + 1 /\ made[Len(r) + 1] = x
          /\ x \notin S => made = r
      BY <2>2, <3>4, KeepInIs
    <3>6. QED  BY <2>2, <3>2, <3>4, <3>5
  <2>4. /\ \A y \in S : (\E j \in 1 .. i : s[j] = y) <=> (\E j \in 1 .. Len(r) : r[j] = y)
        /\ Unique(s) => \A j, k \in 1 .. Len(r) : r[j] = r[k] => j = k
        /\ Len(r) <= i
    BY <2>1
  <2> HIDE DEF q, r
  <2>5. All(i + 1)
    <3>1. SUFFICES \A y \in S : (\E j \in 1 .. i + 1 : s[j] = y) <=> (\E j \in 1 .. Len(q) : q[j] = y)
      BY DEF q
    <3>2. \A y : (\E j \in 1 .. i + 1 : s[j] = y) <=> (\E j \in 1 .. i : s[j] = y) \/ x = y
      <4>1. \A j : j \in 1 .. i + 1 <=> j \in 1 .. i \/ j = i + 1
        OBVIOUS
      <4>2. QED  BY <4>1
    <3>3. \A j : j \in 1 .. Len(r) + 1 <=> j \in 1 .. Len(r) \/ j = Len(r) + 1
      BY <2>3
    <3>4. CASE x \in S
      <4>1. Len(q) = Len(r) + 1
        BY <2>3, <3>4
      <4>2. \A y : (\E j \in 1 .. Len(q) : q[j] = y) <=> (\E j \in 1 .. Len(r) : r[j] = y) \/ x = y
        BY <2>3, <3>3, <3>4, <4>1
      <4>3. QED  BY <2>4, <3>2, <4>2
    <3>5. CASE x \notin S
      <4>1. Len(q) = Len(r)
        BY <2>3, <3>5
      <4>2. \A y : (\E j \in 1 .. Len(q) : q[j] = y) <=> (\E j \in 1 .. Len(r) : r[j] = y)
        BY <2>3, <4>1
      <4>3. QED  BY <2>4, <3>2, <3>5, <4>2
    <3>6. QED  BY <3>4, <3>5
  <2>6. Once(i + 1)
    <3>1. SUFFICES ASSUME Unique(s), NEW j \in 1 .. Len(q), NEW k \in 1 .. Len(q), q[j] = q[k]
                   PROVE  j = k
      BY DEF q
    <3>2. x \in S => \A l \in 1 .. Len(r) : r[l] # x
      <4>1. ASSUME x \in S, NEW l \in 1 .. Len(r), r[l] = x
            PROVE  FALSE
        <5>1. PICK m \in 1 .. i : s[m] = x
          BY <2>3, <2>4, <4>1
        <5>2. m \in DOMAIN s /\ i + 1 \in DOMAIN s /\ m # i + 1
          BY <1>1, <2>1
        <5>3. QED  BY <3>1, <5>1, <5>2 DEF Unique
      <4>2. QED  BY <4>1
    <3>3. \A l : l \in 1 .. Len(r) + 1 <=> l \in 1 .. Len(r) \/ l = Len(r) + 1
      BY <2>3
    <3>4. CASE x \in S
      BY <2>3, <2>4, <3>1, <3>2, <3>3, <3>4
    <3>5. CASE x \notin S
      BY <2>3, <2>4, <3>1, <3>5
    <3>6. QED  BY <3>4, <3>5
  <2>7. Len(q) <= i + 1 /\ q \in Seq(S)
    BY <2>3, <2>4
  <2>8. QED  BY <2>5, <2>6, <2>7 DEF q
<1>5. Nat \subseteq G
  <2>1. \A i \in Nat : i \in G => i + 1 \in G
    BY <1>4
  <2> HIDE DEF G
  <2>2. QED  BY <1>3, <2>1, Induction
<1>6. Good(n)
  <2> HIDE DEF Good
  <2>1. QED  BY <1>1, <1>5
<1> DEFINE k == Kept(s, S)
<1>7. k \in Seq(S) /\ Len(k) <= n /\ DOMAIN k = 1 .. Len(k) /\ \A x : x \in ToSet(k) <=> \E i \in 1 .. Len(k) : k[i] = x
  BY <1>2, <1>6, ElementsOf
<1>8. /\ \A x \in S : (\E j \in 1 .. n : s[j] = x) <=> (\E j \in 1 .. Len(k) : k[j] = x)
      /\ Unique(s) => \A i, j \in 1 .. Len(k) : k[i] = k[j] => i = j
      /\ \A j \in 1 .. Len(k) : k[j] \in S
  BY <1>2, <1>6, <1>7
<1> HIDE DEF k
<1>9. ToSet(k) = ToSet(s) \cap S
  BY <1>1, <1>7, <1>8
<1>10. QED  BY <1>7, <1>8, <1>9 DEF k, Unique

\* When one element is in the set, it is what is kept.
LEMMA KeptOne ==
  ASSUME NEW T, NEW s \in Seq(T), NEW S, NEW x, Unique(s), ToSet(s) \cap S = {x}
  PROVE  Kept(s, S) = <<x>>
<1> DEFINE k == Kept(s, S)
<1>1. k \in Seq(S) /\ ToSet(k) = {x} /\ Unique(k)
  BY KeptIs
<1>2. /\ Len(k) \in Nat /\ DOMAIN k = 1 .. Len(k)
      /\ \A y : y \in ToSet(k) <=> \E i \in 1 .. Len(k) : k[i] = y
  BY <1>1, ElementsOf
<1> HIDE DEF k
<1>3. \A i \in 1 .. Len(k) : k[i] = x
  BY <1>1, <1>2
<1>4. Len(k) = 1
  <2>1. PICK i \in 1 .. Len(k) : k[i] = x
    BY <1>1, <1>2
  <2>2. \A j \in 1 .. Len(k) : j = i
    BY <1>1, <1>2, <1>3 DEF Unique
  <2>3. 1 \in 1 .. Len(k) /\ Len(k) \in 1 .. Len(k)
    BY <1>2, <2>1
  <2>4. QED  BY <1>2, <2>2, <2>3
<1>5. k = <<x>>
  <2>1. k \in Seq({x}) /\ <<x>> \in Seq({x}) /\ Len(<<x>>) = 1 /\ <<x>>[1] = x
    BY <1>1, <1>2, <1>3, SeqDef
  <2>2. QED  BY <1>3, <1>4, <2>1, SeqEqual
<1>6. QED  BY <1>5 DEF k

\* When none is, nothing is kept.
LEMMA KeptNone ==
  ASSUME NEW T, NEW s \in Seq(T), NEW S, ToSet(s) \cap S = {}
  PROVE  Kept(s, S) = << >>
<1> DEFINE k == Kept(s, S)
<1>1. k \in Seq(S) /\ ToSet(k) = {}
  BY KeptIs
<1> HIDE DEF k
<1>2. Len(k) \in Nat /\ \A x : x \in ToSet(k) <=> \E i \in 1 .. Len(k) : k[i] = x
  BY <1>1, ElementsOf
<1>3. Len(k) = 0
  <2>1. 1 \notin 1 .. Len(k)
    BY <1>1, <1>2
  <2>2. QED  BY <1>2, <2>1
<1>4. QED  BY <1>1, <1>3 DEF k

-----------------------------------------------------------------------------
(* Sums, and how many links there are *)

\* What a sum does when its parts grow, shrink or are nothing.
LEMMA SumIs ==
  ASSUME NEW n \in Nat, NEW s, NEW r, Len(s) = n, Len(r) = n,
         \A i \in 1 .. n : s[i] \in Nat /\ r[i] \in Nat
  PROVE  /\ SumOf(s) \in Nat /\ SumOf(r) \in Nat
         /\ (\A i \in 1 .. n : s[i] = 0) => SumOf(s) = 0
         /\ (\A i \in 1 .. n : r[i] <= s[i]) => SumOf(r) <= SumOf(s)
         /\ \A p \in 1 .. n : (\A i \in 1 .. n : r[i] = IF i = p THEN s[i] + 1 ELSE s[i])
                                => SumOf(r) = SumOf(s) + 1
<1>1. Len(s) \in Nat /\ Len(r) \in Nat
  OBVIOUS
<1>2. PICK f : SumOf(s) = f[Len(s)] /\ f[0] = 0 /\ \A i \in 1 .. Len(s) : f[i] = f[i - 1] + s[i]
  BY <1>1, SumRuns, Zenon
<1>3. PICK g : SumOf(r) = g[Len(r)] /\ g[0] = 0 /\ \A i \in 1 .. Len(r) : g[i] = g[i - 1] + r[i]
  BY <1>1, SumRuns, Zenon
<1> DEFINE Zero == \A i \in 1 .. n : s[i] = 0
           Less == \A i \in 1 .. n : r[i] <= s[i]
           More1(p) == \A i \in 1 .. n : r[i] = IF i = p THEN s[i] + 1 ELSE s[i]
           Good(i) == /\ f[i] \in Nat /\ g[i] \in Nat
                      /\ Zero => f[i] = 0
                      /\ Less => g[i] <= f[i]
                      /\ \A p \in 1 .. n : More1(p) => g[i] = IF p <= i THEN f[i] + 1 ELSE f[i]
           G == {i \in Nat : i <= n => Good(i)}
<1>4. Good(0)
  BY <1>2, <1>3
<1>5. ASSUME NEW i \in Nat, Good(i), i + 1 <= n
      PROVE  Good(i + 1)
  <2>1. i + 1 \in 1 .. n /\ (i + 1) - 1 = i
    BY <1>5
  <2>2. f[i + 1] = f[i] + s[i + 1] /\ g[i + 1] = g[i] + r[i + 1] /\ s[i + 1] \in Nat /\ r[i + 1] \in Nat
    BY <1>2, <1>3, <2>1
  <2>3. Zero => s[i + 1] = 0
    BY <2>1
  <2>4. Less => r[i + 1] <= s[i + 1]
    BY <2>1
  <2>5. ASSUME NEW p \in 1 .. n, More1(p)
        PROVE  g[i + 1] = IF p <= i + 1 THEN f[i + 1] + 1 ELSE f[i + 1]
    <3>1. r[i + 1] = IF i + 1 = p THEN s[i + 1] + 1 ELSE s[i + 1]
      BY <2>1, <2>5
    <3>2. f[i] \in Nat /\ g[i] = IF p <= i THEN f[i] + 1 ELSE f[i]
      BY <1>5, <2>5
    <3>3. p \in Int /\ (p <= i + 1 <=> p <= i \/ i + 1 = p) /\ ~(p <= i /\ i + 1 = p)
      OBVIOUS
    <3> DEFINE a == f[i]
               b == g[i]
               c == f[i + 1]
               d == g[i + 1]
               x == s[i + 1]
               y == r[i + 1]
    <3>4. c = a + x /\ d = b + y /\ x \in Nat /\ a \in Nat
      BY <2>2, <3>2
    <3>5. (y = IF i + 1 = p THEN x + 1 ELSE x) /\ (b = IF p <= i THEN a + 1 ELSE a)
      BY <3>1, <3>2
    <3> HIDE DEF a, b, c, d, x, y
    <3>6. d = IF p <= i + 1 THEN c + 1 ELSE c
      BY <3>3, <3>4, <3>5
    <3>7. QED  BY <3>6 DEF c, d
  <2>6. f[i] \in Nat /\ g[i] \in Nat /\ (Zero => f[i] = 0) /\ (Less => g[i] <= f[i])
    BY <1>5
  <2> HIDE DEF Zero, Less, More1
  <2>7. QED  BY <2>2, <2>3, <2>4, <2>5, <2>6
<1> HIDE DEF Good
<1>6. 0 \in G /\ \A i \in Nat : i \in G => i + 1 \in G
  BY <1>4, <1>5
<1>7. Nat \subseteq G
  <2> HIDE DEF G
  <2>1. QED  BY <1>6, Induction
<1>8. Good(n)
  BY <1>7
<1>9. QED
  <2>1. SumOf(s) = f[n] /\ SumOf(r) = g[n]
    BY <1>2, <1>3
  <2>2. \A p \in 1 .. n : p <= n
    OBVIOUS
  <2>3. QED  BY <1>8, <2>1, <2>2 DEF Good

\* The links of n polygons.
AreLinks(links, n) == DOMAIN links = 1 .. n /\ \A p \in 1 .. n : IsSeq(links[p])

\* The lengths that are counted.
LEMMA LinkCountIs ==
  ASSUME NEW n \in Nat, NEW links, AreLinks(links, n)
  PROVE  \E s : /\ LinkCount(links) = SumOf(s) /\ Len(s) = n
                /\ \A p \in 1 .. n : s[p] = Len(links[p]) /\ s[p] \in Nat
<1> DEFINE s == [p \in DOMAIN links |-> Len(links[p])]
<1>1. \A p \in 1 .. n : Len(links[p]) \in Nat
  BY DEF AreLinks, IsSeq
<1>2. s = [p \in 1 .. n |-> Len(links[p])]
  BY DEF AreLinks
<1>3. LinkCount(links) = SumOf(s)
  BY DEF LinkCount
<1> HIDE DEF s
<1>4. s \in Seq(Nat) /\ Len(s) = n
  BY <1>1, <1>2
<1>5. \A p \in 1 .. n : s[p] = Len(links[p])
  BY <1>2
<1>6. QED  BY <1>1, <1>3, <1>4, <1>5

\* No links, fewer links, one link more.
LEMMA LinkCountOf ==
  ASSUME NEW n \in Nat, NEW links, NEW other, AreLinks(links, n), AreLinks(other, n)
  PROVE  /\ LinkCount(links) \in Nat
         /\ (\A p \in 1 .. n : links[p] = << >>) => LinkCount(links) = 0
         /\ (\A p \in 1 .. n : Len(other[p]) <= Len(links[p])) => LinkCount(other) <= LinkCount(links)
         /\ \A q \in 1 .. n : (\A p \in 1 .. n : Len(other[p]) = IF p = q THEN Len(links[p]) + 1 ELSE Len(links[p]))
                                => LinkCount(other) = LinkCount(links) + 1
<1>1. PICK s : /\ LinkCount(links) = SumOf(s) /\ Len(s) = n
               /\ \A p \in 1 .. n : s[p] = Len(links[p]) /\ s[p] \in Nat
  BY LinkCountIs
<1>2. PICK r : /\ LinkCount(other) = SumOf(r) /\ Len(r) = n
               /\ \A p \in 1 .. n : r[p] = Len(other[p]) /\ r[p] \in Nat
  BY LinkCountIs
<1>3. /\ SumOf(s) \in Nat
      /\ (\A i \in 1 .. n : s[i] = 0) => SumOf(s) = 0
      /\ (\A i \in 1 .. n : r[i] <= s[i]) => SumOf(r) <= SumOf(s)
      /\ \A p \in 1 .. n : (\A i \in 1 .. n : r[i] = IF i = p THEN s[i] + 1 ELSE s[i])
                             => SumOf(r) = SumOf(s) + 1
  BY <1>1, <1>2, SumIs
<1>4. Len(<< >>) = 0
  OBVIOUS
<1>5. (\A p \in 1 .. n : links[p] = << >>) => \A i \in 1 .. n : s[i] = 0
  BY <1>1, <1>4
<1>6. (\A p \in 1 .. n : Len(other[p]) <= Len(links[p])) => \A i \in 1 .. n : r[i] <= s[i]
  BY <1>1, <1>2
<1>7. \A q \in 1 .. n : (\A p \in 1 .. n : Len(other[p]) = IF p = q THEN Len(links[p]) + 1 ELSE Len(links[p]))
                          => \A i \in 1 .. n : r[i] = IF i = q THEN s[i] + 1 ELSE s[i]
  BY <1>1, <1>2
<1>8. QED  BY <1>1, <1>2, <1>3, <1>5, <1>6, <1>7

-----------------------------------------------------------------------------
(* Tiles, one field changed *)

IsTile(r) == r = [salt |-> r.salt, name |-> r.name, data |-> r.data, polys |-> r.polys,
                  links |-> r.links, free |-> r.free, dry |-> r.dry]

\* Only tile t changed, and neither what it was loaded from nor its salt.
SameBut(ts, us, t) ==
    /\ DOMAIN us = DOMAIN ts
    /\ \A u \in DOMAIN ts \ {t} : us[u] = ts[u]
    /\ IsTile(us[t]) /\ us[t].salt = ts[t].salt /\ us[t].name = ts[t].name /\ us[t].data = ts[t].data

LEMMA AddLinkIs ==
  ASSUME NEW ts, NEW t \in DOMAIN ts, IsTile(ts[t]), NEW p \in DOMAIN ts[t].links, NEW link, NEW us,
         us = AddLink(ts, t, p, link)
  PROVE  /\ SameBut(ts, us, t) /\ us[t].polys = ts[t].polys
         /\ ts[t].free = 0 => us[t].links = ts[t].links /\ us[t].free = 0
         /\ ts[t].free # 0 => /\ us[t].free = ts[t].free - 1
                              /\ us[t].links = [ts[t].links EXCEPT ![p] = <<link>> \o @]
<1>1. CASE ts[t].free = 0
  <2>1. us = [ts EXCEPT ![t] = [ts[t] EXCEPT !.dry = TRUE]]
    BY <1>1 DEF AddLink
  <2>2. us[t] = [ts[t] EXCEPT !.dry = TRUE] /\ DOMAIN us = DOMAIN ts /\ \A u \in DOMAIN ts \ {t} : us[u] = ts[u]
    BY <2>1
  <2>3. QED  BY <1>1, <2>2 DEF IsTile, SameBut
<1>2. CASE ts[t].free # 0
  <2> DEFINE r == ts[t]
             q == [r EXCEPT !.free = @ - 1, !.links = [r.links EXCEPT ![p] = <<link>> \o @]]
  <2>1. us = [ts EXCEPT ![t] = q]
    BY <1>2 DEF AddLink
  <2>2. us[t] = q /\ DOMAIN us = DOMAIN ts /\ \A u \in DOMAIN ts \ {t} : us[u] = ts[u]
    BY <2>1
  <2>3. QED  BY <1>2, <2>2 DEF IsTile, SameBut
<1>3. QED  BY <1>1, <1>2

-----------------------------------------------------------------------------
(* Tables of tiles *)

\* A tile that is there: every link is in use or free.
Counted(r) ==
    /\ r.name \in Names /\ r.data = DataOf(r.name)
    /\ DOMAIN r.polys = 1 .. Len(r.data.polys)
    /\ AreLinks(r.links, Len(r.data.polys))
    /\ r.free \in Nat /\ r.free + LinkCount(r.links) = r.data.maxLinkCount

Sane(ts) ==
    /\ DOMAIN ts = Places
    /\ \A t \in Places : IsTile(ts[t]) /\ (ts[t].name = None \/ Counted(ts[t]))

\* At a place or next to it, and two tiles next to each other.
Beside(data, x, y) == {data.x - x, x - data.x, data.y - y, y - data.y} \subseteq -1 .. 1

Near(ts, t, u) == Beside(ts[t].data, ts[u].data.x, ts[u].data.y)

\* A link of tile t goes to a polygon of a tile that is there and near.
LinkOk(ts, t, ref) ==
    \E u \in Used(ts) : Near(ts, t, u) /\ \E p \in 1 .. Len(ts[u].data.polys) : ref = Ref(ts, u, p)

LinksOk(ts) ==
    \A t \in Used(ts) : \A p \in 1 .. Len(ts[t].data.polys) : \A l \in ToSet(ts[t].links[p]) :
        LinkOk(ts, t, l.ref)

\* The same tiles, but for their polygons and links, and no worse linked.
SameTiles(ts, us) ==
    \A t \in Places : us[t].salt = ts[t].salt /\ us[t].name = ts[t].name /\ us[t].data = ts[t].data

Follows(ts, us) == Sane(us) /\ SameTiles(ts, us) /\ (LinksOk(ts) => LinksOk(us))

LEMMA FollowsOn ==
  ASSUME NEW ts, NEW us, NEW vs, Follows(ts, us), Follows(us, vs)
  PROVE  Follows(ts, vs)
BY DEF Follows, SameTiles

LEMMA UsedFollow ==
  ASSUME NEW ts, NEW us, Sane(ts), Follows(ts, us)
  PROVE  Used(us) = Used(ts)
BY DEF Follows, SameTiles, Sane, Used

\* A tile is near itself, and near what is near it.
LEMMA NearBack ==
  ASSUME NEW ts, NEW t, NEW u, Near(ts, t, u)
  PROVE  Near(ts, u, t)
BY DEF Near, Beside

\* What is known of the data of a tile that is there.
LEMMA UsedIs ==
  ASSUME NEW ts, Sane(ts), NEW t \in Used(ts)
  PROVE  /\ t \in Places /\ t \in DOMAIN ts /\ IsTile(ts[t]) /\ Counted(ts[t]) /\ ts[t].name # None
         /\ WellFormed(ts[t].data)
         /\ Len(ts[t].data.polys) \in Nat /\ DOMAIN ts[t].data.polys = 1 .. Len(ts[t].data.polys)
         /\ DOMAIN ts[t].polys = 1 .. Len(ts[t].data.polys)
         /\ DOMAIN ts[t].links = 1 .. Len(ts[t].data.polys)
         /\ Len(ts[t].data.cons) \in Nat
         /\ \A i \in 1 .. Len(ts[t].data.cons) : ts[t].data.cons[i].poly \in 1 .. Len(ts[t].data.polys)
<1>1. t \in Places /\ t \in DOMAIN ts /\ IsTile(ts[t]) /\ Counted(ts[t]) /\ ts[t].name # None
  BY DEF Used, Sane
<1>2. WellFormed(ts[t].data)
  BY <1>1, SourceAssumption DEF Counted
<1> DEFINE d == ts[t].data
<1>3. IsSeq(d.polys) /\ IsSeq(d.cons) /\ \A i \in DOMAIN d.cons : d.cons[i].poly \in DOMAIN d.polys
  BY <1>2 DEF WellFormed
<1>4. /\ Len(d.polys) \in Nat /\ DOMAIN d.polys = 1 .. Len(d.polys)
      /\ Len(d.cons) \in Nat /\ DOMAIN d.cons = 1 .. Len(d.cons)
  BY <1>3 DEF IsSeq
<1>5. DOMAIN ts[t].polys = 1 .. Len(d.polys) /\ DOMAIN ts[t].links = 1 .. Len(d.polys)
  BY <1>1 DEF Counted, AreLinks
<1>6. \A i \in 1 .. Len(d.cons) : d.cons[i].poly \in 1 .. Len(d.polys)
  BY <1>3, <1>4
<1>7. QED  BY <1>1, <1>2, <1>4, <1>5, <1>6

LEMMA NearSelf ==
  ASSUME NEW ts, Sane(ts), NEW t \in Used(ts)
  PROVE  Near(ts, t, t)
<1> DEFINE x == ts[t].data.x
           y == ts[t].data.y
<1>1. x \in Int /\ y \in Int
  BY UsedIs DEF WellFormed
<1> HIDE DEF x, y
<1>2. {x - x, y - y} \subseteq -1 .. 1
  BY <1>1
<1>3. QED  BY <1>2 DEF Near, Beside, x, y

\* Where a link goes depends on what the tiles were loaded from and their salts only.
LEMMA LinkOkOn ==
  ASSUME NEW ts, DOMAIN ts = Places, NEW us, DOMAIN us = Places, SameTiles(ts, us), NEW t \in Used(ts), NEW ref,
         LinkOk(ts, t, ref)
  PROVE  LinkOk(us, t, ref)
<1>1. PICK u \in Used(ts) : Near(ts, t, u) /\ \E p \in 1 .. Len(ts[u].data.polys) : ref = Ref(ts, u, p)
  BY DEF LinkOk
<1>2. t \in Places /\ u \in Places
  BY DEF Used
<1>3. us[u].data = ts[u].data /\ us[t].data = ts[t].data /\ us[u].salt = ts[u].salt /\ us[u].name = ts[u].name
  BY <1>2 DEF SameTiles
<1>4. u \in Used(us)
  BY <1>2, <1>3 DEF Used
<1>5. Near(us, t, u)
  BY <1>1, <1>3 DEF Near
<1>6. \A p : Ref(us, u, p) = Ref(ts, u, p)
  BY <1>3 DEF Ref
<1>7. QED  BY <1>1, <1>3, <1>4, <1>5, <1>6 DEF LinkOk

\* A reference to a polygon of a tile that is there and near.
LEMMA LinkOkTo ==
  ASSUME NEW ts, Sane(ts), NEW us, Follows(ts, us), NEW t \in Used(ts), NEW u \in Used(ts), Near(ts, t, u),
         NEW p \in 1 .. Len(ts[u].data.polys)
  PROVE  LinkOk(us, t, Ref(ts, u, p))
<1>1. LinkOk(ts, t, Ref(ts, u, p))
  BY DEF LinkOk
<1>2. QED  BY <1>1, LinkOkOn DEF Follows, Sane

\* One tile changed and is counted, and its links are none but its own and good ones: the table
\* is as it should be.
LEMMA OneChanged ==
  ASSUME NEW ts, Sane(ts), NEW t \in Used(ts), NEW us, SameBut(ts, us, t),
         DOMAIN us[t].polys = DOMAIN ts[t].polys, AreLinks(us[t].links, Len(ts[t].data.polys)),
         us[t].free \in Nat, us[t].free + LinkCount(us[t].links) = ts[t].free + LinkCount(ts[t].links),
         \A p \in 1 .. Len(ts[t].data.polys) : \A l \in ToSet(us[t].links[p]) :
             l \in ToSet(ts[t].links[p]) \/ LinkOk(ts, t, l.ref)
  PROVE  Follows(ts, us)
<1>1. t \in Places /\ Counted(ts[t]) /\ DOMAIN ts = Places
  BY UsedIs DEF Sane
<1>2. Counted(us[t])
  BY <1>1 DEF Counted, SameBut
<1>3. ASSUME NEW u \in Places
      PROVE  /\ IsTile(us[u]) /\ (us[u].name = None \/ Counted(us[u]))
             /\ us[u].salt = ts[u].salt /\ us[u].name = ts[u].name /\ us[u].data = ts[u].data
  <2>1. CASE u = t
    BY <1>2, <2>1 DEF SameBut
  <2>2. CASE u # t
    <3>1. us[u] = ts[u]
      BY <1>1, <2>2 DEF SameBut
    <3>2. QED  BY <3>1 DEF Sane
  <2>3. QED  BY <2>1, <2>2
<1>4. DOMAIN us = Places
  BY <1>1 DEF SameBut
<1>5. Sane(us) /\ SameTiles(ts, us)
  BY <1>3, <1>4 DEF Sane, SameTiles
<1>6. ASSUME LinksOk(ts)
      PROVE  LinksOk(us)
  <2>1. SUFFICES ASSUME NEW u \in Used(us), NEW p \in 1 .. Len(us[u].data.polys), NEW l \in ToSet(us[u].links[p])
                 PROVE  LinkOk(us, u, l.ref)
    BY DEF LinksOk
  <2>2. u \in Places /\ u \in Used(ts) /\ us[u].data = ts[u].data
    BY <1>1, <1>3, <1>4 DEF Used
  <2>3. LinkOk(ts, u, l.ref)
    <3>1. CASE u = t
      BY <1>6, <2>2, <3>1 DEF LinksOk
    <3>2. CASE u # t
      <4>1. us[u] = ts[u]
        BY <1>1, <2>2, <3>2 DEF SameBut
      <4>2. QED  BY <1>6, <2>2, <4>1 DEF LinksOk
    <3>3. QED  BY <3>1, <3>2
  <2>4. QED  BY <1>1, <1>4, <1>5, <2>2, <2>3, LinkOkOn
<1>7. QED  BY <1>5, <1>6 DEF Follows

\* A link more is one less that is free.
LEMMA AddLinkKeeps ==
  ASSUME NEW ts, Sane(ts), NEW t \in Used(ts), NEW p \in 1 .. Len(ts[t].data.polys), NEW link,
         LinkOk(ts, t, link.ref)
  PROVE  Follows(ts, AddLink(ts, t, p, link)) /\ AddLink(ts, t, p, link)[t].polys = ts[t].polys
<1> DEFINE n == Len(ts[t].data.polys)
           us == AddLink(ts, t, p, link)
           old == ts[t].links
           new == us[t].links
<1>1. /\ t \in DOMAIN ts /\ IsTile(ts[t]) /\ Counted(ts[t]) /\ n \in Nat
      /\ DOMAIN ts[t].links = 1 .. n
  BY UsedIs
<1>2. /\ SameBut(ts, us, t) /\ us[t].polys = ts[t].polys
      /\ ts[t].free = 0 => us[t].links = ts[t].links /\ us[t].free = 0
      /\ ts[t].free # 0 => /\ us[t].free = ts[t].free - 1
                           /\ us[t].links = [ts[t].links EXCEPT ![p] = <<link>> \o @]
  BY <1>1, AddLinkIs
<1>3. AreLinks(old, n) /\ ts[t].free \in Nat
  BY <1>1 DEF Counted
<1> HIDE DEF us
<1>4. CASE ts[t].free = 0
  <2>1. new = old /\ us[t].free = ts[t].free
    BY <1>2, <1>4
  <2>2. Follows(ts, us)
    BY <1>2, <1>3, <2>1, OneChanged
  <2>3. QED  BY <1>2, <2>2 DEF us
<1>5. CASE ts[t].free # 0
  <2>1. new = [old EXCEPT ![p] = <<link>> \o @] /\ us[t].free = ts[t].free - 1
    BY <1>2, <1>5
  <2> HIDE DEF n, old, new
  <2>2. /\ DOMAIN new = 1 .. n /\ new[p] = <<link>> \o old[p]
        /\ \A q \in 1 .. n : q # p => new[q] = old[q]
    BY <1>3, <2>1 DEF AreLinks, n
  <2>3. IsSeq(old[p]) /\ p \in 1 .. n
    BY <1>3 DEF AreLinks, n
  <2>4. IsSeq(new[p]) /\ Len(new[p]) = Len(old[p]) + 1 /\ ToSet(new[p]) \subseteq ToSet(old[p]) \cup {link}
    <3>1. old[p] \in Seq(ToSet(old[p]) \cup {link}) /\ <<link>> \in Seq(ToSet(old[p]) \cup {link}) /\ Len(<<link>>) = 1
      BY <2>3 DEF IsSeq
    <3>2. new[p] \in Seq(ToSet(old[p]) \cup {link}) /\ Len(new[p]) = Len(old[p]) + 1
      BY <2>2, <3>1
    <3>3. QED  BY <3>2, ElementsOf
  <2>5. AreLinks(new, n)
    BY <1>3, <2>2, <2>4 DEF AreLinks
  <2>6. \A q \in 1 .. n : Len(new[q]) = IF q = p THEN Len(old[q]) + 1 ELSE Len(old[q])
    BY <2>2, <2>4
  <2>7. LinkCount(new) = LinkCount(old) + 1 /\ LinkCount(old) \in Nat
    <3>1. n \in Nat /\ AreLinks(old, n)
      BY <1>1, <1>3 DEF n
    <3>2. /\ LinkCount(old) \in Nat
          /\ \A q \in 1 .. n : (\A r \in 1 .. n : Len(new[r]) = IF r = q THEN Len(old[r]) + 1 ELSE Len(old[r]))
                                 => LinkCount(new) = LinkCount(old) + 1
      BY <2>5, <3>1, LinkCountOf
    <3>3. QED  BY <2>3, <2>6, <3>2
  <2>8. us[t].free \in Nat /\ us[t].free + LinkCount(new) = ts[t].free + LinkCount(old)
    BY <1>3, <1>5, <2>1, <2>7
  <2>9. \A q \in 1 .. n : \A l \in ToSet(new[q]) : l \in ToSet(old[q]) \/ LinkOk(ts, t, l.ref)
    BY <2>2, <2>4
  <2>10. Follows(ts, us)
    BY <1>2, <2>5, <2>8, <2>9, OneChanged DEF n, old, new
  <2>11. QED  BY <1>2, <2>10 DEF us
<1>6. QED  BY <1>4, <1>5

\* Other polygons, as many.
LEMMA PolysKeep ==
  ASSUME NEW ts, Sane(ts), NEW t \in Used(ts), NEW q, DOMAIN q = DOMAIN ts[t].polys, NEW us,
         us = [ts EXCEPT ![t] = [@ EXCEPT !.polys = q]]
  PROVE  Follows(ts, us)
<1>1. t \in DOMAIN ts /\ IsTile(ts[t]) /\ Counted(ts[t])
  BY UsedIs
<1>2. us[t] = [ts[t] EXCEPT !.polys = q] /\ DOMAIN us = DOMAIN ts /\ \A u \in DOMAIN ts \ {t} : us[u] = ts[u]
  BY <1>1
<1>3. SameBut(ts, us, t) /\ us[t].polys = q /\ us[t].links = ts[t].links /\ us[t].free = ts[t].free
  BY <1>1, <1>2 DEF IsTile, SameBut
<1>4. AreLinks(ts[t].links, Len(ts[t].data.polys)) /\ ts[t].free \in Nat
  BY <1>1 DEF Counted
<1>5. QED  BY <1>3, <1>4, OneChanged

-----------------------------------------------------------------------------
(* Where the ends of connections land *)

\* What has a sequence's domain has its length.
LEMMA LengthOf ==
  ASSUME NEW s, NEW n \in Nat, DOMAIN s = 1 .. n
  PROVE  Len(s) = n
OBVIOUS

LEMMA IndicesAre ==
  ASSUME NEW s, Len(s) \in Nat
  PROVE  /\ Indices(s) \in Seq(1 .. Len(s)) /\ Len(Indices(s)) = Len(s)
         /\ \A i \in 1 .. Len(s) : Indices(s)[i] = i
BY DEF Indices

\* The tree finds polygons.
LEMMA TraverseIs ==
  ASSUME NEW tree, IsSeq(tree), NEW D, \A n \in 1 .. Len(tree) : tree[n].i > 0 => tree[n].i \in D, NEW q
  PROVE  Traverse(tree, q) \in Seq(D)
<1> DEFINE s == Indices(tree)
           n == Len(tree)
<1>1. n \in Nat
  BY DEF IsSeq
<1>2. Len(s) = n /\ Len(s) \in Nat /\ \A i \in 1 .. n : s[i] = i
  BY <1>1, IndicesAre
<1>3. PICK f : /\ Traverse(tree, q) = f[Len(s)].hits /\ f[0] = [at |-> 1, hits |-> << >>]
               /\ \A i \in 1 .. Len(s) : f[i] = Visit(tree, q, f[i - 1], s[i])
  <2>1. Len(Indices(tree)) \in Nat
    BY <1>2
  <2>2. QED  BY <2>1, TraverseRuns, Zenon
<1> HIDE DEF s
<1> DEFINE G == {i \in Nat : i <= n => f[i].hits \in Seq(D)}
<1>4. 0 \in G
  <2>1. f[0].hits = << >>
    BY <1>3
  <2>2. << >> \in Seq(D)
    OBVIOUS
  <2>3. f[0].hits \in Seq(D)
    BY <2>1, <2>2, Zenon
  <2>4. QED  BY <2>3
<1>5. ASSUME NEW i \in Nat, i \in G, i + 1 <= n
      PROVE  f[i + 1].hits \in Seq(D)
  <2>1. i + 1 \in 1 .. n /\ (i + 1) - 1 = i /\ f[i].hits \in Seq(D)
    BY <1>1, <1>5
  <2>2. f[i + 1] = Visit(tree, q, f[i], i + 1)
    BY <1>2, <1>3, <2>1
  <2>3. tree[i + 1].i > 0 => tree[i + 1].i \in D
    BY <2>1
  <2>4. f[i + 1].hits \in {f[i].hits, Append(f[i].hits, tree[i + 1].i)}
        /\ (f[i + 1].hits # f[i].hits => tree[i + 1].i > 0)
    BY <2>2 DEF Visit
  <2> DEFINE a == f[i].hits
             b == f[i + 1].hits
             c == tree[i + 1].i
  <2>5. a \in Seq(D) /\ (c > 0 => c \in D) /\ b \in {a, Append(a, c)} /\ (b # a => c > 0)
    BY <2>1, <2>3, <2>4
  <2> HIDE DEF a, b, c
  <2>6. b \in Seq(D)
    BY <2>5
  <2>7. QED  BY <2>6 DEF b
<1>6. n \in G
  <2>1. \A i \in Nat : i \in G => i + 1 \in G
    BY <1>5
  <2> HIDE DEF G
  <2>2. Nat \subseteq G
    BY <1>4, <2>1, Induction
  <2>3. QED  BY <1>1, <2>2
<1>7. QED  BY <1>1, <1>2, <1>3, <1>6

\* The nearest of some polygons is one of them, or none.
LEMMA NearestIs ==
  ASSUME NEW D, NEW polys \in Seq(D), NEW ts, NEW t, NEW pos
  PROVE  NearestOf(ts, t, pos, polys) \in D \cup {0}
<1> DEFINE n == Len(polys)
<1>1. n \in Nat /\ Len(polys) \in Nat /\ \A i \in 1 .. n : polys[i] \in D
  OBVIOUS
<1>2. PICK f : /\ NearestOf(ts, t, pos, polys) = f[Len(polys)] /\ f[0] = 0
               /\ \A i \in 1 .. Len(polys) : f[i] = Nearer(ts, t, pos, f[i - 1], polys[i])
  <2>1. Len(polys) \in Nat
    BY <1>1
  <2>2. QED  BY <2>1, NearestRuns
<1> DEFINE G == {i \in Nat : i <= n => f[i] \in D \cup {0}}
<1>3. 0 \in G
  BY <1>2
<1>4. ASSUME NEW i \in Nat, i \in G, i + 1 <= n
      PROVE  f[i + 1] \in D \cup {0}
  <2>1. i + 1 \in 1 .. n /\ (i + 1) - 1 = i /\ f[i] \in D \cup {0}
    BY <1>1, <1>4
  <2>2. f[i + 1] = Nearer(ts, t, pos, f[i], polys[i + 1])
    BY <1>2, <2>1
  <2>3. f[i + 1] \in {f[i], polys[i + 1]}
    BY <2>2 DEF Nearer
  <2>4. QED  BY <1>1, <2>1, <2>3
<1>5. n \in G
  <2>1. \A i \in Nat : i \in G => i + 1 \in G
    BY <1>4
  <2> HIDE DEF G
  <2>2. Nat \subseteq G
    BY <1>3, <2>1, Induction
  <2>3. QED  BY <1>1, <2>2
<1>6. QED  BY <1>1, <1>2, <1>5

\* An end lands on a polygon of the tile.
LEMMA LandingIs ==
  ASSUME NEW ts, Sane(ts), NEW t \in Used(ts), NEW pos, NEW rad, NEW climb
  PROVE  \A x \in Landing(ts, t, pos, rad, climb) : x[1] \in 1 .. Len(ts[t].data.polys)
<1> DEFINE data == ts[t].data
           n == Len(data.polys)
           D == 1 .. n
           box == Around(pos, <<rad, climb, rad>>)
           found == queryPolygonsInTile(ts, t, box)
           p == findNearestPolyInTile(ts, t, pos, <<rad, climb, rad>>)
<1>1. n \in Nat /\ DOMAIN ts[t].polys = D /\ WellFormed(data) /\ DOMAIN data.polys = D
  BY UsedIs
<1>2. found \in Seq(D)
  <2>1. Traverse(data.bvTree, Quantised(data, box)) \in Seq(D)
    <3>1. IsSeq(data.bvTree) /\ \A k \in DOMAIN data.bvTree : data.bvTree[k].i > 0 => data.bvTree[k].i \in D
      BY <1>1 DEF WellFormed
    <3>2. DOMAIN data.bvTree = 1 .. Len(data.bvTree)
      BY <3>1 DEF IsSeq
    <3> HIDE DEF data, D
    <3>3. QED  BY <3>1, <3>2, TraverseIs
  <2>2. Linear(ts[t].polys, box) \in Seq(D)
    <3> DEFINE polys == ts[t].polys
               S == {k \in DOMAIN polys : polys[k].type = "GROUND" /\ overlapBoxes(box, BoxOf(polys[k].verts))}
    <3>1. Len(polys) = n /\ Len(polys) \in Nat
      BY <1>1, LengthOf
    <3>2. Indices(polys) \in Seq(1 .. Len(polys))
      BY <3>1, IndicesAre
    <3>3. Kept(Indices(polys), S) \in Seq(S)
      <4> HIDE DEF S
      <4>1. QED  BY <3>2, KeptIs
    <3>4. Linear(polys, box) = Kept(Indices(polys), S)
      BY DEF Linear
    <3>5. S \subseteq D
      BY <1>1
    <3> HIDE DEF S, D, polys
    <3>6. Linear(polys, box) \in Seq(D)
      BY <3>3, <3>4, <3>5
    <3>7. QED  BY <3>6 DEF polys
  <2>3. found \in {Traverse(data.bvTree, Quantised(data, box)), Linear(ts[t].polys, box)}
    BY DEF queryPolygonsInTile
  <2>4. QED  BY <2>1, <2>2, <2>3
<1>3. p \in D \cup {0}
  <2>1. p = NearestOf(ts, t, pos, found)
    BY DEF findNearestPolyInTile
  <2> HIDE DEF p, found, D
  <2>2. QED  BY <1>2, <2>1, NearestIs
<1>4. \A x \in Landing(ts, t, pos, rad, climb) : x[1] = p /\ p # 0
  BY DEF Landing, PlaceOn, LandsOn
<1>5. QED  BY <1>3, <1>4

-----------------------------------------------------------------------------
(* Linking keeps the table *)

LEMMA FoldFollows ==
  ASSUME NEW ts, NEW n \in Nat, NEW f, Follows(ts, f[0]),
         \A i \in 1 .. n : Follows(ts, f[i - 1]) => Follows(f[i - 1], f[i])
  PROVE  Follows(ts, f[n]) /\ \A i \in 0 .. n : Follows(ts, f[i])
<1> DEFINE G == {i \in Nat : i <= n => Follows(ts, f[i])}
<1>1. 0 \in G
  OBVIOUS
<1>2. ASSUME NEW i \in Nat, i \in G, i + 1 <= n
      PROVE  Follows(ts, f[i + 1])
  <2>1. i + 1 \in 1 .. n /\ (i + 1) - 1 = i /\ Follows(ts, f[i])
    BY <1>2
  <2>2. Follows(f[i], f[i + 1])
    BY <2>1
  <2>3. QED  BY <2>1, <2>2, FollowsOn
<1>3. \A i \in Nat : i \in G => i + 1 \in G
  BY <1>2
<1>4. Nat \subseteq G
  <2> HIDE DEF G
  <2>1. QED  BY <1>1, <1>3, Induction
<1>5. QED  BY <1>4

\* What is there and how many polygons it has is the same in a table that follows.
LEMMA SameThere ==
  ASSUME NEW ts, Sane(ts), NEW us, Follows(ts, us), NEW t \in Used(ts)
  PROVE  /\ Sane(us) /\ t \in Used(us) /\ us[t].data = ts[t].data /\ us[t].salt = ts[t].salt
         /\ \A p : Ref(us, t, p) = Ref(ts, t, p)
<1>1. t \in Places
  BY UsedIs
<1>2. Sane(us) /\ t \in Used(us) /\ us[t].data = ts[t].data /\ us[t].salt = ts[t].salt
  BY <1>1, UsedFollow DEF Follows, SameTiles
<1>3. QED  BY <1>2 DEF Ref

LEMMA SameNear ==
  ASSUME NEW ts, Sane(ts), NEW us, Follows(ts, us), NEW t \in Used(ts), NEW u \in Used(ts), Near(ts, t, u)
  PROVE  Near(us, t, u)
<1>1. us[t].data = ts[t].data /\ us[u].data = ts[u].data
  BY SameThere
<1>2. QED  BY <1>1 DEF Near

LEMMA EndAtKeeps ==
  ASSUME NEW ts, Sane(ts), NEW t \in Used(ts), NEW target \in Used(ts), NEW con, NEW side, NEW from, NEW at,
         Near(ts, t, target), con.poly \in 1 .. Len(ts[target].data.polys), at[1] \in 1 .. Len(ts[t].data.polys)
  PROVE  Follows(ts, EndAt(ts, t, target, con, side, from, at))
<1> DEFINE moved == [ts EXCEPT ![target].polys[con.poly].verts[2] = at[2]]
           there == AddLink(moved, target, con.poly, Link(Ref(ts, t, at[1]), 2, from))
           both  == AddLink(there, t, at[1], Link(Ref(ts, target, con.poly), ONE_TILE, side))
           q == [ts[target].polys EXCEPT ![con.poly].verts[2] = at[2]]
<1>1. Follows(ts, moved)
  <2>1. moved = [ts EXCEPT ![target] = [@ EXCEPT !.polys = q]]
    OBVIOUS
  <2>2. DOMAIN q = DOMAIN ts[target].polys
    OBVIOUS
  <2> HIDE DEF moved, q
  <2>3. QED  BY <2>1, <2>2, PolysKeep
<1> HIDE DEF moved
<1>2. Follows(moved, there)
  <2> DEFINE link == Link(Ref(ts, t, at[1]), 2, from)
  <2>1. Sane(moved) /\ target \in Used(moved) /\ moved[target].data = ts[target].data
    BY <1>1, SameThere
  <2>2. LinkOk(moved, target, link.ref)
    <3>1. Near(ts, target, t) /\ link.ref = Ref(ts, t, at[1])
      BY NearBack DEF Link
    <3>2. QED  BY <1>1, <3>1, LinkOkTo
  <2> HIDE DEF link
  <2>3. QED  BY <2>1, <2>2, AddLinkKeeps DEF link
<1>3. Follows(ts, there)
  BY <1>1, <1>2, FollowsOn
<1> HIDE DEF there
<1>4. Follows(there, both)
  <2> DEFINE link == Link(Ref(ts, target, con.poly), ONE_TILE, side)
  <2>1. Sane(there) /\ t \in Used(there) /\ there[t].data = ts[t].data
    BY <1>3, SameThere
  <2>2. LinkOk(there, t, link.ref)
    <3>1. link.ref = Ref(ts, target, con.poly)
      BY DEF Link
    <3>2. QED  BY <1>3, <3>1, LinkOkTo
  <2> HIDE DEF link
  <2>3. QED  BY <2>1, <2>2, AddLinkKeeps DEF link
<1>5. Follows(ts, both)
  BY <1>3, <1>4, FollowsOn
<1>6. EndAt(ts, t, target, con, side, from, at) \in {there, both}
  BY DEF EndAt, there, moved
<1>7. QED  BY <1>3, <1>5, <1>6

LEMMA TieEndKeeps ==
  ASSUME NEW ts, Sane(ts), NEW t \in Used(ts), NEW target \in Used(ts), NEW con, NEW side,
         Near(ts, t, target), con.poly \in 1 .. Len(ts[target].data.polys)
  PROVE  Follows(ts, TieEnd(ts, t, target, con, side))
<1> DEFINE landing == Landing(ts, t, con.to, con.rad, ts[target].data.climb)
           from == IF side = ONE_TILE THEN ONE_TILE ELSE dtOppositeTile(side)
           at == CHOOSE x \in landing : TRUE
<1>1. Follows(ts, ts)
  BY DEF Follows, SameTiles
<1>2. landing # {} => at[1] \in 1 .. Len(ts[t].data.polys)
  <2>1. landing # {} => at \in landing
    OBVIOUS
  <2>2. \A x \in landing : x[1] \in 1 .. Len(ts[t].data.polys)
    BY LandingIs
  <2>3. QED  BY <2>1, <2>2
<1>3. landing # {} => Follows(ts, EndAt(ts, t, target, con, side, from, at))
  <2> HIDE DEF landing, from, at
  <2>1. QED  BY <1>2, EndAtKeeps
<1>4. \/ TieEnd(ts, t, target, con, side) = ts
      \/ landing # {} /\ TieEnd(ts, t, target, con, side) = EndAt(ts, t, target, con, side, from, at)
  BY DEF TieEnd
<1>5. QED  BY <1>1, <1>3, <1>4

LEMMA TieStartKeeps ==
  ASSUME NEW ts, Sane(ts), NEW t \in Used(ts), NEW con, con.poly \in 1 .. Len(ts[t].data.polys)
  PROVE  Follows(ts, TieStart(ts, t, con))
<1> DEFINE landing == Landing(ts, t, con.from, con.rad, ts[t].data.climb)
           at == CHOOSE x \in landing : TRUE
           moved == [ts EXCEPT ![t].polys[con.poly].verts[1] = at[2]]
           out   == AddLink(moved, t, con.poly, Link(Ref(ts, t, at[1]), 1, ONE_TILE))
           both  == AddLink(out, t, at[1], Link(Ref(ts, t, con.poly), ONE_TILE, ONE_TILE))
           q == [ts[t].polys EXCEPT ![con.poly].verts[1] = at[2]]
<1>1. Follows(ts, ts) /\ Near(ts, t, t)
  BY NearSelf DEF Follows, SameTiles
<1>2. landing # {} => at[1] \in 1 .. Len(ts[t].data.polys)
  <2>1. landing # {} => at \in landing
    OBVIOUS
  <2>2. \A x \in landing : x[1] \in 1 .. Len(ts[t].data.polys)
    BY LandingIs
  <2>3. QED  BY <2>1, <2>2
<1>3. TieStart(ts, t, con) = IF landing = {} THEN ts ELSE both
  BY DEF TieStart, StartAt
<1> HIDE DEF landing, at
<1>4. Follows(ts, moved)
  <2>1. moved = [ts EXCEPT ![t] = [@ EXCEPT !.polys = q]]
    OBVIOUS
  <2>2. DOMAIN q = DOMAIN ts[t].polys
    OBVIOUS
  <2> HIDE DEF moved, q
  <2>3. QED  BY <2>1, <2>2, PolysKeep
<1> HIDE DEF moved
<1>5. landing # {} => Follows(moved, out)
  <2> DEFINE link == Link(Ref(ts, t, at[1]), 1, ONE_TILE)
  <2>1. Sane(moved) /\ t \in Used(moved) /\ moved[t].data = ts[t].data
    BY <1>4, SameThere
  <2>2. link.ref = Ref(ts, t, at[1])
    BY DEF Link
  <2>3. landing # {} => LinkOk(moved, t, link.ref)
    BY <1>1, <1>2, <1>4, <2>2, LinkOkTo
  <2> HIDE DEF link
  <2>4. QED  BY <2>1, <2>3, AddLinkKeeps DEF link
<1>6. landing # {} => Follows(ts, out)
  BY <1>4, <1>5, FollowsOn
<1> HIDE DEF out
<1>7. landing # {} => Follows(out, both)
  <2> DEFINE link == Link(Ref(ts, t, con.poly), ONE_TILE, ONE_TILE)
  <2>1. landing # {} => Sane(out) /\ t \in Used(out) /\ out[t].data = ts[t].data
    BY <1>6, SameThere
  <2>2. link.ref = Ref(ts, t, con.poly)
    BY DEF Link
  <2>3. landing # {} => LinkOk(out, t, link.ref)
    BY <1>1, <1>6, <2>2, LinkOkTo
  <2> HIDE DEF link
  <2>4. QED  BY <1>2, <2>1, <2>3, AddLinkKeeps DEF link
<1>8. landing # {} => Follows(ts, both)
  BY <1>6, <1>7, FollowsOn
<1>9. QED  BY <1>1, <1>3, <1>8

\* The edges of some polygons, each as its polygon and its number.
EdgesIn(polys) == {e \in (1 .. Len(polys)) \X Int : e[2] \in DOMAIN polys[e[1]].verts}

LEMMA EdgesAre ==
  ASSUME NEW polys, IsSeq(polys), \A p \in DOMAIN polys : IsSeq(polys[p].verts)
  PROVE  EdgesOf(polys) \in Seq(EdgesIn(polys)) /\ EdgesBack(polys) \in Seq(EdgesIn(polys))
<1> DEFINE n == Len(polys)
           E == EdgesIn(polys)
           a == [p \in DOMAIN polys |-> [j \in DOMAIN polys[p].verts |-> <<p, j>>]]
           b == [p \in DOMAIN polys |-> [j \in DOMAIN polys[p].verts |-> <<p, Len(polys[p].verts) + 1 - j>>]]
<1>1. n \in Nat /\ DOMAIN polys = 1 .. n
  BY DEF IsSeq
<1>2. \A p \in 1 .. n : Len(polys[p].verts) \in Nat /\ DOMAIN polys[p].verts = 1 .. Len(polys[p].verts)
  BY <1>1 DEF IsSeq
<1>3. a \in Seq(Seq(E))
  <2>1. ASSUME NEW p \in 1 .. n
        PROVE  [j \in DOMAIN polys[p].verts |-> <<p, j>>] \in Seq(E)
    <3> DEFINE k == Len(polys[p].verts)
    <3>1. k \in Nat /\ DOMAIN polys[p].verts = 1 .. k
      BY <1>2
    <3>2. \A j \in 1 .. k : <<p, j>> \in E
      BY <3>1 DEF EdgesIn
    <3> HIDE DEF k, E
    <3>3. [j \in 1 .. k |-> <<p, j>>] \in Seq(E)
      BY <3>1, <3>2
    <3>4. QED  BY <3>1, <3>3
  <2>2. a = [p \in 1 .. n |-> a[p]] /\ \A p \in 1 .. n : a[p] \in Seq(E)
    BY <1>1, <2>1
  <2> HIDE DEF a, n, E
  <2>3. QED  BY <1>1, <2>2
<1>4. b \in Seq(Seq(E))
  <2>1. ASSUME NEW p \in 1 .. n
        PROVE  [j \in DOMAIN polys[p].verts |-> <<p, Len(polys[p].verts) + 1 - j>>] \in Seq(E)
    <3> DEFINE k == Len(polys[p].verts)
    <3>1. k \in Nat /\ DOMAIN polys[p].verts = 1 .. k
      BY <1>2
    <3>2. \A j \in 1 .. k : <<p, k + 1 - j>> \in E
      <4>1. \A j \in 1 .. k : k + 1 - j \in 1 .. k
        BY <3>1
      <4> HIDE DEF k
      <4>2. QED  BY <3>1, <4>1 DEF EdgesIn
    <3> HIDE DEF k, E
    <3>3. [j \in 1 .. k |-> <<p, k + 1 - j>>] \in Seq(E)
      <4> DEFINE g == [j \in 1 .. k |-> <<p, k + 1 - j>>]
      <4>1. g = [j \in 1 .. k |-> g[j]] /\ \A j \in 1 .. k : g[j] \in E
        BY <3>2
      <4> HIDE DEF g
      <4>2. g \in Seq(E)
        BY <3>1, <4>1
      <4>3. QED  BY <4>2 DEF g
    <3>4. QED  BY <3>1, <3>3 DEF k
  <2>2. b = [p \in 1 .. n |-> b[p]] /\ \A p \in 1 .. n : b[p] \in Seq(E)
    BY <1>1, <2>1
  <2> HIDE DEF b, n, E
  <2>3. QED  BY <1>1, <2>2
<1>5. EdgesOf(polys) = FlattenSeq(a) /\ EdgesBack(polys) = FlattenSeq(b)
  BY DEF EdgesOf, EdgesBack
<1> HIDE DEF a, b, E
<1>6. FlattenSeq(a) \in Seq(E) /\ FlattenSeq(b) \in Seq(E)
  BY <1>3, <1>4, FlattenType
<1>7. QED  BY <1>5, <1>6 DEF E

\* What is kept of the edges of a tile that is there.
LEMMA KeptEdges ==
  ASSUME NEW ts, Sane(ts), NEW t \in Used(ts), NEW S
  PROVE  LET a == Kept(EdgesOf(ts[t].data.polys), S)
             b == Kept(EdgesBack(ts[t].data.polys), S)
         IN  /\ Len(a) \in Nat /\ \A i \in 1 .. Len(a) : a[i] \in S
             /\ Len(b) \in Nat /\ \A i \in 1 .. Len(b) : b[i] \in S
             /\ ToSet(EdgesOf(ts[t].data.polys)) \subseteq EdgesIn(ts[t].data.polys)
             /\ ToSet(EdgesBack(ts[t].data.polys)) \subseteq EdgesIn(ts[t].data.polys)
<1> DEFINE polys == ts[t].data.polys
           E == EdgesIn(polys)
           x == EdgesOf(polys)
           y == EdgesBack(polys)
<1>1. x \in Seq(E) /\ y \in Seq(E)
  <2>1. IsSeq(polys) /\ \A p \in DOMAIN polys : IsSeq(polys[p].verts)
    BY UsedIs DEF WellFormed
  <2> HIDE DEF polys
  <2>2. QED  BY <2>1, EdgesAre
<1> HIDE DEF E, x, y
<1>2. ToSet(x) \subseteq E /\ ToSet(y) \subseteq E
  BY <1>1, ElementsOf
<1>3. Kept(x, S) \in Seq(S) /\ Kept(y, S) \in Seq(S)
  BY <1>1, KeptIs
<1> DEFINE a == Kept(x, S)
           b == Kept(y, S)
<1>4. a \in Seq(S) /\ b \in Seq(S)
  BY <1>3
<1> HIDE DEF a, b
<1>5. Len(a) \in Nat /\ (\A i \in 1 .. Len(a) : a[i] \in S) /\ Len(b) \in Nat /\ \A i \in 1 .. Len(b) : b[i] \in S
  BY <1>4
<1>6. QED  BY <1>2, <1>5 DEF a, b, x, y, E

\* So and so many hits, all of them polygons of tile t.
Found(ts, t, hits) ==
    /\ IsSeq(hits) /\ Len(hits) \in Nat
    /\ \A k \in 1 .. Len(hits) : \E p \in 1 .. Len(ts[t].polys) : hits[k].ref = Ref(ts, t, p)

LEMMA BehindIs ==
  ASSUME NEW ts, NEW slab, NEW at, NEW t, NEW side, Len(ts[t].polys) \in Nat
  PROVE  Found(ts, t, PolysBehind(ts, slab, at, t, side))
<1> DEFINE s == Indices(ts[t].polys)
           n == Len(s)
<1>1. Len(s) \in Nat /\ \A i \in 1 .. Len(s) : s[i] \in 1 .. Len(ts[t].polys)
  BY IndicesAre
<1>2. PICK f : /\ PolysBehind(ts, slab, at, t, side) = f[Len(s)] /\ f[0] = << >>
               /\ \A i \in 1 .. Len(s) : f[i] = More(ts, slab, at, t, side, f[i - 1], s[i])
  <2>1. Len(Indices(ts[t].polys)) \in Nat
    BY <1>1
  <2>2. QED  BY <2>1, BehindRuns
<1> HIDE DEF s
<1> DEFINE G == {i \in Nat : i <= n => Found(ts, t, f[i])}
<1>3. 0 \in G
  <2>1. IsSeq(f[0]) /\ Len(f[0]) = 0
    BY <1>2 DEF IsSeq
  <2>2. QED  BY <2>1 DEF Found
<1>4. ASSUME NEW i \in Nat, i \in G, i + 1 <= n
      PROVE  Found(ts, t, f[i + 1])
  <2>1. i + 1 \in 1 .. n /\ (i + 1) - 1 = i /\ Found(ts, t, f[i])
    BY <1>1, <1>4
  <2> DEFINE a == f[i]
             b == f[i + 1]
             p == s[i + 1]
  <2>2. b = More(ts, slab, at, t, side, a, p) /\ p \in 1 .. Len(ts[t].polys)
    BY <1>1, <1>2, <2>1
  <2> HIDE DEF a, b, p
  <2>3. \E x : b \in {a, Append(a, x)} /\ x.ref = Ref(ts, t, p)
    <3> DEFINE x == Shared(Ref(ts, t, p), slab, calcSlabEndPoints(EdgeOf(ts[t].polys[p],
                        Least(Meeting(ts[t].polys[p], slab, at, side, ts[t].data.climb))), side))
    <3>1. b \in {a, Append(a, x)}
      BY <2>2 DEF More
    <3>2. x.ref = Ref(ts, t, p)
      BY DEF Shared
    <3> HIDE DEF x
    <3>3. QED  BY <3>1, <3>2
  <2>4. PICK x : b \in {a, Append(a, x)} /\ x.ref = Ref(ts, t, p)
    BY <2>3
  <2>5. IsSeq(a) /\ Found(ts, t, a)
    BY <2>1 DEF a, Found
  <2>6. CASE b = a
    BY <2>5, <2>6 DEF b
  <2>7. CASE b = Append(a, x)
    <3>1. a \in Seq(ToSet(a) \cup {x})
      BY <2>5 DEF IsSeq
    <3>2. b \in Seq(ToSet(a) \cup {x}) /\ Len(a) \in Nat /\ Len(b) = Len(a) + 1 /\ b[Len(a) + 1] = x
          /\ \A k \in 1 .. Len(a) : b[k] = a[k]
      BY <2>7, <3>1
    <3>3. IsSeq(b)
      BY <3>2, ElementsOf
    <3>4. ASSUME NEW k \in 1 .. Len(b)
          PROVE  \E q \in 1 .. Len(ts[t].polys) : b[k].ref = Ref(ts, t, q)
      <4>1. k \in 1 .. Len(a) \/ k = Len(a) + 1
        BY <3>2
      <4>2. CASE k \in 1 .. Len(a)
        BY <2>5, <3>2, <4>2 DEF Found
      <4>3. CASE k = Len(a) + 1
        BY <2>2, <2>4, <3>2, <4>3
      <4>4. QED  BY <4>1, <4>2, <4>3
    <3>5. Len(b) \in Nat
      BY <3>2
    <3>6. Found(ts, t, b)
      BY ONLY <3>3, <3>4, <3>5 DEF Found
    <3>7. QED  BY <3>6 DEF b
  <2>8. QED  BY <2>4, <2>6, <2>7
<1>5. \A i \in Nat : i \in G => i + 1 \in G
  BY <1>4
<1>6. Nat \subseteq G
  <2> HIDE DEF G
  <2>1. QED  BY <1>3, <1>5, Induction
<1>7. Found(ts, t, f[n])
  BY <1>1, <1>6
<1>8. QED  BY <1>2, <1>7

LEMMA LinkPortalKeeps ==
  ASSUME NEW ts, Sane(ts), NEW t \in Used(ts), NEW target \in Used(ts), NEW e,
         Near(ts, t, target), e[1] \in 1 .. Len(ts[t].data.polys)
  PROVE  Follows(ts, LinkPortal(ts, t, e, target))
<1> DEFINE edge == EdgeOf(ts[t].polys[e[1]], e[2])
           dir  == ts[t].polys[e[1]].neis[e[2]] - EXT_LINK
           cons == findConnectingPolys(ts, edge, target, dtOppositeTile(dir))
<1>1. LinkPortal(ts, t, e, target) = LinkBehind(ts, t, e, edge, dir, cons)
  BY DEF LinkPortal
<1>2. /\ Len(cons) \in Nat
      /\ \A i \in 1 .. Len(cons) : \E p \in 1 .. Len(ts[target].data.polys) : cons[i].ref = Ref(ts, target, p)
  <2>1. Len(ts[target].polys) \in Nat /\ Len(ts[target].polys) = Len(ts[target].data.polys)
    <3>1. DOMAIN ts[target].polys = 1 .. Len(ts[target].data.polys) /\ Len(ts[target].data.polys) \in Nat
      BY UsedIs
    <3>2. QED  BY <3>1, LengthOf
  <2>2. Found(ts, target, cons)
    BY <2>1, BehindIs DEF findConnectingPolys
  <2>3. QED  BY <2>1, <2>2 DEF Found
<1> HIDE DEF edge, dir, cons
<1>3. PICK f : /\ LinkBehind(ts, t, e, edge, dir, cons) = f[Len(cons)] /\ f[0] = ts
               /\ \A i \in 1 .. Len(cons) : f[i] = PortalLink(f[i - 1], t, e, edge, dir, cons[i])
  <2>1. Len(cons) \in Nat
    BY <1>2
  <2>2. QED  BY <2>1, LinkRuns
<1>4. ASSUME NEW i \in 1 .. Len(cons), Follows(ts, f[i - 1])
      PROVE  Follows(f[i - 1], f[i])
  <2> DEFINE us == f[i - 1]
  <2>1. Sane(us) /\ t \in Used(us) /\ us[t].data = ts[t].data
    BY <1>4, SameThere
  <2>2. PICK l : f[i] = AddLink(us, t, e[1], l) /\ l.ref = cons[i].ref
    <3> DEFINE a == Portion(edge, dir, cons[i].lo)
               b == Portion(edge, dir, cons[i].hi)
               x == [ref |-> cons[i].ref, edge |-> e[2], side |-> dir, bmin |-> Least({a, b}), bmax |-> Most({a, b})]
    <3>1. f[i] = AddLink(us, t, e[1], x)
      BY <1>3 DEF PortalLink
    <3>2. x.ref = cons[i].ref
      OBVIOUS
    <3> HIDE DEF x
    <3>3. QED  BY <3>1, <3>2
  <2>3. PICK p \in 1 .. Len(ts[target].data.polys) : cons[i].ref = Ref(ts, target, p)
    BY <1>2
  <2>4. LinkOk(us, t, cons[i].ref)
    BY <1>4, <2>3, LinkOkTo
  <2> HIDE DEF us
  <2>5. QED  BY <2>1, <2>2, <2>4, AddLinkKeeps DEF us
<1>5. Follows(ts, f[0])
  BY <1>3 DEF Follows, SameTiles
<1>6. Follows(ts, f[Len(cons)])
  BY <1>2, <1>4, <1>5, FoldFollows
<1>7. QED  BY <1>1, <1>3, <1>6

LEMMA ExtKeeps ==
  ASSUME NEW ts, Sane(ts), NEW t \in Used(ts), NEW target \in Used(ts), NEW side, Near(ts, t, target)
  PROVE  Follows(ts, connectExtLinks(ts, t, target, side))
<1> DEFINE es == PortalEdges(ts, t, side)
           n == Len(ts[t].data.polys)
           S == {e \in ToSet(EdgesOf(ts[t].data.polys)) : IsPortal(ts[t].polys[e[1]].neis[e[2]], side)}
<1>1. Len(es) \in Nat /\ \A i \in 1 .. Len(es) : es[i][1] \in 1 .. n
  <2>1. es = Kept(EdgesOf(ts[t].data.polys), S)
    BY DEF PortalEdges
  <2>2. S \subseteq ToSet(EdgesOf(ts[t].data.polys))
    OBVIOUS
  <2> HIDE DEF S, es
  <2>3. /\ Len(es) \in Nat /\ \A i \in 1 .. Len(es) : es[i] \in S
        /\ ToSet(EdgesOf(ts[t].data.polys)) \subseteq EdgesIn(ts[t].data.polys)
    BY <2>1, KeptEdges
  <2>4. \A e \in EdgesIn(ts[t].data.polys) : e[1] \in 1 .. n
    BY DEF EdgesIn
  <2>5. QED  BY <2>2, <2>3, <2>4
<1>2. PICK f : /\ connectExtLinks(ts, t, target, side) = f[Len(PortalEdges(ts, t, side))] /\ f[0] = ts
               /\ \A i \in 1 .. Len(PortalEdges(ts, t, side)) : f[i] = LinkPortal(f[i - 1], t, PortalEdges(ts, t, side)[i], target)
  <2>1. Len(PortalEdges(ts, t, side)) \in Nat
    BY <1>1
  <2>2. QED  BY <2>1, ExtRuns
<1> HIDE DEF es, S
<1>3. ASSUME NEW i \in 1 .. Len(es), Follows(ts, f[i - 1])
      PROVE  Follows(f[i - 1], f[i])
  <2> DEFINE us == f[i - 1]
  <2>1. Sane(us) /\ t \in Used(us) /\ us[t].data = ts[t].data /\ target \in Used(us) /\ Near(us, t, target)
    BY <1>3, SameThere, SameNear
  <2>2. f[i] = LinkPortal(us, t, es[i], target)
    BY <1>2 DEF es
  <2> HIDE DEF us
  <2>3. QED  BY <1>1, <2>1, <2>2, LinkPortalKeeps DEF us
<1>4. Follows(ts, f[0])
  BY <1>2 DEF Follows, SameTiles
<1>5. Follows(ts, f[Len(es)])
  BY <1>1, <1>3, <1>4, FoldFollows
<1>6. QED  BY <1>2, <1>5 DEF es

LEMMA JumpsKeep ==
  ASSUME NEW ts, Sane(ts), NEW t \in Used(ts), NEW target \in Used(ts), NEW side, Near(ts, t, target)
  PROVE  Follows(ts, connectExtOffMeshLinks(ts, t, target, side))
<1> DEFINE cs == ts[target].data.cons
<1>1. Len(cs) \in Nat /\ \A i \in 1 .. Len(cs) : cs[i].poly \in 1 .. Len(ts[target].data.polys)
  BY UsedIs
<1>2. PICK f : /\ connectExtOffMeshLinks(ts, t, target, side) = f[Len(ts[target].data.cons)] /\ f[0] = ts
               /\ \A i \in 1 .. Len(ts[target].data.cons) : f[i] = TieEnd(f[i - 1], t, target, ts[target].data.cons[i], side)
  <2>1. Len(ts[target].data.cons) \in Nat
    BY <1>1
  <2>2. QED  BY <2>1, JumpsRun
<1> HIDE DEF cs
<1>3. ASSUME NEW i \in 1 .. Len(cs), Follows(ts, f[i - 1])
      PROVE  Follows(f[i - 1], f[i])
  <2> DEFINE us == f[i - 1]
  <2>1. Sane(us) /\ t \in Used(us) /\ target \in Used(us) /\ us[target].data = ts[target].data /\ Near(us, t, target)
    BY <1>3, SameThere, SameNear
  <2>2. f[i] = TieEnd(us, t, target, cs[i], side)
    BY <1>2 DEF cs
  <2> HIDE DEF us
  <2>3. QED  BY <1>1, <2>1, <2>2, TieEndKeeps DEF us
<1>4. Follows(ts, f[0])
  BY <1>2 DEF Follows, SameTiles
<1>5. Follows(ts, f[Len(cs)])
  BY <1>1, <1>3, <1>4, FoldFollows
<1>6. QED  BY <1>2, <1>5 DEF cs

LEMMA BaseKeeps ==
  ASSUME NEW ts, Sane(ts), NEW t \in Used(ts)
  PROVE  Follows(ts, baseOffMeshLinks(ts, t))
<1> DEFINE cs == ts[t].data.cons
<1>1. Len(cs) \in Nat /\ \A i \in 1 .. Len(cs) : cs[i].poly \in 1 .. Len(ts[t].data.polys)
  BY UsedIs
<1>2. PICK f : /\ baseOffMeshLinks(ts, t) = f[Len(ts[t].data.cons)] /\ f[0] = ts
               /\ \A i \in 1 .. Len(ts[t].data.cons) : f[i] = TieStart(f[i - 1], t, ts[t].data.cons[i])
  <2>1. Len(ts[t].data.cons) \in Nat
    BY <1>1
  <2>2. QED  BY <2>1, BaseRuns
<1> HIDE DEF cs
<1>3. ASSUME NEW i \in 1 .. Len(cs), Follows(ts, f[i - 1])
      PROVE  Follows(f[i - 1], f[i])
  <2> DEFINE us == f[i - 1]
  <2>1. Sane(us) /\ t \in Used(us) /\ us[t].data = ts[t].data
    BY <1>3, SameThere
  <2>2. f[i] = TieStart(us, t, cs[i])
    BY <1>2 DEF cs
  <2> HIDE DEF us
  <2>3. QED  BY <1>1, <2>1, <2>2, TieStartKeeps DEF us
<1>4. Follows(ts, f[0])
  BY <1>2 DEF Follows, SameTiles
<1>5. Follows(ts, f[Len(cs)])
  BY <1>1, <1>3, <1>4, FoldFollows
<1>6. QED  BY <1>2, <1>5 DEF cs

LEMMA IntKeeps ==
  ASSUME NEW ts, Sane(ts), NEW t \in Used(ts), ts[t].polys = ts[t].data.polys
  PROVE  Follows(ts, connectIntLinks(ts, t))
<1> DEFINE es == InnerEdges(ts, t)
           n == Len(ts[t].data.polys)
           S == {e \in ToSet(EdgesBack(ts[t].data.polys)) : /\ ts[t].polys[e[1]].type = "GROUND"
                                                            /\ ts[t].polys[e[1]].neis[e[2]] \in 1 .. (EXT_LINK - 1)}
<1>1. Len(es) \in Nat /\ \A i \in 1 .. Len(es) :
          es[i][1] \in 1 .. n /\ ts[t].polys[es[i][1]].neis[es[i][2]] \in 1 .. n
  <2>1. es = Kept(EdgesBack(ts[t].data.polys), S)
    BY DEF InnerEdges
  <2>2. S \subseteq ToSet(EdgesBack(ts[t].data.polys))
    OBVIOUS
  <2> HIDE DEF S, es
  <2>3. /\ Len(es) \in Nat /\ \A i \in 1 .. Len(es) : es[i] \in S
        /\ ToSet(EdgesBack(ts[t].data.polys)) \subseteq EdgesIn(ts[t].data.polys)
    BY <2>1, KeptEdges
  <2>4. \A e \in EdgesIn(ts[t].data.polys) : e[1] \in 1 .. n
    BY DEF EdgesIn
  <2>5. \A e \in EdgesIn(ts[t].data.polys) :
            ts[t].polys[e[1]].neis[e[2]] \in 1 .. (EXT_LINK - 1) => ts[t].polys[e[1]].neis[e[2]] \in 1 .. n
    <3>1. WellFormed(ts[t].data) /\ DOMAIN ts[t].data.polys = 1 .. n
      BY UsedIs
    <3>2. QED  BY <2>4, <3>1 DEF EdgesIn, WellFormed
  <2>6. \A e \in S : ts[t].polys[e[1]].neis[e[2]] \in 1 .. (EXT_LINK - 1)
    BY DEF S
  <2>7. QED  BY <2>2, <2>3, <2>4, <2>5, <2>6
<1>2. PICK f : /\ connectIntLinks(ts, t) = f[Len(InnerEdges(ts, t))] /\ f[0] = ts
               /\ \A i \in 1 .. Len(InnerEdges(ts, t)) : f[i] = LinkEdge(f[i - 1], t, InnerEdges(ts, t)[i])
  <2>1. Len(InnerEdges(ts, t)) \in Nat
    BY <1>1
  <2>2. QED  BY <2>1, IntRuns
<1> HIDE DEF es, S
<1> DEFINE m == Len(es)
           G == {i \in Nat : i <= m => Follows(ts, f[i]) /\ f[i][t].polys = ts[t].polys}
<1> HIDE DEF m
<1>3. 0 \in G
  BY <1>2 DEF Follows, SameTiles
<1>4. ASSUME NEW i \in Nat, i \in G, i + 1 <= m
      PROVE  Follows(ts, f[i + 1]) /\ f[i + 1][t].polys = ts[t].polys
  <2> DEFINE us == f[i]
             e == es[i + 1]
             p == ts[t].polys[e[1]].neis[e[2]]
             link == Link(Ref(ts, t, p), e[2], ONE_TILE)
  <2>1. i + 1 \in 1 .. m /\ (i + 1) - 1 = i /\ Follows(ts, us) /\ us[t].polys = ts[t].polys
    <3>1. m \in Nat
      BY <1>1 DEF m
    <3>2. i <= m
      BY <1>4, <3>1
    <3>3. QED  BY <1>4, <3>1, <3>2
  <2>2. Sane(us) /\ t \in Used(us) /\ us[t].data = ts[t].data /\ Ref(us, t, p) = Ref(ts, t, p)
    BY <2>1, SameThere
  <2>3. e[1] \in 1 .. n /\ p \in 1 .. n
    BY <1>1, <2>1 DEF m
  <2>4. f[i + 1] = AddLink(us, t, e[1], link)
    <3>1. f[i + 1] = LinkEdge(us, t, e)
      BY <1>2, <2>1 DEF es, m
    <3> HIDE DEF us, e
    <3>2. f[i + 1] = AddLink(us, t, e[1], Link(Ref(us, t, p), e[2], ONE_TILE))
      BY <2>1, <3>1 DEF LinkEdge
    <3>3. QED  BY <2>2, <3>2
  <2>5. LinkOk(us, t, link.ref)
    <3>1. link.ref = Ref(ts, t, p)
      BY DEF Link
    <3>2. Near(ts, t, t)
      BY NearSelf
    <3>3. QED  BY <2>1, <2>3, <3>1, <3>2, LinkOkTo
  <2> HIDE DEF us, e, p, link
  <2>6. Follows(us, f[i + 1]) /\ f[i + 1][t].polys = us[t].polys
    BY <2>2, <2>3, <2>4, <2>5, AddLinkKeeps
  <2>7. QED  BY <2>1, <2>6, FollowsOn
<1>5. \A i \in Nat : i \in G => i + 1 \in G
  BY <1>4
<1>6. Nat \subseteq G
  <2> HIDE DEF G
  <2>1. QED  BY <1>3, <1>5, Induction
<1>7. Follows(ts, f[m])
  <2>1. m \in Nat
    BY <1>1 DEF m
  <2>2. QED  BY <1>6, <2>1
<1>8. QED  BY <1>2, <1>7 DEF es, m

LEMMA AloneKeeps ==
  ASSUME NEW ts, Sane(ts), NEW t \in Used(ts), ts[t].polys = ts[t].data.polys
  PROVE  Follows(ts, Alone(ts, t))
<1> DEFINE a == connectIntLinks(ts, t)
           b == baseOffMeshLinks(a, t)
           c == connectExtOffMeshLinks(b, t, t, ONE_TILE)
<1>1. Follows(ts, a)
  BY IntKeeps
<1> HIDE DEF a
<1>2. Follows(ts, b)
  <2>1. Sane(a) /\ t \in Used(a)
    BY <1>1, SameThere
  <2>2. QED  BY <1>1, <2>1, BaseKeeps, FollowsOn
<1> HIDE DEF b
<1>3. Follows(ts, c)
  <2>1. Sane(b) /\ t \in Used(b) /\ Near(b, t, t)
    BY <1>2, SameThere, NearSelf
  <2>2. QED  BY <1>2, <2>1, JumpsKeep, FollowsOn
<1>4. QED  BY <1>3 DEF Alone, a, b

LEMMA ConnectKeeps ==
  ASSUME NEW ts, Sane(ts), NEW t \in Used(ts), NEW n \in Used(ts), NEW side, Near(ts, t, n)
  PROVE  Follows(ts, Connect(ts, t, n, side))
<1> DEFINE opp == IF side = ONE_TILE THEN ONE_TILE ELSE dtOppositeTile(side)
           a == connectExtLinks(ts, t, n, side)
           b == connectExtLinks(a, n, t, opp)
           c == connectExtOffMeshLinks(b, t, n, side)
           d == connectExtOffMeshLinks(c, n, t, opp)
<1> HIDE DEF opp
<1>1. Follows(ts, a)
  BY ExtKeeps
<1> HIDE DEF a
<1>2. Follows(ts, b)
  <2>1. Sane(a) /\ t \in Used(a) /\ n \in Used(a) /\ Near(a, n, t)
    BY <1>1, SameThere, SameNear, NearBack
  <2>2. QED  BY <1>1, <2>1, ExtKeeps, FollowsOn
<1> HIDE DEF b
<1>3. Follows(ts, c)
  <2>1. Sane(b) /\ t \in Used(b) /\ n \in Used(b) /\ Near(b, t, n)
    BY <1>2, SameThere, SameNear
  <2>2. QED  BY <1>2, <2>1, JumpsKeep, FollowsOn
<1> HIDE DEF c
<1>4. Follows(ts, d)
  <2>1. Sane(c) /\ t \in Used(c) /\ n \in Used(c) /\ Near(c, n, t)
    BY <1>3, SameThere, SameNear, NearBack
  <2>2. QED  BY <1>3, <2>1, JumpsKeep, FollowsOn
<1>5. QED  BY <1>4 DEF Connect, a, b, c, opp

\* A new tile is linked to all that is near it.
LEMMA ConnectedKeeps ==
  ASSUME NEW ts, Sane(ts), NEW t \in Used(ts), NEW near, Len(near) \in Nat,
         ts[t].polys = ts[t].data.polys,
         \A i \in 1 .. Len(near) : near[i][1] \in Used(ts) /\ Near(ts, t, near[i][1])
  PROVE  Follows(ts, Connected(ts, t, near))
<1>1. PICK f : /\ Connected(ts, t, near) = f[Len(near)] /\ f[0] = Alone(ts, t)
               /\ \A i \in 1 .. Len(near) : f[i] = Connect(f[i - 1], t, near[i][1], near[i][2])
  BY ConnectedRuns
<1>2. Follows(ts, f[0])
  BY <1>1, AloneKeeps
<1>3. ASSUME NEW i \in 1 .. Len(near), Follows(ts, f[i - 1])
      PROVE  Follows(f[i - 1], f[i])
  <2> DEFINE us == f[i - 1]
  <2>1. Sane(us) /\ t \in Used(us) /\ near[i][1] \in Used(us) /\ Near(us, t, near[i][1])
    BY <1>3, SameThere, SameNear
  <2>2. f[i] = Connect(us, t, near[i][1], near[i][2])
    BY <1>1
  <2> HIDE DEF us
  <2>3. QED  BY <2>1, <2>2, ConnectKeeps DEF us
<1>4. QED  BY <1>1, <1>2, <1>3, FoldFollows

-----------------------------------------------------------------------------
(* Unlinking keeps the table *)

\* No link of tile t has the number of the target.
ForgotBy(ts, t, target) ==
    \A p \in 1 .. Len(ts[t].data.polys) : \A l \in ToSet(ts[t].links[p]) : decodePolyIdTile(l.ref) # target

LEMMA UnconnectKeeps ==
  ASSUME NEW ts, Sane(ts), NEW t \in Used(ts), NEW target
  PROVE  /\ Follows(ts, unconnectLinks(ts, t, target))
         /\ \A u \in Places \ {t} : unconnectLinks(ts, t, target)[u] = ts[u]
         /\ ForgotBy(unconnectLinks(ts, t, target), t, target)
<1> DEFINE n == Len(ts[t].data.polys)
           old == ts[t].links
           new == [p \in DOMAIN ts[t].links |-> LinksElsewhere(ts[t].links[p], target)]
           us == unconnectLinks(ts, t, target)
           r == ts[t]
           free == r.free + LinkCount(old) - LinkCount(new)
<1>1. /\ t \in DOMAIN ts /\ IsTile(r) /\ Counted(r) /\ n \in Nat /\ AreLinks(old, n) /\ r.free \in Nat
  BY UsedIs DEF Counted
<1>2. us = [ts EXCEPT ![t] = [r EXCEPT !.links = new, !.free = free]]
  <2> HIDE DEF new
  <2>1. us = [[ts EXCEPT ![t] = [r EXCEPT !.links = new]] EXCEPT ![t] = [[r EXCEPT !.links = new] EXCEPT !.free = free]]
    BY <1>1 DEF unconnectLinks, new, IsTile
  <2>2. QED  BY <1>1, <2>1
<1> HIDE DEF new, free, us
<1>3. SameBut(ts, us, t) /\ us[t].polys = r.polys /\ us[t].links = new /\ us[t].free = free
  <2>1. us[t] = [r EXCEPT !.links = new, !.free = free] /\ DOMAIN us = DOMAIN ts /\ \A u \in DOMAIN ts \ {t} : us[u] = ts[u]
    BY <1>1, <1>2
  <2>2. QED  BY <1>1, <2>1 DEF IsTile, SameBut
<1>4. \A p \in 1 .. n : new[p] = LinksElsewhere(old[p], target) /\ IsSeq(old[p])
  BY <1>1 DEF AreLinks, new
<1>5. ASSUME NEW p \in 1 .. n
      PROVE  /\ IsSeq(new[p]) /\ Len(new[p]) <= Len(old[p])
             /\ \A l \in ToSet(new[p]) : l \in ToSet(old[p]) /\ decodePolyIdTile(l.ref) # target
  <2> DEFINE s == old[p]
             S == {l \in ToSet(s) : decodePolyIdTile(l.ref) # target}
  <2>1. new[p] = Kept(s, S) /\ s \in Seq(ToSet(s))
    BY <1>4 DEF LinksElsewhere, IsSeq
  <2> HIDE DEF s, S
  <2>2. Kept(s, S) \in Seq(S) /\ Len(Kept(s, S)) <= Len(s)
        /\ ToSet(Kept(s, S)) = ToSet(s) \cap S
    BY <2>1, KeptIs
  <2>3. \A l \in S : decodePolyIdTile(l.ref) # target
    BY DEF S
  <2>4. IsSeq(new[p])
    BY <2>1, <2>2, ElementsOf
  <2>5. QED  BY <2>1, <2>2, <2>3, <2>4 DEF s
<1>6. AreLinks(new, n)
  <2>1. DOMAIN new = 1 .. n
    BY <1>1 DEF AreLinks, new
  <2>2. QED  BY <1>5, <2>1 DEF AreLinks
<1> HIDE DEF old, n, r
<1>7. LinkCount(old) \in Nat /\ LinkCount(new) \in Nat /\ LinkCount(new) <= LinkCount(old)
  <2>1. n \in Nat /\ AreLinks(old, n)
    BY <1>1
  <2>2. LinkCount(new) <= LinkCount(old) /\ LinkCount(old) \in Nat
    <3>1. \A p \in 1 .. n : Len(new[p]) <= Len(old[p])
      BY <1>5
    <3>2. QED  BY <1>6, <2>1, <3>1, LinkCountOf
  <2>3. LinkCount(new) \in Nat
    BY <1>6, <2>1, LinkCountOf
  <2>4. QED  BY <2>2, <2>3
<1>8. r.free \in Nat
  BY <1>1
<1>9. free \in Nat /\ free + LinkCount(new) = r.free + LinkCount(old)
  <2> DEFINE a == r.free
             b == LinkCount(old)
             c == LinkCount(new)
  <2>1. a \in Nat /\ b \in Nat /\ c \in Nat /\ c <= b /\ free = a + b - c
    BY <1>7, <1>8 DEF free
  <2> HIDE DEF a, b, c
  <2>2. QED  BY <2>1 DEF a, b, c
<1>10. Follows(ts, us)
  BY <1>3, <1>5, <1>6, <1>9, OneChanged DEF n, old, r
<1>11. \A u \in Places \ {t} : us[u] = ts[u]
  BY <1>3 DEF Sane, SameBut
<1>12. ForgotBy(us, t, target)
  BY <1>3, <1>5 DEF ForgotBy, SameBut, n
<1>13. QED  BY <1>10, <1>11, <1>12 DEF us

LEMMA FreedKeeps ==
  ASSUME NEW ts, Sane(ts), NEW t, NEW near, Len(near) \in Nat,
         \A i \in 1 .. Len(near) : near[i][1] \in Used(ts)
  PROVE  /\ Follows(ts, Freed(ts, t, near))
         /\ \A i \in 1 .. Len(near) : ForgotBy(Freed(ts, t, near), near[i][1], t)
<1> DEFINE n == Len(near)
<1>1. PICK f : /\ Freed(ts, t, near) = f[Len(near)] /\ f[0] = ts
               /\ \A i \in 1 .. Len(near) : f[i] = unconnectLinks(f[i - 1], near[i][1], t)
  BY FreedRuns
<1> DEFINE G == {i \in Nat : i <= n => /\ Follows(ts, f[i])
                                       /\ \A j \in 1 .. n : j <= i => ForgotBy(f[i], near[j][1], t)}
<1>2. 0 \in G
  BY <1>1 DEF Follows, SameTiles
<1>3. ASSUME NEW i \in Nat, i \in G, i + 1 <= n
      PROVE  /\ Follows(ts, f[i + 1])
             /\ \A j \in 1 .. n : j <= i + 1 => ForgotBy(f[i + 1], near[j][1], t)
  <2> DEFINE us == f[i]
             vs == f[i + 1]
             u == near[i + 1][1]
  <2>1. /\ i + 1 \in 1 .. n /\ (i + 1) - 1 = i /\ Follows(ts, us) /\ u \in Used(ts)
        /\ \A j \in 1 .. n : j <= i => ForgotBy(us, near[j][1], t)
    BY <1>3
  <2>2. Sane(us) /\ u \in Used(us)
    BY <2>1, SameThere
  <2>3. vs = unconnectLinks(us, u, t)
    BY <1>1, <2>1
  <2>4. \A j \in 1 .. n : near[j][1] \in Places
    BY UsedIs
  <2> HIDE DEF us, vs
  <2>5. Follows(us, vs) /\ (\A v \in Places \ {u} : vs[v] = us[v]) /\ ForgotBy(vs, u, t)
    <3> HIDE DEF u
    <3>1. QED  BY <2>2, <2>3, UnconnectKeeps
  <2>6. Follows(ts, vs)
    BY <2>1, <2>5, FollowsOn
  <2>7. ASSUME NEW j \in 1 .. n, j <= i + 1
        PROVE  ForgotBy(vs, near[j][1], t)
    <3>1. CASE near[j][1] = u
      BY <2>5, <3>1
    <3>2. CASE near[j][1] # u
      <4>1. j # i + 1
        BY <3>2
      <4>2. j <= i
        BY <2>7, <4>1
      <4>3. ForgotBy(us, near[j][1], t) /\ vs[near[j][1]] = us[near[j][1]]
        BY <2>1, <2>4, <2>5, <3>2, <4>2
      <4>4. QED  BY <4>3 DEF ForgotBy
    <3>3. QED  BY <3>1, <3>2
  <2>8. QED  BY <2>6, <2>7 DEF vs
<1>4. \A i \in Nat : i \in G => i + 1 \in G
  BY <1>3
<1>5. Nat \subseteq G
  <2> HIDE DEF G
  <2>1. QED  BY <1>2, <1>4, Induction
<1>6. n \in G
  BY <1>5
<1>7. QED  BY <1>1, <1>6

-----------------------------------------------------------------------------
(* Places *)

Hashes == 0 .. LutSize - 1

LEMMA HashIs ==
  ASSUME NEW x \in Int, NEW y \in Int
  PROVE  computeTileHash(x, y) \in Hashes
<1>1. 3 * x + y \in Int /\ LutSize \in Nat \ {0}
  BY NavMeshAssumption
<1>2. QED  BY <1>1, Quotient DEF computeTileHash, Hashes

\* A sequence without repetition is as long as it has elements.
LEMMA UniqueCount ==
  ASSUME NEW T, NEW s \in Seq(T), Unique(s)
  PROVE  Cardinality(ToSet(s)) = Len(s)
<1>1. Len(s) \in Nat /\ DOMAIN s = 1 .. Len(s) /\ \A x : x \in ToSet(s) <=> \E i \in 1 .. Len(s) : s[i] = x
  BY ElementsOf
<1>2. s \in [1 .. Len(s) -> ToSet(s)]
  <2>1. s = [i \in 1 .. Len(s) |-> s[i]]
    BY <1>1
  <2>2. QED  BY <1>1, <2>1
<1>3. s \in Injection(1 .. Len(s), ToSet(s))
  BY <1>1, <1>2 DEF Injection, IsInjective, Unique
<1>4. s \in Surjection(1 .. Len(s), ToSet(s))
  BY <1>1, <1>2 DEF Surjection
<1>5. ExistsBijection(1 .. Len(s), ToSet(s))
  BY <1>3, <1>4 DEF Bijection, ExistsBijection
<1>6. QED  BY <1>1, <1>5, FS_CountingElements

\* A place that is used is in the list of its hash, one that is not is in the free list, once.
\* The tiles at (x, y), whatever their level.
On(ts, x, y) == {t \in Used(ts) : ts[t].data.x = x /\ ts[t].data.y = y}

LEMMA TilesAtAre ==
  ASSUME NEW ts, NEW lut \in [Hashes -> Seq(Places)], NEW x \in Int, NEW y \in Int
  PROVE  /\ TilesAt(ts, lut, x, y) \in Seq(On(ts, x, y))
         /\ ToSet(TilesAt(ts, lut, x, y)) = ToSet(lut[computeTileHash(x, y)]) \cap On(ts, x, y)
         /\ Unique(lut[computeTileHash(x, y)]) => Unique(TilesAt(ts, lut, x, y))
<1> DEFINE s == lut[computeTileHash(x, y)]
           S == On(ts, x, y)
           k == TilesAt(ts, lut, x, y)
<1>1. s \in Seq(Places) /\ k = Kept(s, S)
  BY HashIs DEF TilesAt, On
<1> HIDE DEF s, S, k
<1>2. k \in Seq(S) /\ ToSet(k) = ToSet(s) \cap S /\ (Unique(s) => Unique(k))
  BY <1>1, KeptIs
<1>3. QED  BY <1>2 DEF s, S, k

\* The first of a sequence are all when there are no more.
LEMMA FirstOfIs ==
  ASSUME NEW T, NEW s \in Seq(T), NEW n \in Nat \ {0}
  PROVE  FirstOf(s, n) \in Seq(T) /\ (Len(s) <= n => FirstOf(s, n) = s)
<1> DEFINE k == Least({Len(s), n})
<1>1. Len(s) \in Nat
  OBVIOUS
<1>2. k \in Nat /\ k <= Len(s) /\ (Len(s) <= n => k = Len(s))
  <2> DEFINE S == {Len(s), n}
  <2>1. \E a \in S : \A b \in S : a <= b
    BY <1>1
  <2>2. k \in S /\ \A b \in S : k <= b
    BY <2>1 DEF Least
  <2>3. QED  BY <1>1, <2>2
<1>3. FirstOf(s, n) = SubSeq(s, 1, k)
  BY DEF FirstOf
<1> HIDE DEF k
<1>4. SubSeq(s, 1, k) \in Seq(T)
  BY <1>1, <1>2
<1>5. SubSeq(s, 1, Len(s)) = s
  BY <1>1
<1>6. QED  BY <1>2, <1>3, <1>4, <1>5

LEMMA GotTilesAre ==
  ASSUME NEW ts, NEW lut \in [Hashes -> Seq(Places)], NEW x \in Int, NEW y \in Int
  PROVE  /\ getTilesAt(ts, lut, x, y) \in Seq(On(ts, x, y))
         /\ Len(TilesAt(ts, lut, x, y)) <= MAX_NEIS => getTilesAt(ts, lut, x, y) = TilesAt(ts, lut, x, y)
<1>1. TilesAt(ts, lut, x, y) \in Seq(On(ts, x, y)) /\ MAX_NEIS \in Nat \ {0}
  BY TilesAtAre, NavMeshAssumption
<1>2. QED  BY <1>1, FirstOfIs DEF getTilesAt

\* What is in one of some sequences is in all of them together.
LEMMA FlattenHas ==
  ASSUME NEW S, NEW w \in Seq(Seq(S)), NEW i \in 1 .. Len(w), NEW j \in 1 .. Len(w[i])
  PROVE  \E k \in 1 .. Len(FlattenSeq(w)) : FlattenSeq(w)[k] = w[i][j]
<1> DEFINE n == Len(w)
<1>1. n \in Nat /\ w # << >> /\ \A k \in 1 .. n : w[k] \in Seq(S)
  OBVIOUS
<1>2. PICK f : IsFlat(f, w, n) /\ FlattenSeq(w) = f[n]
  BY <1>1, FlattenRuns
<1>3. \A k \in 1 .. n : f[k] = IF k = 1 THEN w[k] ELSE f[k - 1] \o w[k]
  BY <1>2 DEF IsFlat
<1> DEFINE Has(k) == f[k] \in Seq(S) /\ (i <= k => \E l \in 1 .. Len(f[k]) : f[k][l] = w[i][j])
           G == {k \in Nat : k + 1 <= n => Has(k + 1)}
<1>4. 0 \in G
  <2>1. f[1] = w[1] /\ w[1] \in Seq(S) /\ (i <= 1 => i = 1)
    BY <1>1, <1>3
  <2>2. QED  BY <2>1
<1>5. ASSUME NEW m \in Nat, m \in G, (m + 1) + 1 <= n
      PROVE  Has((m + 1) + 1)
  <2> DEFINE k == m + 1
             a == f[k]
             b == w[k + 1]
             c == f[k + 1]
  <2>1. k \in 1 .. n /\ k + 1 \in 1 .. n /\ (k + 1) - 1 = k /\ k + 1 # 1 /\ Has(k)
    BY <1>1, <1>5
  <2>2. c = a \o b /\ a \in Seq(S) /\ b \in Seq(S)
    BY <1>1, <1>3, <2>1
  <2>3. /\ c \in Seq(S) /\ Len(c) = Len(a) + Len(b) /\ Len(a) \in Nat /\ Len(b) \in Nat
        /\ \A l \in 1 .. Len(a) : c[l] = a[l]
        /\ \A l \in 1 .. Len(b) : c[Len(a) + l] = b[l]
    <3> HIDE DEF a, b, c
    <3>1. QED  BY <2>2
  <2>4. ASSUME i <= k + 1
        PROVE  \E l \in 1 .. Len(c) : c[l] = w[i][j]
    <3>1. CASE i <= k
      <4>1. PICK l \in 1 .. Len(a) : a[l] = w[i][j]
        BY <2>1, <3>1
      <4> HIDE DEF a, c
      <4>2. l \in 1 .. Len(c) /\ c[l] = a[l]
        BY <2>3
      <4>3. QED  BY <4>1, <4>2
    <3>2. CASE i = k + 1
      <4>1. b = w[i]
        BY <3>2
      <4> HIDE DEF a, b, c
      <4>2. j \in 1 .. Len(b)
        BY <4>1
      <4>3. Len(a) + j \in 1 .. Len(c) /\ c[Len(a) + j] = b[j]
        BY <2>3, <4>2
      <4>4. QED  BY <4>1, <4>3
    <3>3. QED  BY <2>1, <2>4, <3>1, <3>2
  <2>5. QED  BY <2>3, <2>4
<1>6. \A m \in Nat : m \in G => m + 1 \in G
  BY <1>5
<1>7. Nat \subseteq G
  <2> HIDE DEF G
  <2>1. QED  BY <1>4, <1>6, Induction
<1>8. Has(n)
  <2>1. n - 1 \in Nat /\ (n - 1) + 1 = n
    BY <1>1
  <2>2. (n - 1) + 1 <= n => Has((n - 1) + 1)
    <3>1. n - 1 \in G
      BY <1>7, <2>1
    <3> HIDE DEF Has, n
    <3>2. QED  BY <3>1
  <2> HIDE DEF Has
  <2>3. QED  BY <1>1, <2>1, <2>2
<1>9. QED  BY <1>2, <1>8

\* The tiles found at (x, y), each with the side; what there is of other layers and on a side.
Tagged(found, side) == [n \in DOMAIN found |-> <<found[n], side>>]

Layers(ts, lut, t, x, y) == Tagged(Kept(getTilesAt(ts, lut, x, y), DOMAIN ts \ {t}), ONE_TILE)

OnSide(ts, lut, x, y, side) == Tagged(getNeighbourTilesAt(ts, lut, x, y, side), side)

Round(ts, lut, t, x, y) ==
    [i \in 1 .. 9 |-> IF i = 1 THEN Layers(ts, lut, t, x, y) ELSE OnSide(ts, lut, x, y, i - 2)]

\* A tile at a place or next to it, and a side.
Nearby(ts, x, y) == {e \in Used(ts) \X Int : Beside(ts[e[1]].data, x, y)}

LEMMA TaggedAre ==
  ASSUME NEW T, NEW found \in Seq(T), NEW side
  PROVE  /\ Len(Tagged(found, side)) = Len(found)
         /\ \A n \in 1 .. Len(found) : Tagged(found, side)[n] = <<found[n], side>>
         /\ Tagged(found, side) \in Seq(T \X {side})
<1> DEFINE w == Tagged(found, side)
<1>1. Len(found) \in Nat /\ DOMAIN found = 1 .. Len(found) /\ \A n \in 1 .. Len(found) : found[n] \in T
  OBVIOUS
<1>2. w = [n \in 1 .. Len(found) |-> w[n]] /\ \A n \in 1 .. Len(found) : w[n] = <<found[n], side>>
  BY <1>1 DEF Tagged
<1> HIDE DEF w
<1>3. \A n \in 1 .. Len(found) : w[n] \in T \X {side}
  <2>1. \A x \in T : <<x, side>> \in T \X {side}
    OBVIOUS
  <2>2. QED  BY <1>1, <1>2, <2>1, Zenon
<1>4. w \in Seq(T \X {side}) /\ Len(w) = Len(found)
  BY <1>1, <1>2, <1>3
<1>5. QED  BY <1>2, <1>4 DEF w

\* A step to a side is one of at most one along each axis.
LEMMA StepsAre ==
  \A s \in 0 .. 7 : SideStep[s][1] \in -1 .. 1 /\ SideStep[s][2] \in -1 .. 1
BY DEF SideStep

\* And there is one for each.
LEMMA StepTo ==
  ASSUME NEW a \in -1 .. 1, NEW b \in -1 .. 1, ~(a = 0 /\ b = 0)
  PROVE  \E s \in 0 .. 7 : SideStep[s][1] = a /\ SideStep[s][2] = b
<1>1. /\ SideStep[0][1] = 1 /\ SideStep[0][2] = 0 /\ SideStep[1][1] = 1 /\ SideStep[1][2] = 1
      /\ SideStep[2][1] = 0 /\ SideStep[2][2] = 1 /\ SideStep[3][1] = -1 /\ SideStep[3][2] = 1
      /\ SideStep[4][1] = -1 /\ SideStep[4][2] = 0 /\ SideStep[5][1] = -1 /\ SideStep[5][2] = -1
      /\ SideStep[6][1] = 0 /\ SideStep[6][2] = -1 /\ SideStep[7][1] = 1 /\ SideStep[7][2] = -1
  BY DEF SideStep
<1>2. (a = -1 \/ a = 0 \/ a = 1) /\ (b = -1 \/ b = 0 \/ b = 1)
  OBVIOUS
<1>3. CASE a = 1
  BY <1>1, <1>2, <1>3
<1>4. CASE a = 0
  BY <1>1, <1>2, <1>4
<1>5. CASE a = -1
  BY <1>1, <1>2, <1>5
<1>6. QED  BY <1>2, <1>3, <1>4, <1>5

\* What is a step away is beside.
LEMMA StepBeside ==
  ASSUME NEW ts, NEW x \in Int, NEW y \in Int, NEW a \in -1 .. 1, NEW b \in -1 .. 1, NEW u \in On(ts, x + a, y + b)
  PROVE  u \in Used(ts) /\ Beside(ts[u].data, x, y)
<1>1. u \in Used(ts) /\ ts[u].data.x = x + a /\ ts[u].data.y = y + b
  BY DEF On
<1>2. (x + a) - x \in -1 .. 1 /\ x - (x + a) \in -1 .. 1 /\ (y + b) - y \in -1 .. 1 /\ y - (y + b) \in -1 .. 1
  OBVIOUS
<1>3. QED  BY <1>1, <1>2 DEF Beside

LEMMA RoundIs ==
  ASSUME NEW ts, NEW lut \in [Hashes -> Seq(Places)], NEW t, NEW x \in Int, NEW y \in Int
  PROVE  /\ Round(ts, lut, t, x, y) \in Seq(Seq(Nearby(ts, x, y))) /\ Len(Round(ts, lut, t, x, y)) = 9
         /\ Neighbours(ts, lut, t, x, y) = FlattenSeq(Round(ts, lut, t, x, y))
<1> DEFINE E == Nearby(ts, x, y)
           w == Round(ts, lut, t, x, y)
<1>1. ASSUME NEW a \in -1 .. 1, NEW b \in -1 .. 1, NEW found \in Seq(On(ts, x + a, y + b)), NEW side \in Int
      PROVE  Tagged(found, side) \in Seq(E)
  <2>1. Tagged(found, side) \in Seq(On(ts, x + a, y + b) \X {side})
    BY TaggedAre
  <2>2. On(ts, x + a, y + b) \X {side} \subseteq E
    BY StepBeside DEF Nearby
  <2> DEFINE T == On(ts, x + a, y + b) \X {side}
             v == Tagged(found, side)
  <2> HIDE DEF T, v, E
  <2>3. v \in Seq(E)
    BY <2>1, <2>2 DEF v, T
  <2>4. QED  BY <2>3 DEF v
<1>2. Layers(ts, lut, t, x, y) \in Seq(E)
  <2> DEFINE s == getTilesAt(ts, lut, x, y)
             S == DOMAIN ts \ {t}
             k == Kept(s, S)
  <2>1. s \in Seq(On(ts, x, y))
    BY GotTilesAre
  <2> HIDE DEF s, S
  <2>2. k \in Seq(S) /\ ToSet(k) \subseteq ToSet(s) /\ ToSet(s) \subseteq On(ts, x, y)
    BY <2>1, KeptIs, ElementsOf
  <2> HIDE DEF k
  <2>3. k \in Seq(ToSet(k))
    BY <2>2, ElementsOf DEF IsSeq
  <2>4. k \in Seq(On(ts, x, y))
    BY <2>2, <2>3
  <2>5. k \in Seq(On(ts, x + 0, y + 0)) /\ ONE_TILE \in Int /\ 0 \in -1 .. 1
    <3>1. x + 0 = x /\ y + 0 = y
      OBVIOUS
    <3>2. QED  BY <2>4, <3>1 DEF ONE_TILE
  <2>6. Tagged(k, ONE_TILE) \in Seq(E)
    <3> HIDE DEF E
    <3>1. QED  BY <1>1, <2>5
  <2>7. QED  BY <2>6 DEF Layers, k, s, S
<1>3. ASSUME NEW side \in 0 .. 7
      PROVE  OnSide(ts, lut, x, y, side) \in Seq(E)
  <2> DEFINE a == SideStep[side][1]
             b == SideStep[side][2]
             found == getNeighbourTilesAt(ts, lut, x, y, side)
  <2>1. a \in -1 .. 1 /\ b \in -1 .. 1
    BY StepsAre
  <2>2. found = getTilesAt(ts, lut, x + a, y + b)
    BY DEF getNeighbourTilesAt
  <2> HIDE DEF a, b, found
  <2>3. x + a \in Int /\ y + b \in Int /\ side \in Int
    BY <2>1
  <2>4. found \in Seq(On(ts, x + a, y + b))
    BY <2>2, <2>3, GotTilesAre
  <2>5. Tagged(found, side) \in Seq(E)
    <3> HIDE DEF E
    <3>1. QED  BY <1>1, <2>1, <2>3, <2>4
  <2>6. QED  BY <2>5 DEF OnSide, found
<1>4. w \in Seq(Seq(E)) /\ Len(w) = 9
  <2>1. ASSUME NEW i \in 1 .. 9
        PROVE  w[i] \in Seq(E)
    <3> HIDE DEF E
    <3>1. CASE i = 1
      BY <1>2, <3>1 DEF Round
    <3>2. CASE i # 1
      <4>1. i - 2 \in 0 .. 7
        BY <3>2
      <4>2. w[i] = OnSide(ts, lut, x, y, i - 2)
        BY <3>2 DEF Round
      <4>3. QED  BY <1>3, <4>1, <4>2
    <3>3. QED  BY <3>1, <3>2
  <2>2. w = [i \in 1 .. 9 |-> w[i]]
    BY DEF Round
  <2> HIDE DEF w, E
  <2>3. QED  BY <2>1, <2>2
<1>5. Neighbours(ts, lut, t, x, y) = FlattenSeq(w)
  BY DEF Neighbours, Round, Layers, OnSide, Tagged
<1>6. QED  BY <1>4, <1>5

\* The neighbours of a place are at it or next to it.
LEMMA NeighboursAre ==
  ASSUME NEW ts, NEW lut \in [Hashes -> Seq(Places)], NEW t, NEW x \in Int, NEW y \in Int
  PROVE  LET near == Neighbours(ts, lut, t, x, y)
         IN  /\ Len(near) \in Nat
             /\ \A i \in 1 .. Len(near) : near[i][1] \in Used(ts) /\ Beside(ts[near[i][1]].data, x, y)
<1> DEFINE near == Neighbours(ts, lut, t, x, y)
<1>1. near \in Seq(Nearby(ts, x, y))
  BY RoundIs, FlattenType
<1> HIDE DEF near
<1>2. Len(near) \in Nat /\ \A i \in 1 .. Len(near) : near[i] \in Nearby(ts, x, y)
  BY <1>1
<1>3. QED  BY <1>2 DEF near, Nearby

\* And all that are there are among them, when no place has more than are looked at.
Reached(ts, lut, x, y, u) ==
  /\ lut \in [Hashes -> Seq(Places)] /\ x \in Int /\ y \in Int
  /\ u \in Used(ts) /\ ts[u].data.x \in Int /\ ts[u].data.y \in Int /\ Beside(ts[u].data, x, y)
  /\ u \in ToSet(lut[computeTileHash(ts[u].data.x, ts[u].data.y)])
  /\ Len(TilesAt(ts, lut, ts[u].data.x, ts[u].data.y)) <= MAX_NEIS

LEMMA NeighboursHave ==
  ASSUME NEW ts, NEW lut, NEW t, NEW x, NEW y, NEW u, u # t, Reached(ts, lut, x, y, u)
  PROVE  \E i \in 1 .. Len(Neighbours(ts, lut, t, x, y)) : Neighbours(ts, lut, t, x, y)[i][1] = u
<1>0. /\ lut \in [Hashes -> Seq(Places)] /\ x \in Int /\ y \in Int
      /\ u \in Used(ts) /\ ts[u].data.x \in Int /\ ts[u].data.y \in Int /\ Beside(ts[u].data, x, y)
      /\ u \in ToSet(lut[computeTileHash(ts[u].data.x, ts[u].data.y)])
      /\ Len(TilesAt(ts, lut, ts[u].data.x, ts[u].data.y)) <= MAX_NEIS
  BY DEF Reached
<1> USE <1>0
<1> DEFINE a == ts[u].data.x - x
           b == ts[u].data.y - y
           w == Round(ts, lut, t, x, y)
           s == getTilesAt(ts, lut, ts[u].data.x, ts[u].data.y)
<1>1. a \in -1 .. 1 /\ b \in -1 .. 1 /\ x + a = ts[u].data.x /\ y + b = ts[u].data.y
  BY ONLY <1>0 DEF Beside
<1>2. s \in Seq(Used(ts)) /\ u \in ToSet(s)
  <2> DEFINE p == ts[u].data.x
             q == ts[u].data.y
  <2>1. u \in On(ts, p, q) /\ On(ts, p, q) \subseteq Used(ts) /\ p \in Int /\ q \in Int
    BY DEF On
  <2> HIDE DEF p, q
  <2>2. getTilesAt(ts, lut, p, q) \in Seq(On(ts, p, q)) /\ getTilesAt(ts, lut, p, q) = TilesAt(ts, lut, p, q)
    BY <2>1, GotTilesAre DEF p, q
  <2>3. ToSet(TilesAt(ts, lut, p, q)) = ToSet(lut[computeTileHash(p, q)]) \cap On(ts, p, q)
    BY <2>1, TilesAtAre
  <2>4. u \in ToSet(getTilesAt(ts, lut, p, q))
    BY <2>1, <2>2, <2>3 DEF p, q
  <2>5. getTilesAt(ts, lut, p, q) \in Seq(Used(ts))
    BY <2>1, <2>2
  <2>6. QED  BY <2>4, <2>5 DEF p, q
<1>3. w \in Seq(Seq(Nearby(ts, x, y))) /\ Len(w) = 9 /\ Neighbours(ts, lut, t, x, y) = FlattenSeq(w)
  BY RoundIs
<1>4. \E i \in 1 .. 9 : \E j \in 1 .. Len(w[i]) : w[i][j][1] = u
  <2>1. CASE a = 0 /\ b = 0
    <3> DEFINE S == DOMAIN ts \ {t}
               k == Kept(s, S)
    <3>1. u \in S /\ w[1] = Tagged(k, ONE_TILE)
      <4>1. ts[u].data.x = x /\ ts[u].data.y = y
        BY <1>1, <2>1
      <4>2. u \in S
        BY DEF Used
      <4>3. w[1] = Layers(ts, lut, t, x, y)
        BY DEF Round
      <4>4. QED  BY <4>1, <4>2, <4>3 DEF Layers
    <3> HIDE DEF s, S, w
    <3>2. k \in Seq(S) /\ ToSet(k) = ToSet(s) \cap S
      BY <1>2, KeptIs
    <3> HIDE DEF k
    <3>3. PICK j \in 1 .. Len(k) : k[j] = u
      BY <1>2, <3>1, <3>2, ElementsOf
    <3>4. Len(w[1]) = Len(k) /\ w[1][j] = <<k[j], ONE_TILE>>
      <4>1. /\ Len(Tagged(k, ONE_TILE)) = Len(k)
            /\ \A n \in 1 .. Len(k) : Tagged(k, ONE_TILE)[n] = <<k[n], ONE_TILE>>
        BY <3>2, TaggedAre
      <4>2. QED  BY <3>1, <4>1
    <3>5. QED  BY <3>3, <3>4
  <2>2. CASE ~(a = 0 /\ b = 0)
    <3>1. PICK side \in 0 .. 7 : SideStep[side][1] = a /\ SideStep[side][2] = b
      <4> HIDE DEF a, b
      <4>1. a \in -1 .. 1 /\ b \in -1 .. 1
        BY <1>1
      <4>2. QED  BY ONLY <2>2, <4>1, StepTo, Zenon
    <3>2. w[side + 2] = Tagged(s, side) /\ side + 2 \in 1 .. 9
      <4>1. side + 2 \in 1 .. 9 /\ side + 2 # 1 /\ (side + 2) - 2 = side
        OBVIOUS
      <4>2. w[side + 2] = OnSide(ts, lut, x, y, side)
        BY <4>1 DEF Round
      <4>3. QED  BY <1>1, <3>1, <4>1, <4>2 DEF OnSide, getNeighbourTilesAt
    <3> HIDE DEF s, w
    <3>3. PICK j \in 1 .. Len(s) : s[j] = u
      BY <1>2, ElementsOf
    <3>4. Len(w[side + 2]) = Len(s) /\ w[side + 2][j] = <<s[j], side>>
      <4>1. /\ Len(Tagged(s, side)) = Len(s)
            /\ \A n \in 1 .. Len(s) : Tagged(s, side)[n] = <<s[n], side>>
        BY <1>2, TaggedAre
      <4>2. QED  BY <3>2, <4>1
    <3>5. w[side + 2][j][1] = u /\ j \in 1 .. Len(w[side + 2])
      BY ONLY <3>3, <3>4
    <3>6. QED  BY ONLY <3>2, <3>5, Zenon
  <2>3. QED  BY <2>1, <2>2
<1> HIDE DEF w
<1>5. PICK i \in 1 .. Len(w) : \E l \in 1 .. Len(w[i]) : w[i][l][1] = u
  BY <1>3, <1>4
<1>6. PICK j \in 1 .. Len(w[i]) : w[i][j][1] = u
  BY <1>5
<1>7. \E k \in 1 .. Len(FlattenSeq(w)) : FlattenSeq(w)[k] = w[i][j]
  <2> DEFINE E == Nearby(ts, x, y)
  <2>1. w \in Seq(Seq(E))
    BY <1>3
  <2> HIDE DEF E
  <2>2. QED  BY <2>1, FlattenHas
<1>8. QED  BY <1>3, <1>6, <1>7

-----------------------------------------------------------------------------
(* References *)

Salts == 1 .. SaltSpan - 1

LEMMA SpansAre ==
  /\ TileSpan \in Nat \ {0} /\ PolySpan \in Nat \ {0} /\ SaltSpan \in Nat /\ SaltSpan > 1
  /\ MaxTiles \in Nat /\ MaxTiles <= TileSpan /\ LutSize \in Nat \ {0}
BY NavMeshAssumption

\* What is in a reference can be read from it.
LEMMA DecodeRef ==
  ASSUME NEW salt \in Salts, NEW t \in 0 .. TileSpan - 1, NEW p \in 1 .. PolySpan
  PROVE  LET ref == encodePolyId(salt, t, p)
         IN  ref \in Nat \ {0} /\ decodePolyIdTile(ref) = t /\ decodePolyIdSalt(ref) = salt
             /\ decodePolyIdPoly(ref) = p
<1> DEFINE a == salt * TileSpan + t
           ref == encodePolyId(salt, t, p)
<1>1. salt \in Nat \ {0} /\ salt < SaltSpan /\ t \in Nat /\ t < TileSpan
  BY SpansAre DEF Salts
<1>2. salt * TileSpan \in Nat /\ salt * TileSpan >= TileSpan
  <2>1. 1 * TileSpan <= salt * TileSpan /\ salt * TileSpan \in Nat
    BY <1>1, SpansAre, Products
  <2>2. QED  BY <2>1, SpansAre
<1>3. a \in Nat \ {0} /\ a \div TileSpan = salt /\ a % TileSpan = t
  <2>1. a \in Nat \ {0} /\ salt * TileSpan <= a /\ a < salt * TileSpan + TileSpan /\ a - salt * TileSpan = t
    BY <1>1, <1>2, SpansAre
  <2>2. QED  BY <1>1, <2>1, SpansAre, QuotientUnique
<1>4. ref = a * PolySpan + (p - 1) /\ p - 1 \in Nat /\ p - 1 < PolySpan
  BY SpansAre DEF encodePolyId
<1> HIDE DEF ref, a
<1>5. ref \in Nat \ {0} /\ ref \div PolySpan = a /\ ref % PolySpan = p - 1
  <2> DEFINE b == a * PolySpan
  <2>1. 1 * PolySpan <= b /\ b \in Nat
    BY <1>3, SpansAre, Products
  <2> HIDE DEF b
  <2>2. ref = b + (p - 1)
    BY <1>4 DEF b
  <2>3. ref \in Nat \ {0} /\ b <= ref /\ ref < b + PolySpan /\ ref - b = p - 1
    BY <1>4, <2>1, <2>2, SpansAre
  <2>4. ref \div PolySpan = a /\ ref % PolySpan = ref - b
    <3>1. a \in Int /\ ref \in Int /\ PolySpan \in Nat \ {0}
      BY <1>3, <2>3, SpansAre
    <3>2. a * PolySpan <= ref /\ ref < a * PolySpan + PolySpan
      BY <2>3 DEF b
    <3>3. ref \div PolySpan = a /\ ref % PolySpan = ref - a * PolySpan
      BY ONLY <3>1, <3>2, QuotientUnique
    <3>4. QED  BY <3>3 DEF b
  <2>5. QED  BY <2>3, <2>4
<1>6. salt % SaltSpan = salt
  <2>1. 0 * SaltSpan = 0
    BY SpansAre
  <2>2. salt % SaltSpan = salt - 0 * SaltSpan
    <3>1. /\ 0 * SaltSpan <= salt /\ salt < 0 * SaltSpan + SaltSpan
          /\ salt \in Int /\ SaltSpan \in Nat \ {0} /\ 0 \in Int
      BY <1>1, <2>1, SpansAre
    <3>2. QED  BY ONLY <3>1, QuotientUnique
  <2>3. QED  BY <1>1, <2>1, <2>2
<1>7. decodePolyIdTile(ref) = t /\ decodePolyIdSalt(ref) = salt
  BY <1>3, <1>5, <1>6 DEF decodePolyIdTile, decodePolyIdSalt
<1>8. decodePolyIdPoly(ref) = p
  BY <1>5 DEF decodePolyIdPoly
<1>9. QED  BY <1>5, <1>7, <1>8 DEF ref

LEMMA DecodeIs ==
  ASSUME NEW salt \in Salts, NEW t \in 0 .. TileSpan - 1
  PROVE  LET ref == encodePolyId(salt, t, 1)
         IN  ref \in Nat \ {0} /\ decodePolyIdTile(ref) = t /\ decodePolyIdSalt(ref) = salt
<1>1. 1 \in 1 .. PolySpan
  BY SpansAre
<1>2. QED  BY <1>1, DecodeRef

\* Whatever a number is a reference to, that is a place and a salt.
LEMMA DecodeType ==
  ASSUME NEW ref \in Int
  PROVE  decodePolyIdTile(ref) \in 0 .. TileSpan - 1
<1>1. ref \div PolySpan \in Int
  BY SpansAre, Quotient
<1>2. QED  BY <1>1, SpansAre, Quotient DEF decodePolyIdTile

\* References to the first polygon of a tile are the same when tile and salt are.
LEMMA SameRef ==
  ASSUME NEW s \in Salts, NEW t \in 0 .. TileSpan - 1, NEW r \in Salts, NEW u \in 0 .. TileSpan - 1,
         encodePolyId(s, t, 1) = encodePolyId(r, u, 1)
  PROVE  s = r /\ t = u
BY DecodeIs

\* A place is a number that fits a reference.
LEMMA PlacesFit ==
  Places \subseteq 0 .. TileSpan - 1
BY SpansAre DEF Places

\* The next salt is greater, but for the greatest.
LEMMA NextSaltIs ==
  ASSUME NEW salt \in Salts
  PROVE  NextSalt(salt) \in Salts /\ (salt # SaltSpan - 1 => NextSalt(salt) = salt + 1)
<1>1. salt \in Nat \ {0} /\ salt + 1 <= SaltSpan /\ SaltSpan \in Nat \ {0} /\ SaltSpan > 1
  BY SpansAre DEF Salts
<1>2. CASE salt + 1 = SaltSpan
  <2>1. (1 * SaltSpan) % SaltSpan = 0 /\ 1 * SaltSpan = SaltSpan
    BY <1>1, Multiple
  <2>2. NextSalt(salt) = 1
    BY <1>2, <2>1 DEF NextSalt
  <2>3. QED  BY <1>1, <1>2, <2>2 DEF Salts
<1>3. CASE salt + 1 < SaltSpan
  <2>1. 0 * SaltSpan = 0
    BY <1>1
  <2>2. (salt + 1) % SaltSpan = (salt + 1) - 0 * SaltSpan
    <3>1. 0 * SaltSpan <= salt + 1 /\ salt + 1 < 0 * SaltSpan + SaltSpan /\ salt + 1 \in Int
      BY <1>1, <1>3, <2>1
    <3>2. QED  BY <1>1, <3>1, QuotientUnique
  <2>3. (salt + 1) % SaltSpan = salt + 1
    BY <1>1, <2>1, <2>2
  <2>4. NextSalt(salt) = salt + 1
    BY <1>1, <2>3 DEF NextSalt
  <2>5. QED  BY <1>1, <1>3, <2>4 DEF Salts
<1>4. QED  BY <1>1, <1>2, <1>3

-----------------------------------------------------------------------------
(* The invariant *)

TableInv ==
    /\ Sane(tiles)
    /\ \A t \in Places : tiles[t].salt \in Salts
    /\ \A t \in Used(tiles) : Len(tiles[t].data.polys) <= PolySpan

FreeInv == nextFree \in Seq(Places) /\ Unique(nextFree) /\ ToSet(nextFree) = Places \ Used(tiles)

HashOf(ts, t) == computeTileHash(ts[t].data.x, ts[t].data.y)

LookupInv ==
    /\ posLookup \in [Hashes -> Seq(Places)]
    /\ \A h \in Hashes : Unique(posLookup[h]) /\ ToSet(posLookup[h]) = {t \in Used(tiles) : HashOf(tiles, t) = h}

PlaceOf(ts, t) == <<ts[t].data.x, ts[t].data.y, ts[t].data.layer>>

PlaceInv == \A t, u \in Used(tiles) : PlaceOf(tiles, t) = PlaceOf(tiles, u) => t = u

\* What was handed out, and that the tile it was for is there or its salt has gone on.
IsGiven(g) ==
    /\ g = [ref |-> g.ref, name |-> g.name] /\ g.name \in Names
    /\ \E s \in Salts, t \in Places : g.ref = encodePolyId(s, t, 1)

RefTold(ts, g) ==
    LET t == decodePolyIdTile(g.ref)  s == decodePolyIdSalt(g.ref)
    IN  IF ts[t].name = None THEN s < ts[t].salt
                             ELSE s < ts[t].salt \/ (s = ts[t].salt /\ ts[t].name = g.name)

RefsInv ==
    /\ \A g \in given : IsGiven(g)
    /\ ~back => /\ \A g \in given : RefTold(tiles, g)
                /\ \A g, h \in given : g.ref = h.ref => g = h

\* Every link goes to a polygon of a tile that is there, at the place of its own or next to it.
LinksInv == FewLayers => LinksOk(tiles)

MeshInv == TableInv /\ FreeInv /\ LookupInv /\ PlaceInv /\ RefsInv /\ LinksInv

\* The place of a tile that is there can be looked up.
LEMMA PlaceIs ==
  ASSUME TableInv, NEW t \in Used(tiles)
  PROVE  /\ tiles[t].data.x \in Int /\ tiles[t].data.y \in Int /\ t \in Places
         /\ tiles[t].name \in Names /\ tiles[t].salt \in Salts /\ HashOf(tiles, t) \in Hashes
<1>1. t \in Places /\ Counted(tiles[t]) /\ WellFormed(tiles[t].data)
  BY UsedIs DEF TableInv
<1>2. tiles[t].data.x \in Int /\ tiles[t].data.y \in Int
  BY <1>1 DEF WellFormed
<1>3. QED  BY <1>1, <1>2, HashIs DEF TableInv, Counted, HashOf

\* The tiles on a level, and those at a place.
OnLevel(layer) == {t \in Used(tiles) : tiles[t].data.layer = layer}
AtPlace(x, y, layer) == {t \in Used(tiles) : PlaceOf(tiles, t) = <<x, y, layer>>}

\* Looking up a place and a level finds what is there.
LEMMA LookupIs ==
  ASSUME TableInv, LookupInv, NEW x \in Int, NEW y \in Int, NEW layer
  PROVE  /\ Unique(TilesAt(tiles, posLookup, x, y)) /\ TilesAt(tiles, posLookup, x, y) \in Seq(Used(tiles))
         /\ ToSet(TilesAt(tiles, posLookup, x, y)) \cap OnLevel(layer) = AtPlace(x, y, layer)
<1> DEFINE h == computeTileHash(x, y)
           s == TilesAt(tiles, posLookup, x, y)
<1>1. h \in Hashes
  BY HashIs
<1>2. posLookup \in [Hashes -> Seq(Places)] /\ Unique(posLookup[h])
      /\ ToSet(posLookup[h]) = {t \in Used(tiles) : HashOf(tiles, t) = h}
  BY <1>1 DEF LookupInv
<1>3. /\ s \in Seq(Used(tiles)) /\ Unique(s)
      /\ ToSet(s) = ToSet(posLookup[h]) \cap {t \in Used(tiles) : tiles[t].data.x = x /\ tiles[t].data.y = y}
  <2>1. posLookup \in [Hashes -> Seq(Places)]
    BY <1>2
  <2>2. /\ TilesAt(tiles, posLookup, x, y) \in Seq(On(tiles, x, y))
        /\ ToSet(TilesAt(tiles, posLookup, x, y)) = ToSet(posLookup[computeTileHash(x, y)]) \cap On(tiles, x, y)
        /\ Unique(posLookup[computeTileHash(x, y)]) => Unique(TilesAt(tiles, posLookup, x, y))
    BY <2>1, TilesAtAre
  <2>3. On(tiles, x, y) \subseteq Used(tiles)
    BY DEF On
  <2> HIDE DEF s
  <2>4. s \in Seq(On(tiles, x, y))
    BY <2>2 DEF s
  <2>5. s \in Seq(Used(tiles))
    BY <2>3, <2>4
  <2>6. QED  BY <1>2, <2>2, <2>5 DEF s, On
<1>4. \A t \in Used(tiles) : tiles[t].data.x = x /\ tiles[t].data.y = y => HashOf(tiles, t) = h
  BY DEF HashOf
<1> HIDE DEF h, s
<1>5. ToSet(s) = {t \in Used(tiles) : tiles[t].data.x = x /\ tiles[t].data.y = y}
  BY <1>2, <1>3, <1>4
<1>6. \A t \in Used(tiles) : PlaceOf(tiles, t) = <<x, y, layer>>
                              <=> tiles[t].data.x = x /\ tiles[t].data.y = y /\ tiles[t].data.layer = layer
  BY DEF PlaceOf
<1>7. ToSet(s) \cap OnLevel(layer) = AtPlace(x, y, layer)
  BY <1>5, <1>6 DEF OnLevel, AtPlace
<1>8. QED  BY <1>3, <1>7 DEF s

\* A blank tile is one.
\* The levels there are at the place of what a tile is loaded from.
LayersOf(d) ==
    {DataOf(e).layer : e \in {f \in Names : DataOf(f).x = DataOf(d).x /\ DataOf(f).y = DataOf(d).y}}

\* There are no more tiles at a place than levels.
LEMMA LayersFit ==
  ASSUME TableInv, PlaceInv, FewLayers, NEW x \in Int, NEW y \in Int, NEW s \in Seq(On(tiles, x, y)), Unique(s)
  PROVE  Len(s) <= MAX_NEIS
<1> DEFINE n == Len(s)
<1>1. n \in Nat /\ DOMAIN s = 1 .. n /\ \A i \in 1 .. n : s[i] \in On(tiles, x, y)
  OBVIOUS
<1>2. CASE n = 0
  BY <1>2, NavMeshAssumption
<1>3. CASE n # 0
  <2> DEFINE d == tiles[s[1]].name
             L == LayersOf(d)
             g == [i \in 1 .. n |-> tiles[s[i]].data.layer]
  <2>1. ASSUME NEW i \in 1 .. n
        PROVE  /\ s[i] \in Used(tiles) /\ tiles[s[i]].data.x = x /\ tiles[s[i]].data.y = y
               /\ tiles[s[i]].name \in Names /\ tiles[s[i]].data = DataOf(tiles[s[i]].name)
    <3>1. s[i] \in Used(tiles) /\ tiles[s[i]].data.x = x /\ tiles[s[i]].data.y = y
      BY <1>1 DEF On
    <3>2. Counted(tiles[s[i]])
      BY <3>1, UsedIs DEF TableInv
    <3>3. QED  BY <3>1, <3>2 DEF Counted
  <2>2. d \in Names /\ DataOf(d).x = x /\ DataOf(d).y = y
    <3>1. 1 \in 1 .. n
      BY <1>1, <1>3
    <3>2. QED  BY <2>1, <3>1
  <2>3. IsFiniteSet(L) /\ Cardinality(L) <= MAX_NEIS
    BY <2>2 DEF FewLayers, LayersOf
  <2> HIDE DEF d
  <2>4. \A i \in 1 .. n : g[i] \in L
    BY <2>1, <2>2 DEF LayersOf
  <2>5. \A i, j \in 1 .. n : g[i] = g[j] => i = j
    <3>1. SUFFICES ASSUME NEW i \in 1 .. n, NEW j \in 1 .. n, g[i] = g[j]
                   PROVE  i = j
      OBVIOUS
    <3>2. PlaceOf(tiles, s[i]) = PlaceOf(tiles, s[j])
      BY <2>1, <3>1 DEF PlaceOf
    <3>3. s[i] = s[j]
      BY <2>1, <3>2 DEF PlaceInv
    <3>4. QED  BY <1>1, <3>3 DEF Unique
  <2> HIDE DEF L
  <2>6. g \in Injection(1 .. n, L)
    <3>1. g \in [1 .. n -> L]
      BY <2>4
    <3> HIDE DEF g
    <3>2. QED  BY <2>5, <3>1 DEF Injection, IsInjective
  <2>7. Cardinality(1 .. n) = n
    BY <1>1, FS_Interval
  <2>8. Cardinality(1 .. n) <= Cardinality(L) /\ Cardinality(L) \in Nat
    BY <2>3, <2>6, FS_Injection, FS_CardinalityType
  <2>9. MAX_NEIS \in Nat
    BY NavMeshAssumption
  <2>10. QED  BY <1>1, <2>3, <2>7, <2>8, <2>9
<1>4. QED  BY <1>2, <1>3

LEMMA BlankIs ==
  ASSUME NEW salt
  PROVE  IsTile(Blank(salt)) /\ Blank(salt).name = None /\ Blank(salt).salt = salt
BY DEF IsTile, Blank

\* The mesh is empty at first.
LEMMA MeshInitHolds ==
  ASSUME MeshInit
  PROVE  MeshInv
<1>1. /\ tiles = [t \in Places |-> Blank(1)] /\ nextFree = [i \in 1 .. MaxTiles |-> i - 1]
      /\ posLookup = [h \in Hashes |-> << >>] /\ given = {}
  BY DEF MeshInit, Places, Hashes
<1>2. \A t \in Places : IsTile(tiles[t]) /\ tiles[t].name = None /\ tiles[t].salt = 1
  BY <1>1, BlankIs
<1>3. Used(tiles) = {}
  BY <1>1, <1>2 DEF Used
<1>4. TableInv
  BY <1>1, <1>2, <1>3, SpansAre DEF TableInv, Sane, Salts
<1>5. FreeInv
  <2>1. MaxTiles \in Nat
    BY SpansAre
  <2>2. nextFree \in Seq(Places)
    BY <1>1, <2>1 DEF Places
  <2>3. Unique(nextFree)
    BY <1>1, <2>1 DEF Unique
  <2>4. \A t \in Places : t + 1 \in 1 .. MaxTiles /\ nextFree[t + 1] = t
    BY <1>1, <2>1 DEF Places
  <2>5. DOMAIN nextFree = 1 .. MaxTiles
    BY <1>1
  <2>6. Places \subseteq ToSet(nextFree)
    BY <2>4, <2>5 DEF ToSet
  <2>7. ToSet(nextFree) \subseteq Places
    BY <2>2, ElementsOf
  <2>8. QED  BY <1>3, <2>2, <2>3, <2>6, <2>7 DEF FreeInv
<1>6. LookupInv
  <2>1. \A h \in Hashes : posLookup[h] = << >>
    BY <1>1
  <2>2. << >> \in Seq(Places) /\ DOMAIN << >> = {}
    OBVIOUS
  <2>3. posLookup \in [Hashes -> Seq(Places)]
    BY <1>1, <2>2
  <2>4. Unique(<< >>) /\ ToSet(<< >>) = {}
    BY <2>2 DEF Unique, ToSet
  <2>5. QED  BY <1>3, <2>1, <2>3, <2>4 DEF LookupInv
<1>7. PlaceInv /\ RefsInv /\ LinksInv
  BY <1>1, <1>3 DEF PlaceInv, RefsInv, LinksInv, LinksOk
<1>8. QED  BY <1>4, <1>5, <1>6, <1>7 DEF MeshInv

\* Polygons and links may change.
LEMMA InsideKeeps ==
  ASSUME MeshInv, Follows(tiles, tiles'), UNCHANGED <<nextFree, posLookup, given, back>>
  PROVE  MeshInv'
<1>1. /\ TableInv /\ Sane(tiles) /\ Sane(tiles')
      /\ \A t \in Places : tiles'[t].salt = tiles[t].salt /\ tiles'[t].name = tiles[t].name /\ tiles'[t].data = tiles[t].data
  BY DEF MeshInv, TableInv, Follows, SameTiles
<1>2. Used(tiles') = Used(tiles) /\ Used(tiles) \subseteq Places
  BY <1>1, UsedFollow, UsedIs
<1>3. TableInv'
  BY <1>1, <1>2 DEF TableInv
<1>4. FreeInv'
  BY <1>2 DEF MeshInv, FreeInv
<1>5. \A t \in Used(tiles) : HashOf(tiles', t) = HashOf(tiles, t) /\ PlaceOf(tiles', t) = PlaceOf(tiles, t)
  BY <1>1, <1>2 DEF HashOf, PlaceOf
<1>6. LookupInv'
  BY <1>2, <1>5 DEF MeshInv, LookupInv
<1>7. PlaceInv'
  BY <1>2, <1>5 DEF MeshInv, PlaceInv
<1>8. RefsInv'
  <2>1. RefsInv
    BY DEF MeshInv
  <2>2. ASSUME NEW g \in given, RefTold(tiles, g)
        PROVE  RefTold(tiles', g)
    <3>1. decodePolyIdTile(g.ref) \in Places
      <4>1. PICK s \in Salts, t \in Places : g.ref = encodePolyId(s, t, 1)
        BY <2>1 DEF RefsInv, IsGiven
      <4>2. QED  BY <4>1, DecodeIs, PlacesFit
    <3>2. QED  BY <1>1, <2>2, <3>1 DEF RefTold
  <2>3. QED  BY <2>1, <2>2 DEF RefsInv
<1>9. LinksInv'
  BY DEF MeshInv, LinksInv, Follows
<1>10. QED  BY <1>3, <1>4, <1>6, <1>7, <1>8, <1>9 DEF MeshInv

\* One more at the head.
LEMMA PrependIs ==
  ASSUME NEW S, NEW s \in Seq(S), NEW t \in S, t \notin ToSet(s), Unique(s)
  PROVE  /\ <<t>> \o s \in Seq(S) /\ Len(<<t>> \o s) = Len(s) + 1
         /\ Unique(<<t>> \o s) /\ ToSet(<<t>> \o s) = ToSet(s) \cup {t}
<1> DEFINE w == <<t>> \o s
<1>1. w \in Seq(S) /\ Len(w) = Len(s) + 1
  OBVIOUS
<1>2. Len(s) \in Nat /\ DOMAIN s = 1 .. Len(s) /\ \A u : u \in ToSet(s) <=> \E i \in 1 .. Len(s) : s[i] = u
  BY ElementsOf
<1>3. DOMAIN w = 1 .. Len(s) + 1 /\ w[1] = t /\ \A i \in 2 .. Len(s) + 1 : w[i] = s[i - 1]
  BY <1>2
<1> HIDE DEF w
<1>4. \A l \in 2 .. Len(s) + 1 : l - 1 \in 1 .. Len(s) /\ w[l] = s[l - 1] /\ w[l] \in ToSet(s)
  BY <1>2, <1>3
<1>5. \A l \in 1 .. Len(s) + 1 : l = 1 \/ l \in 2 .. Len(s) + 1
  BY <1>2
<1>6. Unique(w)
  <2>1. SUFFICES ASSUME NEW i \in 1 .. Len(s) + 1, NEW j \in 1 .. Len(s) + 1, w[i] = w[j]
                 PROVE  i = j
    BY <1>3 DEF Unique
  <2>2. CASE i = 1 \/ j = 1
    BY <1>3, <1>4, <1>5, <2>1, <2>2
  <2>3. CASE i # 1 /\ j # 1
    <3>1. i - 1 \in DOMAIN s /\ j - 1 \in DOMAIN s /\ s[i - 1] = s[j - 1]
      BY <1>2, <1>4, <1>5, <2>1, <2>3
    <3>2. i - 1 = j - 1
      BY <3>1 DEF Unique
    <3>3. QED  BY <3>2, <1>2
  <2>4. QED  BY <2>2, <2>3
<1>7. ToSet(w) = ToSet(s) \cup {t}
  <2>1. \A i \in 1 .. Len(s) : i + 1 \in DOMAIN w /\ w[i + 1] = s[i]
    <3>1. \A i \in 1 .. Len(s) : i + 1 \in 2 .. Len(s) + 1 /\ (i + 1) - 1 = i /\ i + 1 \in 1 .. Len(s) + 1
      BY <1>2
    <3>2. QED  BY <1>3, <3>1
  <2>2. 1 \in DOMAIN w
    BY <1>2, <1>3
  <2>3. ToSet(w) \subseteq ToSet(s) \cup {t}
    BY <1>3, <1>4, <1>5 DEF ToSet
  <2>4. ToSet(s) \subseteq ToSet(w)
    BY <1>2, <2>1 DEF ToSet
  <2>5. t \in ToSet(w)
    BY <1>3, <2>2 DEF ToSet
  <2>6. QED  BY <2>3, <2>4, <2>5
<1>8. QED  BY <1>1, <1>6, <1>7 DEF w

\* A tile comes in at a free place, with a salt.
LEMMA InsertKeeps ==
  ASSUME MeshInv, NEW d \in Names, NEW t \in Places, NEW salt \in Salts, tiles[t].name = None,
         Insert(d, DataOf(d), t, salt),
         nextFree' \in Seq(Places), Unique(nextFree'), ToSet(nextFree') = ToSet(nextFree) \ {t},
         ~back' => ~back /\ ~(salt < tiles[t].salt)
  PROVE  MeshInv'
<1> DEFINE data == DataOf(d)
           h == computeTileHash(data.x, data.y)
           lut == [posLookup EXCEPT ![h] = <<t>> \o @]
           ts == Loaded(tiles, t, salt, d, data)
           near == Neighbours(ts, lut, t, data.x, data.y)
           n == Len(data.polys)
           r == [salt |-> salt, name |-> d, data |-> data, polys |-> data.polys,
                 links |-> [p \in DOMAIN data.polys |-> << >>], free |-> data.maxLinkCount, dry |-> FALSE]
<1>1. /\ TableInv /\ FreeInv /\ LookupInv /\ PlaceInv /\ RefsInv /\ LinksInv /\ Sane(tiles) /\ DOMAIN tiles = Places
      /\ d # None /\ t \notin Used(tiles)
  BY SourceAssumption DEF MeshInv, TableInv, Sane, Used
<1>2. /\ getTileAt(tiles, posLookup, data.x, data.y, data.layer) = << >>
      /\ tiles' = Connected(ts, t, near) /\ posLookup' = lut
      /\ given' = given \cup {[ref |-> encodePolyId(salt, t, 1), name |-> d]}
      /\ Len(data.polys) <= PolySpan
  BY DEF Insert, Fits
<1>3. /\ data.x \in Int /\ data.y \in Int /\ data.maxLinkCount \in Nat /\ n \in Nat /\ DOMAIN data.polys = 1 .. n
      /\ h \in Hashes
  <2>1. WellFormed(data)
    BY SourceAssumption
  <2>2. data.x \in Int /\ data.y \in Int /\ data.maxLinkCount \in Nat /\ IsSeq(data.polys)
    BY <2>1 DEF WellFormed
  <2>3. QED  BY <2>2, HashIs DEF IsSeq
<1> HIDE DEF data, h, near
<1>4. DOMAIN ts = Places /\ ts[t] = r /\ \A u \in Places \ {t} : ts[u] = tiles[u]
  BY <1>1 DEF Loaded
<1> HIDE DEF ts
<1>5. IsTile(ts[t]) /\ Counted(ts[t])
  <2> DEFINE links == [p \in DOMAIN data.polys |-> << >>]
  <2>1. AreLinks(links, n) /\ \A p \in 1 .. n : links[p] = << >>
    <3>1. DOMAIN links = 1 .. n /\ \A p \in 1 .. n : links[p] = << >>
      BY <1>3
    <3>2. IsSeq(<< >>)
      BY DEF IsSeq
    <3> HIDE DEF links
    <3>3. links = [p \in 1 .. n |-> links[p]] /\ \A p \in 1 .. n : IsSeq(links[p])
      BY <3>1, <3>2, <1>3 DEF links
    <3>4. QED  BY <3>1, <3>3, <1>3 DEF AreLinks, IsSeq
  <2>2. LinkCount(links) = 0
    BY <1>3, <2>1, LinkCountOf
  <2> HIDE DEF links
  <2>3. ts[t].links = links /\ ts[t].free = data.maxLinkCount /\ ts[t].polys = data.polys /\ ts[t].data = data
        /\ ts[t].name = d /\ IsTile(ts[t])
    BY <1>4 DEF IsTile, links
  <2>4. QED  BY <1>3, <2>1, <2>2, <2>3 DEF Counted, data
<1>6. Sane(ts) /\ Used(ts) = Used(tiles) \cup {t} /\ Used(tiles) \subseteq Places
  <2>1. ts[t].name = d
    BY <1>4
  <2>2. QED  BY <1>1, <1>4, <1>5, <2>1 DEF Sane, Used
<1>7. posLookup \in [Hashes -> Seq(Places)] /\ lut \in [Hashes -> Seq(Places)]
      /\ lut[h] = <<t>> \o posLookup[h] /\ \A k \in Hashes \ {h} : lut[k] = posLookup[k]
  <2>1. posLookup \in [Hashes -> Seq(Places)]
    BY <1>1 DEF LookupInv
  <2>2. <<t>> \o posLookup[h] \in Seq(Places)
    BY <1>3, <2>1
  <2>3. QED  BY <1>3, <2>1, <2>2
<1> HIDE DEF lut
<1>8. Follows(ts, tiles')
  <2>1. /\ Len(near) \in Nat
        /\ \A i \in 1 .. Len(near) : near[i][1] \in Used(ts) /\ Beside(ts[near[i][1]].data, data.x, data.y)
    BY <1>3, <1>7, NeighboursAre DEF near
  <2>2. t \in Used(ts) /\ ts[t].data = data /\ ts[t].polys = ts[t].data.polys
    BY <1>4, <1>6
  <2>3. \A i \in 1 .. Len(near) : Near(ts, t, near[i][1])
    <3>1. \A i \in 1 .. Len(near) : Near(ts, near[i][1], t)
      BY <2>1, <2>2 DEF Near
    <3>2. QED  BY <3>1, NearBack
  <2>4. QED  BY <1>2, <1>6, <2>1, <2>2, <2>3, ConnectedKeeps
<1>9. /\ Sane(tiles') /\ Used(tiles') = Used(tiles) \cup {t}
      /\ tiles'[t].salt = salt /\ tiles'[t].name = d /\ tiles'[t].data = data
      /\ \A u \in Places \ {t} : tiles'[u].salt = tiles[u].salt /\ tiles'[u].name = tiles[u].name /\ tiles'[u].data = tiles[u].data
  <2>1. Used(tiles') = Used(ts)
    BY <1>6, <1>8, UsedFollow
  <2>2. ts[t].salt = salt /\ ts[t].name = d /\ ts[t].data = data
    BY <1>4
  <2>3. QED  BY <1>4, <1>6, <1>8, <2>1, <2>2 DEF Follows, SameTiles
<1> HIDE DEF r
<1>10. TableInv'
  <2>1. \A u \in Used(tiles') : Len(tiles'[u].data.polys) <= PolySpan
    BY <1>1, <1>2, <1>6, <1>9 DEF TableInv
  <2>2. QED  BY <1>1, <1>9, <2>1 DEF TableInv
<1>11. FreeInv'
  BY <1>1, <1>9 DEF FreeInv
<1>12. \A u \in Used(tiles) : u # t /\ HashOf(tiles', u) = HashOf(tiles, u) /\ PlaceOf(tiles', u) = PlaceOf(tiles, u)
  BY <1>1, <1>6, <1>9 DEF HashOf, PlaceOf
<1>13. HashOf(tiles', t) = h /\ PlaceOf(tiles', t) = <<data.x, data.y, data.layer>>
  BY <1>9 DEF HashOf, PlaceOf, h
<1>14. LookupInv'
  <2>1. ASSUME NEW k \in Hashes
        PROVE  Unique(lut[k]) /\ ToSet(lut[k]) = {u \in Used(tiles') : HashOf(tiles', u) = k}
    <3> DEFINE s == posLookup[k]
               w == lut[k]
    <3>1. s \in Seq(Places) /\ Unique(s) /\ ToSet(s) = {u \in Used(tiles) : HashOf(tiles, u) = k}
      BY <1>1, <1>7 DEF LookupInv
    <3>2. CASE k = h
      <4>1. w = <<t>> \o s
        BY <1>7, <3>2
      <4>2. t \notin ToSet(s)
        BY <1>1, <3>1
      <4>3. Unique(w) /\ ToSet(w) = ToSet(s) \cup {t}
        BY <3>1, <4>1, <4>2, PrependIs
      <4>4. {u \in Used(tiles') : HashOf(tiles', u) = k} = {u \in Used(tiles) : HashOf(tiles, u) = k} \cup {t}
        BY <1>9, <1>12, <1>13, <3>2
      <4>5. QED  BY <3>1, <4>3, <4>4 DEF w
    <3>3. CASE k # h
      <4>1. lut[k] = s
        BY <1>7, <3>3
      <4>2. {u \in Used(tiles') : HashOf(tiles', u) = k} = {u \in Used(tiles) : HashOf(tiles, u) = k}
        BY <1>9, <1>12, <1>13, <3>3
      <4>3. QED  BY <3>1, <4>1, <4>2
    <3>4. QED  BY <3>2, <3>3
  <2>2. QED  BY <1>2, <1>7, <2>1 DEF LookupInv
<1>15. PlaceInv'
  <2>1. \A u \in Used(tiles) : PlaceOf(tiles, u) # <<data.x, data.y, data.layer>>
    <3> DEFINE s == TilesAt(tiles, posLookup, data.x, data.y)
               S == OnLevel(data.layer)
    <3>1. Kept(s, S) = << >>
      BY <1>2 DEF getTileAt, OnLevel
    <3>2. s \in Seq(Used(tiles)) /\ ToSet(s) \cap S = AtPlace(data.x, data.y, data.layer)
      <4>1. data.x \in Int /\ data.y \in Int /\ TableInv /\ LookupInv
        BY <1>1, <1>3
      <4>2. QED  BY <4>1, LookupIs
    <3> HIDE DEF s, S
    <3>3. ToSet(<< >>) = ToSet(s) \cap S
      BY <3>1, <3>2, KeptIs
    <3>4. ToSet(<< >>) = {}
      BY DEF ToSet
    <3>5. QED  BY <3>2, <3>3, <3>4 DEF AtPlace
  <2>2. QED  BY <1>1, <1>9, <1>12, <1>13, <2>1 DEF PlaceInv
<1>16. RefsInv'
  <2> DEFINE new == [ref |-> encodePolyId(salt, t, 1), name |-> d]
  <2>1. IsGiven(new) /\ new.ref = encodePolyId(salt, t, 1) /\ new.name = d
    BY DEF IsGiven
  <2>2. decodePolyIdTile(new.ref) = t /\ decodePolyIdSalt(new.ref) = salt
    BY <2>1, DecodeIs, PlacesFit
  <2> HIDE DEF new
  <2>3. \A g \in given : IsGiven(g)
    BY <1>1 DEF RefsInv
  <2>4. ASSUME ~back'
        PROVE  /\ \A g \in given' : RefTold(tiles', g)
               /\ \A g, f \in given' : g.ref = f.ref => g = f
    <3>1. ~back /\ ~(salt < tiles[t].salt) /\ tiles[t].salt \in Salts /\ salt \in Nat /\ tiles[t].salt \in Nat
      <4>1. Salts \subseteq Nat
        BY SpansAre DEF Salts
      <4>2. ~back /\ ~(salt < tiles[t].salt)
        BY <2>4
      <4>3. tiles[t].salt \in Salts
        BY <1>1 DEF TableInv
      <4>4. QED  BY <4>1, <4>2, <4>3
    <3>2. /\ \A g \in given : RefTold(tiles, g)
          /\ \A g, f \in given : g.ref = f.ref => g = f
      BY <1>1, <3>1 DEF RefsInv
    <3>3. ASSUME NEW g \in given
          PROVE  RefTold(tiles', g) /\ g.ref # new.ref
      <4>1. PICK s \in Salts, u \in Places : g.ref = encodePolyId(s, u, 1)
        BY <2>3 DEF IsGiven
      <4>2. decodePolyIdTile(g.ref) = u /\ decodePolyIdSalt(g.ref) = s
        BY <4>1, DecodeIs, PlacesFit
      <4>3. CASE u = t
        <5>1. s < tiles[t].salt
          BY <3>2, <4>2, <4>3 DEF RefTold
        <5>2. s < salt
          BY <3>1, <5>1 DEF Salts
        <5>3. RefTold(tiles', g)
          BY <1>9, <4>2, <4>3, <5>2 DEF RefTold
        <5>4. g.ref # new.ref
          BY <2>2, <4>2, <5>2, <3>1
        <5>5. QED  BY <5>3, <5>4
      <4>4. CASE u # t
        <5>1. RefTold(tiles', g)
          BY <1>9, <3>2, <4>2, <4>4 DEF RefTold
        <5>2. QED  BY <2>2, <4>2, <4>4, <5>1
      <4>5. QED  BY <4>3, <4>4
    <3>4. RefTold(tiles', new)
      BY <1>1, <1>9, <2>1, <2>2 DEF RefTold
    <3>5. given' = given \cup {new}
      BY <1>2 DEF new
    <3>6. QED  BY <3>2, <3>3, <3>4, <3>5
  <2>5. given' = given \cup {new}
    BY <1>2 DEF new
  <2>6. QED  BY <2>1, <2>3, <2>4, <2>5 DEF RefsInv
<1>17. LinksInv'
  <2>1. ASSUME LinksOk(tiles)
        PROVE  LinksOk(ts)
    <3>1. SUFFICES ASSUME NEW u \in Used(ts), NEW p \in 1 .. Len(ts[u].data.polys), NEW l \in ToSet(ts[u].links[p])
                   PROVE  LinkOk(ts, u, l.ref)
      BY DEF LinksOk
    <3>2. CASE u = t
      <4>1. ts[t].data = data /\ ts[t].links = [q \in DOMAIN data.polys |-> << >>]
        BY <1>4 DEF r
      <4>2. ts[t].links[p] = << >>
        BY <1>3, <3>2, <4>1
      <4>3. ToSet(<< >>) = {}
        BY DEF ToSet
      <4>4. QED  BY <3>2, <4>2, <4>3
    <3>3. CASE u # t
      <4>1. u \in Used(tiles) /\ ts[u] = tiles[u]
        BY <1>4, <1>6, <3>3
      <4>2. PICK v \in Used(tiles) : Near(tiles, u, v) /\ \E q \in 1 .. Len(tiles[v].data.polys) : l.ref = Ref(tiles, v, q)
        BY <2>1, <4>1 DEF LinksOk, LinkOk
      <4>3. v \in Used(ts) /\ ts[v] = tiles[v]
        BY <1>1, <1>4, <1>6
      <4>4. Near(ts, u, v) /\ \A q : Ref(ts, v, q) = Ref(tiles, v, q)
        BY <4>1, <4>2, <4>3 DEF Near, Ref
      <4>5. QED  BY <4>2, <4>3, <4>4 DEF LinkOk
    <3>4. QED  BY <3>2, <3>3
  <2>2. QED  BY <1>1, <1>8, <2>1 DEF LinksInv, Follows
<1>18. QED  BY <1>10, <1>11, <1>14, <1>15, <1>16, <1>17 DEF MeshInv


\* A tile goes.
LEMMA RemoveKeeps ==
  ASSUME MeshInv, NEW g \in given, removeTile(g.ref)
  PROVE  MeshInv'
<1> DEFINE t == decodePolyIdTile(g.ref)
           data == tiles[t].data
           h == computeTileHash(data.x, data.y)
           lut == [posLookup EXCEPT ![h] = Kept(@, DOMAIN tiles \ {t})]
           near == Neighbours(tiles, lut, t, data.x, data.y)
           ts == Freed(tiles, t, near)
           salt == tiles[t].salt
           next == NextSalt(salt)
<1>1. /\ TableInv /\ FreeInv /\ LookupInv /\ PlaceInv /\ RefsInv /\ LinksInv /\ Sane(tiles) /\ DOMAIN tiles = Places
      /\ Used(tiles) \subseteq Places
  BY UsedIs DEF MeshInv, TableInv, Sane
<1>2. t \in Places
  <2>1. PICK s \in Salts, u \in Places : g.ref = encodePolyId(s, u, 1)
    BY <1>1 DEF RefsInv, IsGiven
  <2>2. QED  BY <2>1, DecodeIs, PlacesFit
<1>3. /\ t \in Used(tiles) /\ posLookup' = lut /\ tiles' = [ts EXCEPT ![t] = Blank(next)]
      /\ nextFree' = <<t>> \o nextFree /\ back' = (back \/ salt = SaltSpan - 1) /\ given' = given
  BY <1>1, <1>2 DEF removeTile, isValidPolyRef, Used
<1>4. /\ data.x \in Int /\ data.y \in Int /\ salt \in Salts /\ h \in Hashes /\ h = HashOf(tiles, t)
  BY <1>1, <1>3, PlaceIs DEF HashOf
<1>5. next \in Salts /\ (salt # SaltSpan - 1 => next = salt + 1)
  BY <1>4, NextSaltIs
<1> HIDE DEF t, data, h, near, salt, next
<1>6. /\ posLookup \in [Hashes -> Seq(Places)] /\ lut \in [Hashes -> Seq(Places)]
      /\ lut[h] = Kept(posLookup[h], Places \ {t}) /\ \A k \in Hashes \ {h} : lut[k] = posLookup[k]
  <2>1. posLookup \in [Hashes -> Seq(Places)]
    BY <1>1 DEF LookupInv
  <2>2. posLookup[h] \in Seq(Places)
    BY <1>4, <2>1
  <2>3. Kept(posLookup[h], Places \ {t}) \in Seq(Places \ {t})
    BY <2>2, KeptIs
  <2>4. Kept(posLookup[h], Places \ {t}) \in Seq(Places)
    BY <2>3
  <2>5. QED  BY <1>1, <1>4, <2>1, <2>4
<1> HIDE DEF lut
<1>7. Len(near) \in Nat /\ \A i \in 1 .. Len(near) : near[i][1] \in Used(tiles)
  BY <1>4, <1>6, NeighboursAre DEF near
<1>8. \A i \in 1 .. Len(near) : ForgotBy(ts, near[i][1], t)
  BY <1>1, <1>7, FreedKeeps
<1>9. Follows(tiles, ts)
  BY <1>1, <1>7, FreedKeeps
<1> HIDE DEF ts
<1>10. /\ DOMAIN tiles' = Places /\ tiles'[t] = Blank(next)
      /\ \A u \in Places \ {t} : tiles'[u] = ts[u]
  BY <1>2, <1>3, <1>9 DEF Follows, Sane
<1>11. IsTile(tiles'[t]) /\ tiles'[t].name = None /\ tiles'[t].salt = next
  BY <1>10, BlankIs
<1>12. /\ Sane(tiles') /\ Used(tiles') = Used(tiles) \ {t}
       /\ \A u \in Places \ {t} : tiles'[u].salt = tiles[u].salt /\ tiles'[u].name = tiles[u].name /\ tiles'[u].data = tiles[u].data
  <2>1. \A u \in Places \ {t} : tiles'[u].salt = tiles[u].salt /\ tiles'[u].name = tiles[u].name /\ tiles'[u].data = tiles[u].data
    BY <1>9, <1>10 DEF Follows, SameTiles
  <2>2. Sane(tiles')
    BY <1>9, <1>10, <1>11 DEF Sane, Follows
  <2>3. Used(tiles') = Used(tiles) \ {t}
    BY <1>1, <1>2, <1>10, <1>11, <2>1 DEF Used
  <2>4. QED  BY <2>1, <2>2, <2>3
<1>13. TableInv'
  <2>1. \A u \in Used(tiles') : Len(tiles'[u].data.polys) <= PolySpan
    BY <1>1, <1>12 DEF TableInv
  <2>2. QED  BY <1>1, <1>5, <1>11, <1>12, <2>1 DEF TableInv
<1>14. FreeInv'
  <2>1. nextFree \in Seq(Places) /\ Unique(nextFree) /\ ToSet(nextFree) = Places \ Used(tiles)
    BY <1>1 DEF FreeInv
  <2>2. t \notin ToSet(nextFree)
    BY <1>3, <2>1
  <2>3. nextFree' \in Seq(Places) /\ Unique(nextFree') /\ ToSet(nextFree') = ToSet(nextFree) \cup {t}
    BY <1>2, <1>3, <2>1, <2>2, PrependIs
  <2>4. QED  BY <1>2, <1>3, <1>12, <2>1, <2>3 DEF FreeInv
<1>15. \A u \in Used(tiles') : u # t /\ u \in Used(tiles)
         /\ HashOf(tiles', u) = HashOf(tiles, u) /\ PlaceOf(tiles', u) = PlaceOf(tiles, u)
  BY <1>1, <1>12 DEF HashOf, PlaceOf
<1>16. LookupInv'
  <2>1. ASSUME NEW k \in Hashes
        PROVE  Unique(lut[k]) /\ ToSet(lut[k]) = {u \in Used(tiles') : HashOf(tiles', u) = k}
    <3> DEFINE s == posLookup[k]
    <3>1. s \in Seq(Places) /\ Unique(s) /\ ToSet(s) = {u \in Used(tiles) : HashOf(tiles, u) = k}
      BY <1>1, <1>6 DEF LookupInv
    <3>2. {u \in Used(tiles') : HashOf(tiles', u) = k} = {u \in Used(tiles) : HashOf(tiles, u) = k} \ {t}
      BY <1>12, <1>15
    <3>3. CASE k = h
      <4>1. lut[k] = Kept(s, Places \ {t})
        BY <1>6, <3>3
      <4>2. ToSet(s) \subseteq Places
        BY <3>1, ElementsOf
      <4> HIDE DEF s
      <4>3. Unique(Kept(s, Places \ {t})) /\ ToSet(Kept(s, Places \ {t})) = ToSet(s) \cap (Places \ {t})
        BY <3>1, KeptIs
      <4>4. QED  BY <3>1, <3>2, <4>1, <4>2, <4>3
    <3>4. CASE k # h
      <4>1. lut[k] = s
        BY <1>6, <3>4
      <4>2. t \notin {u \in Used(tiles) : HashOf(tiles, u) = k}
        BY <1>4, <3>4
      <4>3. QED  BY <3>1, <3>2, <4>1, <4>2
    <3>5. QED  BY <3>3, <3>4
  <2>2. QED  BY <1>3, <1>6, <2>1 DEF LookupInv
<1>17. PlaceInv'
  BY <1>1, <1>15 DEF PlaceInv
<1>18. RefsInv'
  <2>1. \A f \in given : IsGiven(f)
    BY <1>1 DEF RefsInv
  <2>2. ASSUME ~back', NEW f \in given
        PROVE  RefTold(tiles', f)
    <3>1. ~back /\ salt # SaltSpan - 1
      BY <1>3, <2>2
    <3>2. RefTold(tiles, f)
      BY <1>1, <3>1 DEF RefsInv
    <3>3. PICK s \in Salts, u \in Places : f.ref = encodePolyId(s, u, 1)
      BY <2>1 DEF IsGiven
    <3>4. decodePolyIdTile(f.ref) = u /\ decodePolyIdSalt(f.ref) = s
      BY <3>3, DecodeIs, PlacesFit
    <3>5. CASE u = t
      <4>1. s < salt \/ s = salt
        BY <3>2, <3>4, <3>5 DEF RefTold, salt
      <4>2. s \in Nat /\ salt \in Nat
        BY <1>4, SpansAre DEF Salts
      <4>3. s < next
        BY <1>5, <3>1, <4>1, <4>2
      <4>4. QED  BY <1>11, <3>4, <3>5, <4>3 DEF RefTold
    <3>6. CASE u # t
      BY <1>12, <3>2, <3>4, <3>6 DEF RefTold
    <3>7. QED  BY <3>5, <3>6
  <2>3. ~back' => \A f, e \in given : f.ref = e.ref => f = e
    BY <1>1, <1>3 DEF RefsInv
  <2>4. QED  BY <1>3, <2>1, <2>2, <2>3 DEF RefsInv
<1>19. LinksInv'
  <2>1. SUFFICES ASSUME FewLayers
                 PROVE  LinksOk(tiles')
    BY DEF LinksInv
  <2>2. LinksOk(ts) /\ Sane(ts) /\ SameTiles(tiles, ts) /\ Used(ts) = Used(tiles)
    BY <1>1, <1>9, <2>1, UsedFollow DEF LinksInv, Follows
  <2>3. \A u \in Used(tiles) \ {t} : Near(tiles, u, t) => ForgotBy(ts, u, t)
    <3>1. TAKE u \in Used(tiles) \ {t}
    <3>2. HAVE Near(tiles, u, t)
    <3>3. HashOf(tiles, u) \in Hashes /\ tiles[u].data.x \in Int /\ tiles[u].data.y \in Int /\ Beside(tiles[u].data, data.x, data.y)
      BY <1>1, <3>2, PlaceIs DEF Near, data
    <3> DEFINE x == tiles[u].data.x
               y == tiles[u].data.y
               s == TilesAt(tiles, lut, x, y)
    <3>4. Unique(lut[HashOf(tiles, u)]) /\ u \in ToSet(lut[HashOf(tiles, u)])
      <4>1. u \in Used(tiles')
        BY <1>12
      <4>2. HashOf(tiles', u) = HashOf(tiles, u)
        BY <1>15, <4>1
      <4>3. QED  BY <1>3, <1>16, <3>3, <4>1, <4>2 DEF LookupInv
    <3>5. Len(s) <= MAX_NEIS
      <4> HIDE DEF x, y
      <4>1. s \in Seq(On(tiles, x, y)) /\ (Unique(lut[computeTileHash(x, y)]) => Unique(s))
        BY <1>6, <3>3, TilesAtAre DEF x, y
      <4>2. Unique(s)
        BY <3>4, <4>1 DEF HashOf, x, y
      <4> HIDE DEF s
      <4>3. x \in Int /\ y \in Int
        BY <3>3 DEF x, y
      <4>4. QED  BY <1>1, <2>1, <4>1, <4>2, <4>3, LayersFit
    <3>6. PICK i \in 1 .. Len(near) : near[i][1] = u
      <4>1. /\ lut \in [Hashes -> Seq(Places)] /\ data.x \in Int /\ data.y \in Int
            /\ u \in Used(tiles) /\ u # t /\ tiles[u].data.x \in Int /\ tiles[u].data.y \in Int
            /\ Beside(tiles[u].data, data.x, data.y)
        BY <1>4, <1>6, <3>3
      <4>2. u \in ToSet(lut[computeTileHash(tiles[u].data.x, tiles[u].data.y)])
        BY <3>4 DEF HashOf
      <4>3. Reached(tiles, lut, data.x, data.y, u)
        BY <3>5, <4>1, <4>2 DEF Reached
      <4>4. \E i \in 1 .. Len(Neighbours(tiles, lut, t, data.x, data.y)) : Neighbours(tiles, lut, t, data.x, data.y)[i][1] = u
        <5>1. u # t
          BY <4>1
        <5>2. QED  BY ONLY <5>1, <4>3, NeighboursHave
      <4>5. QED  BY <4>4 DEF near
    <3>7. QED  BY <1>8, <3>6
  <2>4. SUFFICES ASSUME NEW u \in Used(tiles'), NEW p \in 1 .. Len(tiles'[u].data.polys), NEW l \in ToSet(tiles'[u].links[p])
                 PROVE  LinkOk(tiles', u, l.ref)
    BY DEF LinksOk
  <2>5. /\ u \in Used(tiles) \ {t} /\ u \in Places \ {t} /\ tiles'[u] = ts[u] /\ tiles'[u].data = tiles[u].data
        /\ l \in ToSet(ts[u].links[p]) /\ p \in 1 .. Len(ts[u].data.polys)
    <3>1. u \in Used(tiles) \ {t} /\ u \in Places \ {t}
      BY <1>1, <1>12
    <3>2. QED  BY <1>10, <1>12, <3>1
  <2>6. PICK v \in Used(ts) : Near(ts, u, v) /\ \E q \in 1 .. Len(ts[v].data.polys) : l.ref = Ref(ts, v, q)
    BY <2>2, <2>5 DEF LinksOk, LinkOk
  <2>7. v \in Used(tiles) /\ v \in Places /\ ts[v].data = tiles[v].data /\ ts[u].data = tiles[u].data /\ ts[v].salt = tiles[v].salt
    BY <1>1, <2>2, <2>5, <2>6 DEF SameTiles
  <2>8. v # t
    <3>1. SUFFICES ASSUME v = t PROVE FALSE
      OBVIOUS
    <3>2. ForgotBy(ts, u, t)
      BY <2>3, <2>5, <2>6, <2>7, <3>1 DEF Near
    <3>3. decodePolyIdTile(l.ref) # t
      BY <2>5, <3>2 DEF ForgotBy
    <3>4. PICK q \in 1 .. Len(tiles[t].data.polys) : l.ref = encodePolyId(salt, t, q)
      BY <2>6, <2>7, <3>1 DEF Ref, salt
    <3>5. q \in 1 .. PolySpan
      <4>1. Len(tiles[t].data.polys) <= PolySpan /\ Len(tiles[t].data.polys) \in Nat
        BY <1>1, <1>3, UsedIs DEF TableInv
      <4>2. QED  BY <4>1, SpansAre
    <3>6. QED  BY <1>2, <1>4, <3>3, <3>4, <3>5, DecodeRef, PlacesFit
  <2>9. v \in Used(tiles') /\ tiles'[v] = ts[v]
    BY <1>10, <1>12, <2>7, <2>8
  <2>10. Near(tiles', u, v) /\ \A q : Ref(tiles', v, q) = Ref(ts, v, q)
    BY <2>5, <2>6, <2>9 DEF Near, Ref
  <2>11. QED  BY <2>6, <2>9, <2>10 DEF LinkOk
<1>20. QED  BY <1>13, <1>14, <1>16, <1>17, <1>18, <1>19 DEF MeshInv

\* addTile without a reference takes the first free place and leaves its salt.
LEMMA AddKeeps ==
  ASSUME MeshInv, NEW d \in Names, addTile(d)
  PROVE  MeshInv'
<1> DEFINE t == Head(nextFree)
<1>1. /\ nextFree # << >> /\ Insert(d, DataOf(d), t, tiles[t].salt) /\ nextFree' = Tail(nextFree) /\ back' = back
  BY DEF addTile
<1>2. nextFree \in Seq(Places) /\ Unique(nextFree) /\ ToSet(nextFree) = Places \ Used(tiles) /\ TableInv
  BY DEF MeshInv, FreeInv
<1>3. /\ t = nextFree[1] /\ t \in Places /\ nextFree' \in Seq(Places) /\ DOMAIN nextFree = 1 .. Len(nextFree)
      /\ Len(nextFree) \in Nat \ {0} /\ DOMAIN nextFree' = 1 .. Len(nextFree) - 1
      /\ \A i \in 1 .. Len(nextFree) - 1 : nextFree'[i] = nextFree[i + 1]
  BY <1>1, <1>2
<1>4. t \in ToSet(nextFree)
  <2>1. 1 \in DOMAIN nextFree
    BY <1>3
  <2>2. QED  BY <1>3, <2>1 DEF ToSet
<1> HIDE DEF t
<1>5. t \notin Used(tiles) /\ tiles[t].name = None /\ tiles[t].salt \in Salts
  BY <1>2, <1>3, <1>4 DEF TableInv, Sane, Used
<1>6. \A i \in 1 .. Len(nextFree) - 1 : i + 1 \in DOMAIN nextFree /\ nextFree'[i] = nextFree[i + 1] /\ i + 1 # 1 /\ i \in Int
  BY <1>3
<1>7. Unique(nextFree')
  <2>1. ASSUME NEW i \in 1 .. Len(nextFree) - 1, NEW j \in 1 .. Len(nextFree) - 1, nextFree'[i] = nextFree'[j]
        PROVE  i = j
    <3>1. i + 1 = j + 1
      BY <1>2, <1>6, <2>1 DEF Unique
    <3>2. QED  BY <1>6, <3>1
  <2>2. QED  BY <1>3, <2>1 DEF Unique
<1>8. ToSet(nextFree') = ToSet(nextFree) \ {t}
  <2>1. \A x \in ToSet(nextFree) \ {t} : x \in ToSet(nextFree')
    <3>1. TAKE x \in ToSet(nextFree) \ {t}
    <3>2. PICK i \in DOMAIN nextFree : nextFree[i] = x
      BY DEF ToSet
    <3>3. i # 1 /\ i \in 1 .. Len(nextFree)
      BY <1>3, <3>2
    <3>4. i - 1 \in 1 .. Len(nextFree) - 1 /\ (i - 1) + 1 = i
      BY <1>3, <3>3
    <3>5. nextFree'[i - 1] = x /\ i - 1 \in DOMAIN nextFree'
      BY <1>3, <3>2, <3>4
    <3>6. QED  BY <3>5 DEF ToSet
  <2>2. \A x \in ToSet(nextFree') : x \in ToSet(nextFree) /\ x # t
    <3>1. TAKE x \in ToSet(nextFree')
    <3>2. PICK i \in DOMAIN nextFree' : nextFree'[i] = x
      BY DEF ToSet
    <3>3. i + 1 \in DOMAIN nextFree /\ nextFree[i + 1] = x /\ i + 1 # 1
      BY <1>3, <1>6, <3>2
    <3>4. 1 \in DOMAIN nextFree
      BY <1>3
    <3>5. x # t
      BY <1>2, <1>3, <3>3, <3>4 DEF Unique
    <3>6. QED  BY <3>3, <3>5 DEF ToSet
  <2>3. QED  BY <2>1, <2>2
<1>9. ~back' => ~back /\ ~(tiles[t].salt < tiles[t].salt)
  <2>1. tiles[t].salt \in Nat
    BY <1>5, SpansAre DEF Salts
  <2>2. ~(tiles[t].salt < tiles[t].salt)
    BY <2>1
  <2>3. QED  BY <1>1, <2>2
<1>10. QED  BY <1>1, <1>3, <1>5, <1>7, <1>8, <1>9, InsertKeeps

\* addTile with a reference takes the place it names, when that is free, and sets its salt.
LEMMA ReloadKeeps ==
  ASSUME MeshInv, NEW d \in Names, NEW s \in Salts, NEW u \in 0 .. TileSpan - 1,
         reloadTile(d, encodePolyId(s, u, 1))
  PROVE  MeshInv'
<1>1. decodePolyIdTile(encodePolyId(s, u, 1)) = u /\ decodePolyIdSalt(encodePolyId(s, u, 1)) = s
  BY DecodeIs
<1>2. /\ u < MaxTiles /\ \E i \in DOMAIN nextFree : nextFree[i] = u
      /\ Insert(d, DataOf(d), u, s) /\ nextFree' = Kept(nextFree, DOMAIN tiles \ {u})
      /\ back' = (back \/ s < tiles[u].salt)
  BY <1>1 DEF reloadTile, MayReturn
<1>3. nextFree \in Seq(Places) /\ Unique(nextFree) /\ ToSet(nextFree) = Places \ Used(tiles) /\ TableInv
  BY DEF MeshInv, FreeInv
<1>4. DOMAIN tiles = Places /\ u \in ToSet(nextFree) /\ u \in Places /\ u \notin Used(tiles)
  BY <1>2, <1>3 DEF TableInv, Sane, ToSet
<1>5. tiles[u].name = None
  BY <1>4 DEF Used
<1>6. nextFree' = Kept(nextFree, Places \ {u})
  BY <1>2, <1>4
<1>7. /\ Kept(nextFree, Places \ {u}) \in Seq(Places \ {u}) /\ Unique(Kept(nextFree, Places \ {u}))
      /\ ToSet(Kept(nextFree, Places \ {u})) = ToSet(nextFree) \cap (Places \ {u})
  BY <1>3, KeptIs
<1>8. nextFree' \in Seq(Places) /\ Unique(nextFree') /\ ToSet(nextFree') = ToSet(nextFree) \ {u}
  <2>1. nextFree' \in Seq(Places)
    BY <1>6, <1>7
  <2>2. ToSet(nextFree') = ToSet(nextFree) \ {u}
    BY <1>3, <1>6, <1>7
  <2>3. QED  BY <1>6, <1>7, <2>1, <2>2
<1>9. QED  BY <1>2, <1>4, <1>5, <1>8, InsertKeeps

\* Inside a tile that stays, setPolyFlags, setPolyArea and restoreTileState change a polygon or all.
LEMMA InsideIs ==
  ASSUME MeshInv, NEW t \in Used(tiles), NEW q, DOMAIN q = DOMAIN tiles[t].polys,
         tiles' = [tiles EXCEPT ![t] = [@ EXCEPT !.polys = q]],
         UNCHANGED <<nextFree, posLookup, given, back>>
  PROVE  MeshInv'
<1>1. Sane(tiles)
  BY DEF MeshInv, TableInv
<1>2. Follows(tiles, tiles')
  BY <1>1, PolysKeep
<1>3. QED  BY <1>2, InsideKeeps

\* A valid reference names a tile that is there.
LEMMA ValidIs ==
  ASSUME MeshInv, NEW ref \in Int, isValidPolyRef(tiles, ref)
  PROVE  decodePolyIdTile(ref) \in Used(tiles)
<1>1. decodePolyIdTile(ref) \in 0 .. TileSpan - 1
  BY DecodeType
<1>2. decodePolyIdTile(ref) \in Places /\ DOMAIN tiles = Places
  BY <1>1, SpansAre DEF isValidPolyRef, Places, MeshInv, TableInv, Sane
<1>3. QED  BY <1>2 DEF isValidPolyRef, Used

LEMMA SetFlagsKeeps ==
  ASSUME MeshInv, NEW ref \in Int, NEW flags, setPolyFlags(ref, flags)
  PROVE  MeshInv'
<1> DEFINE t == decodePolyIdTile(ref)
           p == decodePolyIdPoly(ref)
           q == [tiles[t].polys EXCEPT ![p].flags = flags]
<1>1. tiles' = [tiles EXCEPT ![t] = [@ EXCEPT !.polys = q]] /\ UNCHANGED <<nextFree, posLookup, given, back>>
  BY DEF setPolyFlags
<1>2. t \in Used(tiles)
  BY ValidIs DEF setPolyFlags
<1>3. DOMAIN q = DOMAIN tiles[t].polys
  OBVIOUS
<1> HIDE DEF t, q
<1>4. QED  BY <1>1, <1>2, <1>3, InsideIs

LEMMA SetAreaKeeps ==
  ASSUME MeshInv, NEW ref \in Int, NEW area, setPolyArea(ref, area)
  PROVE  MeshInv'
<1> DEFINE t == decodePolyIdTile(ref)
           p == decodePolyIdPoly(ref)
           q == [tiles[t].polys EXCEPT ![p].area = area]
<1>1. tiles' = [tiles EXCEPT ![t] = [@ EXCEPT !.polys = q]] /\ UNCHANGED <<nextFree, posLookup, given, back>>
  BY DEF setPolyArea
<1>2. t \in Used(tiles)
  BY ValidIs DEF setPolyArea
<1>3. DOMAIN q = DOMAIN tiles[t].polys
  OBVIOUS
<1> HIDE DEF t, q
<1>4. QED  BY <1>1, <1>2, <1>3, InsideIs

LEMMA RestoreKeeps ==
  ASSUME MeshInv, NEW t \in Used(tiles), NEW state, restoreTileState(state, t)
  PROVE  MeshInv'
<1> DEFINE q == [p \in DOMAIN tiles[t].polys |->
                    [tiles[t].polys[p] EXCEPT !.flags = state.attrs[p][1], !.area = state.attrs[p][2]]]
<1>1. tiles' = [tiles EXCEPT ![t] = [@ EXCEPT !.polys = q]] /\ UNCHANGED <<nextFree, posLookup, given, back>>
  BY DEF restoreTileState
<1>2. DOMAIN q = DOMAIN tiles[t].polys
  OBVIOUS
<1> HIDE DEF q
<1>3. QED  BY <1>1, <1>2, InsideIs

\* A reference to a polygon of a tile that is there is a number.
LEMMA RefType ==
  ASSUME MeshInv, NEW t \in Used(tiles), NEW p \in DOMAIN tiles[t].polys
  PROVE  Ref(tiles, t, p) \in Int
<1>1. t \in Int /\ p \in Int /\ tiles[t].salt \in Int
  <2>1. t \in Places /\ DOMAIN tiles[t].polys = 1 .. Len(tiles[t].data.polys) /\ tiles[t].salt \in Salts
    BY UsedIs DEF MeshInv, TableInv
  <2>2. QED  BY <2>1, SpansAre DEF Places, Salts
<1> DEFINE a == tiles[t].salt
           b == a * TileSpan
           c == (b + t) * PolySpan
<1>2. b \in Int
  <2> HIDE DEF a
  <2>1. a \in Int
    BY <1>1 DEF a
  <2>2. QED  BY <2>1, SpansAre, Products
<1>3. c \in Int
  <2> HIDE DEF b
  <2>1. b + t \in Int
    BY <1>1, <1>2
  <2>2. QED  BY <2>1, SpansAre, Products
<1>4. Ref(tiles, t, p) = c + (p - 1)
  BY DEF Ref, encodePolyId
<1> HIDE DEF c
<1>5. QED  BY <1>1, <1>3, <1>4

\* The tile table, the free list, the lists by place, the references handed out and the links
\* keep to each other, whatever tiles come and go and in whatever order.
THEOREM MeshInvariant == MeshSpec => []MeshInv
<1>1. MeshInit => MeshInv
  BY MeshInitHolds
<1>2. MeshInv /\ [MeshNext]_meshVars => MeshInv'
  <2>1. SUFFICES ASSUME MeshInv, [MeshNext]_meshVars PROVE MeshInv'
    OBVIOUS
  <2>2. Follows(tiles, tiles)
    BY <2>1 DEF MeshInv, TableInv, Follows, SameTiles
  <2>3. CASE \E d \in Names : addTile(d)
    BY <2>1, <2>3, AddKeeps
  <2>4. CASE \E g \in given \cup FileTiles : reloadTile(g.name, g.ref)
    <3>1. PICK g \in given \cup FileTiles : reloadTile(g.name, g.ref)
      BY <2>4
    <3>2. g.name \in Names /\ \E s \in Salts, u \in 0 .. TileSpan - 1 : g.ref = encodePolyId(s, u, 1)
      <4>1. CASE g \in given
        BY <2>1, <4>1, PlacesFit DEF MeshInv, RefsInv, IsGiven
      <4>2. CASE g \in FileTiles
        BY <4>2, FileTilesAssumption DEF Salts
      <4>3. QED  BY <4>1, <4>2
    <3>3. PICK s \in Salts, u \in 0 .. TileSpan - 1 : g.ref = encodePolyId(s, u, 1)
      BY <3>2
    <3>4. QED  BY <2>1, <3>1, <3>2, <3>3, ReloadKeeps
  <2>5. CASE \E r \in Refs : removeTile(r)
    BY <2>1, <2>5, RemoveKeeps DEF Refs
  <2>6. CASE \E t \in Used(tiles) : storeTileState(t)
    BY <2>1, <2>2, <2>6, InsideKeeps DEF storeTileState
  <2>7. CASE \E s \in saved, t \in Used(tiles) : restoreTileState(s, t)
    BY <2>1, <2>7, RestoreKeeps
  <2>8. CASE \E t \in Used(tiles) : \E p \in DOMAIN tiles[t].polys, f \in FlagValues :
                setPolyFlags(Ref(tiles, t, p), f) \/ setPolyArea(Ref(tiles, t, p), f)
    <3>1. PICK t \in Used(tiles) : \E p \in DOMAIN tiles[t].polys, f \in FlagValues :
                setPolyFlags(Ref(tiles, t, p), f) \/ setPolyArea(Ref(tiles, t, p), f)
      BY <2>8
    <3>2. PICK p \in DOMAIN tiles[t].polys, f \in FlagValues :
                setPolyFlags(Ref(tiles, t, p), f) \/ setPolyArea(Ref(tiles, t, p), f)
      BY <3>1
    <3>3. Ref(tiles, t, p) \in Int
      BY <2>1, RefType
    <3>4. QED  BY <2>1, <3>2, <3>3, SetFlagsKeeps, SetAreaKeeps
  <2>9. CASE UNCHANGED meshVars
    BY <2>1, <2>2, <2>9, InsideKeeps DEF meshVars
  <2>10. QED  BY <2>1, <2>3, <2>4, <2>5, <2>6, <2>7, <2>8, <2>9 DEF MeshNext
<1>3. QED  BY <1>1, <1>2, PTL DEF MeshSpec

\* A reference means the tile it was given out for, or nothing, as long as no salt has been
\* turned back (addTile, removeTile, isValidPolyRef).
LEMMA RefsTold ==
  ASSUME MeshInv
  PROVE  RefsNameTheirTile
<1>1. SUFFICES ASSUME ~back, NEW g \in given, isValidPolyRef(tiles, g.ref)
               PROVE  /\ tiles[decodePolyIdTile(g.ref)].name = g.name
                      /\ \A h \in given : h.ref = g.ref => h = g
  BY DEF RefsNameTheirTile
<1>2. RefTold(tiles, g) /\ \A h \in given : h.ref = g.ref => h = g
  BY <1>1 DEF MeshInv, RefsInv
<1>3. PICK s \in Salts, u \in Places : g.ref = encodePolyId(s, u, 1)
  BY DEF MeshInv, RefsInv, IsGiven
<1>4. decodePolyIdTile(g.ref) = u /\ decodePolyIdSalt(g.ref) = s
  BY <1>3, DecodeIs, PlacesFit
<1>5. tiles[u].salt = s /\ tiles[u].name # None /\ s \in Nat
  BY <1>1, <1>4, SpansAre DEF isValidPolyRef, Salts
<1>6. tiles[u].name = g.name
  BY <1>2, <1>4, <1>5 DEF RefTold
<1>7. QED  BY <1>2, <1>4, <1>6

THEOREM RefsNameTheirTileHolds == MeshSpec => []RefsNameTheirTile
<1>1. MeshInv => RefsNameTheirTile
  BY RefsTold
<1>2. QED  BY <1>1, MeshInvariant, PTL


LEMMA InvAccounts ==
  ASSUME MeshInv
  PROVE  TilesAccounted
<1>1. /\ TableInv /\ FreeInv /\ LookupInv /\ PlaceInv /\ Sane(tiles) /\ DOMAIN tiles = Places
      /\ Used(tiles) \subseteq Places
  BY UsedIs DEF MeshInv, TableInv, Sane
<1>2. /\ nextFree \in Seq(Places) /\ Unique(nextFree) /\ ToSet(nextFree) = Places \ Used(tiles)
      /\ DOMAIN nextFree = 1 .. Len(nextFree) /\ Len(nextFree) \in Nat
  BY <1>1 DEF FreeInv
<1>3. /\ DOMAIN posLookup = Hashes
      /\ \A h \in Hashes : \A t : (\E i \in DOMAIN posLookup[h] : posLookup[h][i] = t)
                                    <=> t \in Used(tiles) /\ HashOf(tiles, t) = h
  <2>1. posLookup \in [Hashes -> Seq(Places)]
    BY <1>1 DEF LookupInv
  <2>2. ASSUME NEW h \in Hashes, NEW t
        PROVE  (\E i \in DOMAIN posLookup[h] : posLookup[h][i] = t) <=> t \in Used(tiles) /\ HashOf(tiles, t) = h
    <3>1. ToSet(posLookup[h]) = {u \in Used(tiles) : HashOf(tiles, u) = h}
      BY <1>1 DEF LookupInv
    <3>2. t \in ToSet(posLookup[h]) <=> \E i \in DOMAIN posLookup[h] : posLookup[h][i] = t
      BY DEF ToSet
    <3>3. QED  BY <3>1, <3>2
  <2>3. QED  BY <2>1, <2>2
<1>4. ASSUME NEW t \in Places, tiles[t].name = None
      PROVE  /\ {h \in DOMAIN posLookup : \E i \in DOMAIN posLookup[h] : posLookup[h][i] = t} = {}
             /\ Cardinality({i \in DOMAIN nextFree : nextFree[i] = t}) = 1
  <2>1. t \notin Used(tiles)
    BY <1>4 DEF Used
  <2>2. t \in ToSet(nextFree)
    BY <1>2, <2>1
  <2>3. PICK i \in DOMAIN nextFree : nextFree[i] = t
    BY <2>2 DEF ToSet
  <2>4. {j \in DOMAIN nextFree : nextFree[j] = t} = {i}
    BY <1>2, <2>3 DEF Unique
  <2>5. Cardinality({j \in DOMAIN nextFree : nextFree[j] = t}) = 1
    BY <2>4, FS_Singleton
  <2>6. QED  BY <1>3, <2>1, <2>5
<1>5. ASSUME NEW t \in Places, tiles[t].name # None
      PROVE  /\ {h \in DOMAIN posLookup : \E i \in DOMAIN posLookup[h] : posLookup[h][i] = t}
                  = {computeTileHash(tiles[t].data.x, tiles[t].data.y)}
             /\ \A i \in DOMAIN nextFree : nextFree[i] # t
             /\ getTileAt(tiles, posLookup, tiles[t].data.x, tiles[t].data.y, tiles[t].data.layer) = <<t>>
             /\ tiles[t].free + LinkCount(tiles[t].links) = tiles[t].data.maxLinkCount
  <2>1. t \in Used(tiles)
    BY <1>1, <1>5 DEF Used
  <2>2. tiles[t].data.x \in Int /\ tiles[t].data.y \in Int /\ HashOf(tiles, t) \in Hashes
    BY <1>1, <2>1, PlaceIs
  <2>3. {h \in DOMAIN posLookup : \E i \in DOMAIN posLookup[h] : posLookup[h][i] = t} = {HashOf(tiles, t)}
    BY <1>3, <2>1, <2>2
  <2>4. \A i \in DOMAIN nextFree : nextFree[i] # t
    <3>1. t \notin ToSet(nextFree)
      BY <1>2, <2>1
    <3>2. QED  BY <3>1 DEF ToSet
  <2>5. getTileAt(tiles, posLookup, tiles[t].data.x, tiles[t].data.y, tiles[t].data.layer) = <<t>>
    <3> DEFINE x == tiles[t].data.x
               y == tiles[t].data.y
               layer == tiles[t].data.layer
               s == TilesAt(tiles, posLookup, x, y)
               S == OnLevel(layer)
    <3>1. getTileAt(tiles, posLookup, x, y, layer) = Kept(s, S)
      BY DEF getTileAt, OnLevel
    <3>2. PICK a, b, c : a = x /\ b = y /\ c = layer
      OBVIOUS
    <3>3. a \in Int /\ b \in Int
      BY <2>2, <3>2
    <3>4. /\ Unique(TilesAt(tiles, posLookup, a, b)) /\ TilesAt(tiles, posLookup, a, b) \in Seq(Used(tiles))
          /\ ToSet(TilesAt(tiles, posLookup, a, b)) \cap OnLevel(c) = AtPlace(a, b, c)
      BY <1>1, <3>3, LookupIs
    <3>5. Unique(s) /\ s \in Seq(Used(tiles)) /\ ToSet(s) \cap S = AtPlace(x, y, layer)
      BY <3>2, <3>4
    <3>6. AtPlace(x, y, layer) = {t}
      BY <1>1, <2>1 DEF AtPlace, PlaceInv, PlaceOf
    <3> HIDE DEF s, S
    <3>7. Kept(s, S) = <<t>>
      BY <3>5, <3>6, KeptOne
    <3>8. QED  BY <3>1, <3>7
  <2>6. tiles[t].free + LinkCount(tiles[t].links) = tiles[t].data.maxLinkCount
    BY <1>1, <1>5 DEF Sane, Counted
  <2>7. QED  BY <2>3, <2>4, <2>5, <2>6 DEF HashOf
<1>6. Len(nextFree) + Cardinality(Used(tiles)) = MaxTiles
  <2>1. Cardinality(ToSet(nextFree)) = Len(nextFree)
    BY <1>2, UniqueCount
  <2>2. MaxTiles \in Nat
    BY SpansAre
  <2>3. IsFiniteSet(Places) /\ Cardinality(Places) = MaxTiles
    BY <2>2, FS_Interval DEF Places
  <2>4. Used(tiles) \cap Places = Used(tiles)
    BY <1>1
  <2>5. Cardinality(Places \ Used(tiles)) = Cardinality(Places) - Cardinality(Used(tiles))
    BY <2>3, <2>4, FS_Difference
  <2>6. Cardinality(Used(tiles)) \in Nat
    BY <1>1, <2>3, FS_Subset, FS_CardinalityType
  <2>7. QED  BY <1>2, <2>1, <2>2, <2>3, <2>5, <2>6
<1>7. QED  BY <1>1, <1>4, <1>5, <1>6 DEF TilesAccounted

\* Every tile is in the free list or in the list of its place, once; no two tiles are at one
\* place; every link is in use or free (addTile, removeTile, connect* and unconnectLinks).
THEOREM TilesAccountedHolds == MeshSpec => []TilesAccounted
<1>1. MeshInv => TilesAccounted
  BY InvAccounts
<1>2. QED  BY <1>1, MeshInvariant, PTL

\* No link leads to a tile that is gone, or to another that took its place (removeTile unlinks
\* the tiles around and above, addTile and connectExtOffMeshLinks link no others).
LEMMA InvDangles ==
  ASSUME MeshInv
  PROVE  NoneDangles
<1>1. SUFFICES ASSUME FewLayers, NEW t \in Used(tiles), NEW p \in DOMAIN tiles[t].links, NEW l \in ToSet(tiles[t].links[p])
               PROVE  isValidPolyRef(tiles, l.ref)
  BY DEF NoneDangles
<1>2. TableInv /\ Sane(tiles) /\ LinksOk(tiles)
  BY <1>1 DEF MeshInv, TableInv, LinksInv
<1>3. p \in 1 .. Len(tiles[t].data.polys)
  BY <1>2, UsedIs
<1>4. PICK u \in Used(tiles) : \E q \in 1 .. Len(tiles[u].data.polys) : l.ref = Ref(tiles, u, q)
  BY <1>2, <1>3 DEF LinksOk, LinkOk
<1>5. PICK q \in 1 .. Len(tiles[u].data.polys) : l.ref = encodePolyId(tiles[u].salt, u, q)
  BY <1>4 DEF Ref
<1>6. /\ u \in Places /\ tiles[u].name # None /\ tiles[u].salt \in Salts
      /\ Len(tiles[u].data.polys) \in Nat /\ Len(tiles[u].data.polys) <= PolySpan
      /\ DOMAIN tiles[u].polys = 1 .. Len(tiles[u].data.polys)
  BY <1>2, UsedIs DEF TableInv
<1>7. Len(tiles[u].polys) = Len(tiles[u].data.polys)
  BY <1>6, LengthOf
<1>8. q \in 1 .. PolySpan
  BY <1>6, SpansAre
<1>9. /\ l.ref \in Nat \ {0} /\ decodePolyIdTile(l.ref) = u /\ decodePolyIdSalt(l.ref) = tiles[u].salt
      /\ decodePolyIdPoly(l.ref) = q
  BY <1>5, <1>6, <1>8, DecodeRef, PlacesFit
<1>10. u < MaxTiles /\ q <= Len(tiles[u].polys)
  BY <1>6, <1>7, SpansAre DEF Places
<1>11. QED  BY <1>6, <1>9, <1>10 DEF isValidPolyRef

THEOREM NoneDanglesHolds == MeshSpec => []NoneDangles
<1>1. MeshInv => NoneDangles
  BY InvDangles
<1>2. QED  BY <1>1, MeshInvariant, PTL
=============================================================================
