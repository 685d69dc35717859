----------------------------- MODULE SpaceProofs -----------------------------
(* Proofs about GridAOI, the area of interest, and about Space on top of it, for all ids,     *)
(* players, positions, radii, cell sizes and bounds.                                          *)
EXTENDS Space, TLAPS, SequenceTheorems

-----------------------------------------------------------------------------
(* Geometry *)

\* Truncated division by a positive number is monotonic.
LEMMA TruncMonotonic ==
  ASSUME NEW a \in Int, NEW b \in Int, a <= b
  PROVE  Trunc(a, GridSize) <= Trunc(b, GridSize)
<1>1. GridSize \in Nat /\ GridSize > 0
  BY GridSizeAssumption
<1>2. ASSUME NEW c \in Int, NEW d \in Int, c <= d
      PROVE  c \div GridSize <= d \div GridSize
  BY <1>1, <1>2
<1>3. ASSUME NEW c \in Int, c >= 0
      PROVE  c \div GridSize >= 0 /\ c \div GridSize \in Int
  BY <1>1, <1>3
<1>4. CASE a >= 0
  BY <1>2, <1>4 DEF Trunc
<1>5. CASE a < 0 /\ b >= 0
  BY <1>3, <1>5 DEF Trunc
<1>6. CASE b < 0
  <2>1. -b <= -a /\ a < 0 /\ -b \in Int /\ -a \in Int
    BY <1>6
  <2>2. (-b) \div GridSize <= (-a) \div GridSize
    BY <2>1, <1>2
  <2>3. (-b) \div GridSize \in Int /\ (-a) \div GridSize \in Int
    BY <2>1, <1>3, <1>6
  <2>4. QED  BY <2>1, <2>2, <2>3, <1>6 DEF Trunc
<1>7. QED  BY <1>4, <1>5, <1>6

\* A square is at least the square of anything smaller.
LEMMA SquareMonotonic ==
  ASSUME NEW a \in Nat, NEW b \in Nat, a <= b
  PROVE  a * a <= b * b
<1>1. a * a <= a * b
  OBVIOUS
<1>2. a * b <= b * b
  OBVIOUS
<1>3. QED  BY <1>1, <1>2

\* A point of the circle lies in the square around it.
LEMMA CircleInSquare ==
  ASSUME NEW dx \in Int, NEW dy \in Int, NEW r \in Nat, InCircle(dx, dy, r)
  PROVE  -r <= dx /\ dx <= r /\ -r <= dy /\ dy <= r
<1>1. ASSUME NEW d \in Int
      PROVE  d * d >= 0 /\ d * d \in Int /\ (-d) * (-d) = d * d
  OBVIOUS
<1>2. r * r \in Int
  OBVIOUS
<1>3. dx * dx < r * r /\ dy * dy < r * r
  BY <1>1, <1>2 DEF InCircle
<1>4. ASSUME NEW d \in Int, d * d < r * r
      PROVE  d <= r /\ -r <= d
  <2>1. ~ (d > r)
    <3> SUFFICES ASSUME d > r PROVE FALSE
      OBVIOUS
    <3>1. r * r <= d * d
      BY SquareMonotonic
    <3>2. QED  BY <3>1, <1>1, <1>2, <1>4
  <2>2. ~ (-d > r)
    <3> SUFFICES ASSUME -d > r PROVE FALSE
      OBVIOUS
    <3>1. -d \in Nat /\ r <= -d
      OBVIOUS
    <3>2. r * r <= (-d) * (-d)
      BY <3>1, SquareMonotonic
    <3>3. QED  BY <3>2, <1>1, <1>2, <1>4
  <2>3. QED  BY <2>1, <2>2
<1>5. QED  BY <1>3, <1>4

\* Whoever is in the circle stands in a cell the query visits.
LEMMA CircleInRange ==
  ASSUME NEW x \in Int, NEW y \in Int, NEW r \in Nat, NEW px \in Int, NEW py \in Int,
         InCircle(x - px, y - py, r)
  PROVE  CellInRange(calc_grid_pos(px, py), x, y, r)
<1>1. x - r <= px /\ px <= x + r /\ y - r <= py /\ py <= y + r
  BY CircleInSquare
<1>2. QED  BY <1>1, TruncMonotonic DEF CellInRange, calc_grid_pos

-----------------------------------------------------------------------------
(* Facts about the data *)

\* The largest radius is a natural number.
LEMMA MaxViewRadiusNat == MaxViewRadius \in Nat
  BY GridSizeAssumption DEF MaxViewRadius

\* A record operator[] inserts has the type of an entity.
LEMMA GhostType == Ghost \in Entity
  BY MaxViewRadiusNat DEF Ghost, Entity, Notify

\* A record add_entity inserts has the type of an entity.
LEMMA NewEntityType ==
  ASSUME NEW e \in Eids, NEW p \in Positions, NEW asked \in Radii
  PROVE  NewEntity(e, p, Clamped(asked)) \in Entity
<1>1. Clamped(asked) \in 0 .. MaxViewRadius
  BY MaxViewRadiusNat, RadiiAssumption DEF Clamped
<1>2. e \in Nat /\ p[1] \in Int /\ p[2] \in Int
  BY EidsAssumption, PositionsAssumption
<1>3. QED  BY <1>1, <1>2 DEF NewEntity, Entity, Notify

\* A round extends notifies by well-formed ones.
LEMMA TriggeredType ==
  ASSUME NEW notifies \in Seq(Notify), NEW old \in SUBSET Eids, NEW new \in SUBSET Eids
  PROVE  Triggered(notifies, old, new) \in Seq(Notify)
<1> DEFINE adds == IF new \ old = {} THEN <<>> ELSE <<[is_add |-> TRUE,  entities |-> new \ old]>>
           dels == IF old \ new = {} THEN <<>> ELSE <<[is_add |-> FALSE, entities |-> old \ new]>>
<1>1. [is_add |-> TRUE, entities |-> new \ old] \in Notify
  BY DEF Notify
<1>2. [is_add |-> FALSE, entities |-> old \ new] \in Notify
  BY DEF Notify
<1>3. adds \in Seq(Notify) /\ dels \in Seq(Notify)
  BY <1>1, <1>2
<1>4. notifies \o adds \in Seq(Notify)
  BY <1>3
<1>5. (notifies \o adds) \o dels \in Seq(Notify)
  BY <1>3, <1>4
<1>6. QED  BY <1>5 DEF Triggered

\* A record keeps its type when it moves and when its sight is replaced.
LEMMA MovedType ==
  ASSUME NEW r \in Entity, NEW x \in Int, NEW y \in Int
  PROVE  [[r EXCEPT !.x = x] EXCEPT !.y = y] \in Entity
  BY DEF Entity

LEMMA SightType ==
  ASSUME NEW r \in Entity, NEW i \in SUBSET Eids, NEW o \in SUBSET Eids, NEW n \in Seq(Notify)
  PROVE  [r EXCEPT !.interests = i, !.observers = o, !.notifies = n] \in Entity
  BY DEF Entity

LEMMA FetchedType ==
  ASSUME NEW r \in Entity
  PROVE  [r EXCEPT !.notifies = <<>>] \in Entity
<1>1. <<>> \in Seq(Notify)
  OBVIOUS
<1>2. QED  BY <1>1 DEF Entity

-----------------------------------------------------------------------------
(* Type correctness *)

LEMMA InitTypeOK == Init => TypeOK
  BY MaxMovesAssumption DEF Init, TypeOK, NoProbe

LEMMA AddEntityTypeOK ==
  ASSUME TypeOK, NEW e \in Eids, AddEntity(e)
  PROVE  TypeOK'
<1>1. PICK p \in Positions, asked \in Radii :
         /\ entities' = With(entities, e, NewEntity(e, p, Clamped(asked)))
         /\ grids' = [grids EXCEPT ![calc_grid_pos(p[1], p[2])] = @ \cup {e}]
  BY DEF AddEntity
<1>2. DOMAIN entities' \subseteq Eids /\ \A k \in DOMAIN entities' : entities'[k] \in Entity
  BY <1>1, NewEntityType DEF With, TypeOK
<1>3. grids' \in [Cells -> SUBSET Eids]
  BY <1>1 DEF TypeOK
<1>4. QED  BY <1>2, <1>3 DEF AddEntity, TypeOK, threadVars

LEMMA DelEntityTypeOK ==
  ASSUME TypeOK, NEW e \in Eids, DelEntity(e)
  PROVE  TypeOK'
  BY DEF DelEntity, Without, TypeOK, threadVars

LEMMA UpdateEntityTypeOK ==
  ASSUME TypeOK, NEW e \in Eids, UpdateEntity(e)
  PROVE  TypeOK'
<1>1. PICK p \in Positions :
         /\ grids' = Regrid(grids, e, calc_grid_pos(entities[e].x, entities[e].y),
                            calc_grid_pos(p[1], p[2]))
         /\ entities' = [entities EXCEPT ![e].x = p[1], ![e].y = p[2]]
  BY DEF UpdateEntity
<1>2. p[1] \in Int /\ p[2] \in Int
  BY PositionsAssumption
<1>3. DOMAIN entities' \subseteq Eids /\ \A k \in DOMAIN entities' : entities'[k] \in Entity
  <2>1. DOMAIN entities' = DOMAIN entities
    BY <1>1
  <2>2. ASSUME NEW k \in DOMAIN entities
        PROVE  entities'[k] = IF k = e THEN [[entities[k] EXCEPT !.x = p[1]] EXCEPT !.y = p[2]]
                                       ELSE entities[k]
    BY <1>1
  <2>3. \A k \in DOMAIN entities : entities[k] \in Entity
    BY DEF TypeOK
  <2>4. ASSUME NEW k \in DOMAIN entities
        PROVE  [[entities[k] EXCEPT !.x = p[1]] EXCEPT !.y = p[2]] \in Entity
    BY <1>2, <2>3, MovedType
  <2>5. \A k \in DOMAIN entities : entities'[k] \in Entity
    BY <2>2, <2>3, <2>4
  <2>6. QED  BY <2>1, <2>5 DEF TypeOK
<1>4. grids' \in [Cells -> SUBSET Eids]
  BY <1>1 DEF TypeOK, Regrid
<1>5. moves' \in 0 .. MaxMoves
  BY MaxMovesAssumption DEF UpdateEntity, TypeOK
<1>6. QED  BY <1>3, <1>4, <1>5 DEF UpdateEntity, TypeOK, threadVars

LEMMA FetchStateTypeOK ==
  ASSUME TypeOK, FetchState
  PROVE  TypeOK'
<1>1. \A e \in DOMAIN entities : [entities[e] EXCEPT !.notifies = <<>>] \in Entity
  BY FetchedType DEF TypeOK
<1>2. QED  BY <1>1 DEF FetchState, Fetched, TypeOK, threadVars

LEMMA ReadFirstTypeOK ==
  ASSUME TypeOK, NEW c \in Eids, ReadFirst(c)
  PROVE  TypeOK'
<1>1. DOMAIN entities' \subseteq Eids /\ c \in DOMAIN entities'
  BY DEF ReadFirst, With, TypeOK
<1>2. \A k \in DOMAIN entities' : entities'[k] \in Entity
  BY GhostType DEF ReadFirst, With, TypeOK
<1>3. entities'[c].x \in Int /\ entities'[c].y \in Int
  BY <1>1, <1>2 DEF Entity
<1>4. probe' \in [eid : Eids, axis : {"x", "y"}, value : Int]
  BY <1>3 DEF ReadFirst
<1>5. QED  BY <1>1, <1>2, <1>4 DEF ReadFirst, TypeOK, copyVars

LEMMA ReadSecondTypeOK ==
  ASSUME TypeOK, ReadSecond
  PROVE  TypeOK'
<1>1. found' \subseteq Eids
  <2>1. found' \subseteq found \cup {probe.eid}
    BY DEF ReadSecond
  <2>2. probe.eid \in Eids
    BY DEF ReadSecond, TypeOK
  <2>3. QED  BY <2>1, <2>2 DEF TypeOK
<1>2. QED  BY <1>1 DEF ReadSecond, TypeOK, mainVars, copyVars, NoProbe

LEMMA FinishQueryTypeOK ==
  ASSUME TypeOK, FinishQuery
  PROVE  TypeOK'
<1> DEFINE old == snap[cur].interests
           new == NewInterests(cur, found)
<1>1. ASSUME NEW b \in DOMAIN snap
      PROVE  snap'[b] \in Entity
  <2>1. snap[b] \in Entity /\ cur \in Eids /\ new \in SUBSET Eids
    BY <1>1 DEF FinishQuery, TypeOK, NewInterests
  <2>2. snap'[b] = [snap[b] EXCEPT
                      !.observers = Registered(@, cur, b, old, new),
                      !.interests = IF b = cur THEN new ELSE @,
                      !.notifies  = IF b = cur THEN Triggered(@, old, new) ELSE @]
    BY <1>1 DEF FinishQuery
  <2>3. Registered(snap[b].observers, cur, b, old, new) \in SUBSET Eids
    BY <2>1 DEF Registered, Entity
  <2>4. b = cur => Triggered(snap[b].notifies, old, new) \in Seq(Notify)
    BY <2>1, TriggeredType DEF Entity
  <2>5. QED  BY <2>1, <2>2, <2>3, <2>4 DEF Entity
<1>2. DOMAIN snap' = DOMAIN snap
  BY DEF FinishQuery
<1>3. QED  BY <1>1, <1>2 DEF FinishQuery, TypeOK, mainVars

LEMMA PublishTypeOK ==
  ASSUME TypeOK, Publish
  PROVE  TypeOK'
<1>1. ASSUME NEW e \in DOMAIN entities
      PROVE  entities'[e] \in Entity
  <2>1. entities[e] \in Entity
    BY DEF TypeOK
  <2>2. CASE e \in DOMAIN snap
    <3>1. snap[e].interests \in SUBSET Eids /\ snap[e].observers \in SUBSET Eids
             /\ snap[e].notifies \in Seq(Notify)
      BY <2>2 DEF TypeOK, Entity
    <3>2. QED  BY <2>1, <2>2, <3>1, SightType DEF Publish, Published
  <2>3. CASE e \notin DOMAIN snap
    BY <2>1, <2>3 DEF Publish, Published
  <2>4. QED  BY <2>2, <2>3
<1>2. DOMAIN entities' = DOMAIN entities
  BY DEF Publish, Published
<1>3. QED  BY <1>1, <1>2 DEF Publish, TypeOK, queryVars

LEMMA BeginQueryTypeOK ==
  ASSUME TypeOK, NEW a \in Eids, BeginQuery(a)
  PROVE  TypeOK'
  BY DEF BeginQuery, TypeOK, Candidates, mainVars, copyVars

LEMMA StepTypeOK == TypeOK /\ [Next]_vars => TypeOK'
<1> SUFFICES ASSUME TypeOK, [Next]_vars PROVE TypeOK'
  OBVIOUS
<1>1. ASSUME NEW e \in Eids, AddEntity(e) PROVE TypeOK'
  BY <1>1, AddEntityTypeOK
<1>2. ASSUME NEW e \in Eids, DelEntity(e) PROVE TypeOK'
  BY <1>2, DelEntityTypeOK
<1>3. ASSUME NEW e \in Eids, UpdateEntity(e) PROVE TypeOK'
  BY <1>3, UpdateEntityTypeOK
<1>4. CASE FetchState
  BY <1>4, FetchStateTypeOK
<1>5. CASE StopCall \/ StopSetFlag \/ StopJoin
  BY <1>5 DEF StopCall, StopSetFlag, StopJoin, TypeOK, mainVars, threadVars
<1>6. CASE ThreadStart \/ ThreadExit \/ Wake
  BY <1>6 DEF ThreadStart, ThreadExit, Wake, TypeOK, mainVars, copyVars, queryVars
<1>7. CASE Snapshot
  BY <1>7 DEF Snapshot, TypeOK
<1>8. ASSUME NEW a \in Eids, BeginQuery(a) PROVE TypeOK'
  BY <1>8, BeginQueryTypeOK
<1>9. ASSUME NEW a \in Eids, ReadFirst(a) PROVE TypeOK'
  BY <1>9, ReadFirstTypeOK
<1>10. CASE ReadSecond
  BY <1>10, ReadSecondTypeOK
<1>11. CASE FinishQuery
  BY <1>11, FinishQueryTypeOK
<1>12. CASE Publish
  BY <1>12, PublishTypeOK
<1>13. CASE UNCHANGED vars
  BY <1>13 DEF vars, TypeOK
<1>14. QED
  BY <1>1, <1>2, <1>3, <1>4, <1>5, <1>6, <1>7, <1>8, <1>9, <1>10, <1>11, <1>12, <1>13
  DEF Next, MainThread, AOIThread, Terminated

\* Every reachable state of the service is well-typed, and no stored radius
\* exceeds _max_view_radius.
THEOREM TypeCorrect == Spec => []TypeOK
<1>1. QED  BY InitTypeOK, StepTypeOK, PTL DEF Spec

-----------------------------------------------------------------------------
(* The inductive invariant *)

Fresh(e) == life[e] = "fresh"

\* The AOI thread's locals are in use only during a round.
LocalsInv ==
    /\ thread # "update" => /\ DOMAIN snap = {} /\ todo = {} /\ cur = 0
    /\ cur = 0 => cands = {} /\ found = {} /\ probe = NoProbe
    /\ todo \subseteq DOMAIN snap
    /\ cur # 0 => cur \in DOMAIN snap \ todo
    /\ cands \cup found \subseteq DOMAIN snap
    /\ probe # NoProbe => probe.eid \in DOMAIN snap
    /\ thread = "update" =>
          \A e \in Eids, c \in Cells : e \in snapGrids[c] => e \in DOMAIN snap

\* Ids that were never used are nowhere; members stand on points of the map.
UsedInv ==
    /\ \A e \in DOMAIN snap : ~Fresh(e)
    /\ \A e \in DOMAIN entities : ~Fresh(e)
    /\ \A e \in Members : <<entities[e].x, entities[e].y>> \in Positions

IndexInv == TypeOK /\ LocalsInv /\ UsedInv /\ GhostsInert /\ GridsMatch

\* The sight kept in a table mentions only used ids ...
SightUsed(table) ==
    \A e \in DOMAIN table, b \in Eids :
        b \in table[e].interests \cup table[e].observers => ~Fresh(b)

\* ... and is symmetric among members.
SightSymmetric(table) ==
    \A a, b \in Members \cap DOMAIN table :
        b \in table[a].interests <=> a \in table[b].observers

\* During a round the copy mentions no member it does not hold, and a member it
\* does not hold was added after the snapshot and has no sight yet.
RoundInv ==
    thread = "update" =>
        /\ \A a \in Members \cap DOMAIN snap, b \in Members :
              b \in snap[a].interests \cup snap[a].observers => b \in DOMAIN snap
        /\ \A a \in Members \ DOMAIN snap :
              /\ entities[a].interests = {}
              /\ entities[a].observers = {}

SymmetryInv ==
    /\ SightUsed(entities)
    /\ SightUsed(snap)
    /\ SightSymmetric(entities)
    /\ SightSymmetric(snap)
    /\ RoundInv

\* Members that were neither added nor moved since the snapshot.
Still == Members \ touched

\* During a round the copy is right about them: their records, their cells, the
\* sight of those already visited, and the answers collected for the current one.
FreshInv ==
    thread = "update" =>
        /\ \A a \in Still :
              /\ a \in DOMAIN snap
              /\ snap[a].x = entities[a].x
              /\ snap[a].y = entities[a].y
              /\ snap[a].radius = entities[a].radius
              /\ a \in snapGrids[calc_grid_pos(entities[a].x, entities[a].y)]
        /\ \A a, b \in Still :
              a \notin todo /\ a # cur =>
                  (b \in snap[a].interests <=> a # b /\ Sees(a, b))
        /\ \A b \in Still :
              cur \in Still =>
                  /\ b \in found => Sees(cur, b)
                  /\ Sees(cur, b) => b \in cands \cup found \cup {probe.eid}
        /\ probe # NoProbe /\ probe.eid \in Still =>
              probe.value = IF probe.axis = "x" THEN entities[probe.eid].x
                                                ELSE entities[probe.eid].y

-----------------------------------------------------------------------------
(* The table, the index and the locals of a round *)

LEMMA InitIndexInv == Init => IndexInv
<1> SUFFICES ASSUME Init PROVE IndexInv
  OBVIOUS
<1>1. TypeOK
  BY InitTypeOK
<1>2. Members = {}
  BY DEF Init, Members, Member
<1>3. LocalsInv /\ UsedInv /\ GhostsInert /\ GridsMatch
  BY <1>2 DEF Init, LocalsInv, UsedInv, GhostsInert, GridsMatch, Members, Member
<1>4. QED  BY <1>1, <1>3 DEF IndexInv

\* The cell of a point of the map is one of Cells.
LEMMA CellOfPosition ==
  ASSUME NEW x, NEW y, <<x, y>> \in Positions
  PROVE  calc_grid_pos(x, y) \in Cells
<1>1. <<x, y>>[1] = x /\ <<x, y>>[2] = y
  OBVIOUS
<1>2. QED  BY <1>1 DEF Cells

LEMMA AddEntityIndexInv ==
  ASSUME IndexInv, NEW e \in Eids, AddEntity(e)
  PROVE  LocalsInv' /\ UsedInv' /\ GhostsInert' /\ GridsMatch'
<1>1. PICK p \in Positions, asked \in Radii :
         /\ entities' = With(entities, e, NewEntity(e, p, Clamped(asked)))
         /\ grids' = [grids EXCEPT ![calc_grid_pos(p[1], p[2])] = @ \cup {e}]
  BY DEF AddEntity
<1>2. p = <<p[1], p[2]>>
  BY PositionsAssumption
<1>3. DOMAIN entities' = DOMAIN entities \cup {e} /\ e \notin DOMAIN entities
  BY <1>1 DEF AddEntity, With
<1>4. /\ entities'[e].eid = e
      /\ entities'[e].x = p[1]
      /\ entities'[e].y = p[2]
  BY <1>1 DEF With, NewEntity
<1>5. \A k \in DOMAIN entities : entities'[k] = entities[k] /\ k # e
  BY <1>1, <1>3 DEF With
<1>6. Members' = Members \cup {e} /\ e \notin Members
  BY DEF AddEntity, Members, Member, IndexInv, TypeOK
<1>7. LocalsInv'
  BY DEF AddEntity, threadVars, IndexInv, LocalsInv, NoProbe
<1>8. \A k \in Eids : k # e => life'[k] = life[k]
  BY DEF AddEntity, IndexInv, TypeOK
<1>9. life'[e] = "member" /\ life[e] = "fresh"
  BY DEF AddEntity, IndexInv, TypeOK
<1>10. UsedInv'
  <2>1. \A k \in DOMAIN snap' : ~Fresh(k)'
    BY <1>8, <1>9 DEF AddEntity, threadVars, IndexInv, UsedInv, Fresh, TypeOK
  <2>2. \A k \in DOMAIN entities' : ~Fresh(k)'
    BY <1>3, <1>8, <1>9 DEF IndexInv, UsedInv, Fresh, TypeOK
  <2>3. \A k \in Members' : <<entities'[k].x, entities'[k].y>> \in Positions
    BY <1>2, <1>4, <1>5, <1>6 DEF IndexInv, UsedInv, GhostsInert
  <2>4. QED  BY <2>1, <2>2, <2>3 DEF UsedInv
<1>11. GhostsInert'
  BY <1>3, <1>4, <1>5, <1>6, <1>8 DEF IndexInv, GhostsInert, TypeOK
<1>12. GridsMatch'
  <2> SUFFICES ASSUME NEW k \in Eids, NEW c \in Cells
               PROVE  k \in grids'[c] <=> /\ Member(k)'
                                          /\ c = calc_grid_pos(entities'[k].x, entities'[k].y)
    BY DEF GridsMatch
  <2>1. grids'[c] = IF c = calc_grid_pos(p[1], p[2]) THEN grids[c] \cup {e} ELSE grids[c]
    BY <1>1 DEF IndexInv, TypeOK
  <2>2. CASE k = e
    <3>1. e \notin grids[c]
      BY <1>9 DEF IndexInv, GridsMatch, Member
    <3>2. QED  BY <2>1, <2>2, <3>1, <1>4, <1>9 DEF Member
  <2>3. CASE k # e
    <3>1. k \in grids'[c] <=> k \in grids[c]
      BY <2>1, <2>3
    <3>2. Member(k)' <=> Member(k)
      BY <2>3, <1>8 DEF Member
    <3>3. Member(k) => entities'[k] = entities[k]
      BY <1>5 DEF IndexInv, GhostsInert, Members
    <3>4. QED  BY <3>1, <3>2, <3>3 DEF IndexInv, GridsMatch
  <2>4. QED  BY <2>2, <2>3
<1>13. QED  BY <1>7, <1>10, <1>11, <1>12

LEMMA DelEntityIndexInv ==
  ASSUME IndexInv, NEW e \in Eids, DelEntity(e)
  PROVE  LocalsInv' /\ UsedInv' /\ GhostsInert' /\ GridsMatch'
<1>1. DOMAIN entities' = DOMAIN entities \ {e}
  BY DEF DelEntity, Without
<1>2. \A k \in DOMAIN entities : k # e => entities'[k] = entities[k]
  BY DEF DelEntity, Without
<1>3. Members' = Members \ {e} /\ e \in Members
  BY DEF DelEntity, Members, Member, IndexInv, TypeOK
<1>4. \A k \in Eids : k # e => life'[k] = life[k]
  BY DEF DelEntity, IndexInv, TypeOK
<1>5. life'[e] = "gone"
  BY DEF DelEntity, IndexInv, TypeOK
<1>6. LocalsInv'
  BY DEF DelEntity, threadVars, IndexInv, LocalsInv, NoProbe
<1>7. UsedInv'
  BY <1>1, <1>2, <1>3, <1>4, <1>5
  DEF DelEntity, threadVars, IndexInv, UsedInv, GhostsInert, Fresh, TypeOK
<1>8. GhostsInert'
  BY <1>1, <1>2, <1>3, <1>4 DEF IndexInv, GhostsInert, TypeOK
<1>9. GridsMatch'
  <2> SUFFICES ASSUME NEW k \in Eids, NEW c \in Cells
               PROVE  k \in grids'[c] <=> /\ Member(k)'
                                          /\ c = calc_grid_pos(entities'[k].x, entities'[k].y)
    BY DEF GridsMatch
  <2>1. grids'[c] = IF c = calc_grid_pos(entities[e].x, entities[e].y)
                    THEN grids[c] \ {e} ELSE grids[c]
    BY DEF DelEntity, IndexInv, TypeOK
  <2>2. CASE k = e
    <3>1. k \notin grids'[c]
      BY <2>1, <2>2 DEF IndexInv, GridsMatch
    <3>2. QED  BY <3>1, <2>2, <1>5 DEF Member
  <2>3. CASE k # e
    <3>1. k \in grids'[c] <=> k \in grids[c]
      BY <2>1, <2>3
    <3>2. Member(k)' <=> Member(k)
      BY <2>3, <1>4 DEF Member
    <3>3. Member(k) => entities'[k] = entities[k]
      BY <1>2, <2>3 DEF IndexInv, GhostsInert, Members
    <3>4. QED  BY <3>1, <3>2, <3>3 DEF IndexInv, GridsMatch
  <2>4. QED  BY <2>2, <2>3
<1>10. QED  BY <1>6, <1>7, <1>8, <1>9

LEMMA UpdateEntityIndexInv ==
  ASSUME IndexInv, NEW e \in Eids, UpdateEntity(e)
  PROVE  LocalsInv' /\ UsedInv' /\ GhostsInert' /\ GridsMatch'
<1>1. PICK p \in Positions :
         /\ grids' = Regrid(grids, e, calc_grid_pos(entities[e].x, entities[e].y),
                            calc_grid_pos(p[1], p[2]))
         /\ entities' = [entities EXCEPT ![e].x = p[1], ![e].y = p[2]]
  BY DEF UpdateEntity
<1>2. p = <<p[1], p[2]>>
  BY PositionsAssumption
<1>3. DOMAIN entities' = DOMAIN entities
  BY <1>1
<1>4. \A k \in DOMAIN entities : k # e => entities'[k] = entities[k]
  BY <1>1
<1>5. entities[e] \in Entity /\ e \in DOMAIN entities /\ Member(e) /\ e \in Members
  BY DEF UpdateEntity, IndexInv, TypeOK, Members
<1>6. /\ entities'[e].eid = entities[e].eid
      /\ entities'[e].x = p[1]
      /\ entities'[e].y = p[2]
  BY <1>1, <1>5 DEF Entity
<1>7. UNCHANGED <<life, Members>>
  BY DEF UpdateEntity, Members, Member
<1>8. LocalsInv'
  BY DEF UpdateEntity, threadVars, IndexInv, LocalsInv, NoProbe
<1>9. UsedInv'
  <2>1. \A k \in Members : <<entities'[k].x, entities'[k].y>> \in Positions
    BY <1>2, <1>4, <1>6 DEF IndexInv, UsedInv, GhostsInert
  <2>2. DOMAIN snap' = DOMAIN snap
    BY DEF UpdateEntity, threadVars
  <2>3. QED  BY <1>3, <1>7, <2>1, <2>2 DEF IndexInv, UsedInv, Fresh
<1>10. GhostsInert'
  BY <1>3, <1>4, <1>5, <1>6, <1>7 DEF IndexInv, GhostsInert
<1>11. GridsMatch'
  <2> SUFFICES ASSUME NEW k \in Eids, NEW c \in Cells
               PROVE  k \in grids'[c] <=> /\ Member(k)
                                          /\ c = calc_grid_pos(entities'[k].x, entities'[k].y)
    BY <1>7 DEF GridsMatch, Member
  <2> DEFINE old == calc_grid_pos(entities[e].x, entities[e].y)
             new == calc_grid_pos(p[1], p[2])
  <2>1. k # e => (k \in grids'[c] <=> k \in grids[c])
    BY <1>1 DEF Regrid
  <2>2. e \in grids'[c] <=> c = new
    <3>1. e \in grids[c] <=> c = old
      BY <1>5 DEF IndexInv, GridsMatch
    <3>2. CASE old = new
      BY <3>1, <3>2, <1>1 DEF Regrid
    <3>3. CASE old # new
      BY <3>1, <3>3, <1>1 DEF Regrid
    <3>4. QED  BY <3>2, <3>3
  <2>3. CASE k = e
    BY <2>2, <2>3, <1>5, <1>6
  <2>4. CASE k # e
    <3>1. Member(k) => entities'[k] = entities[k]
      BY <1>4, <2>4 DEF IndexInv, GhostsInert, Members
    <3>2. QED  BY <2>1, <2>4, <3>1 DEF IndexInv, GridsMatch
  <2>5. QED  BY <2>3, <2>4
<1>12. QED  BY <1>8, <1>9, <1>10, <1>11

LEMMA FetchStateIndexInv ==
  ASSUME IndexInv, FetchState
  PROVE  LocalsInv' /\ UsedInv' /\ GhostsInert' /\ GridsMatch'
<1>1. DOMAIN entities' = DOMAIN entities
  BY DEF FetchState, Fetched
<1>2. ASSUME NEW e \in DOMAIN entities
      PROVE  /\ entities'[e].eid = entities[e].eid
             /\ entities'[e].x = entities[e].x
             /\ entities'[e].y = entities[e].y
             /\ entities'[e].radius = entities[e].radius
  BY DEF FetchState, Fetched, IndexInv, TypeOK, Entity
<1>3. UNCHANGED <<life, Members, grids, threadVars>>
  BY DEF FetchState, Members, Member
<1>4. LocalsInv'
  BY <1>3 DEF threadVars, IndexInv, LocalsInv, NoProbe
<1>5. UsedInv' /\ GhostsInert' /\ GridsMatch'
  BY <1>1, <1>2, <1>3
  DEF threadVars, IndexInv, UsedInv, GhostsInert, GridsMatch, Fresh, Member, Members
<1>6. QED  BY <1>4, <1>5

\* A snapshot holds every id its index lists.
LEMMA SnapshotIndexInv ==
  ASSUME IndexInv, Snapshot
  PROVE  LocalsInv' /\ UsedInv' /\ GhostsInert' /\ GridsMatch'
<1>1. \A e \in Eids, c \in Cells : e \in grids[c] => e \in DOMAIN entities
  BY DEF IndexInv, GridsMatch, GhostsInert, Members
<1>2. cur = 0
  BY DEF Snapshot, IndexInv, LocalsInv
<1>3. LocalsInv'
  BY <1>1, <1>2 DEF Snapshot, IndexInv, LocalsInv, NoProbe
<1>4. UsedInv' /\ GhostsInert' /\ GridsMatch'
  BY DEF Snapshot, IndexInv, UsedInv, GhostsInert, GridsMatch, Members, Member, Fresh
<1>5. QED  BY <1>3, <1>4

LEMMA BeginQueryIndexInv ==
  ASSUME IndexInv, NEW a \in Eids, BeginQuery(a)
  PROVE  LocalsInv' /\ UsedInv' /\ GhostsInert' /\ GridsMatch'
<1>1. cands' \subseteq DOMAIN snap
  BY DEF BeginQuery, Candidates, IndexInv, LocalsInv
<1>2. a # 0 /\ a \in DOMAIN snap
  BY EidsAssumption DEF BeginQuery, IndexInv, LocalsInv
<1>3. LocalsInv'
  BY <1>1, <1>2 DEF BeginQuery, copyVars, IndexInv, LocalsInv, NoProbe
<1>4. UsedInv' /\ GhostsInert' /\ GridsMatch'
  BY DEF BeginQuery, mainVars, copyVars, IndexInv, UsedInv, GhostsInert, GridsMatch,
         Members, Member, Fresh
<1>5. QED  BY <1>3, <1>4

\* What a read of a missing record leaves behind is a ghost of a deleted entity.
LEMMA ReadFirstIndexInv ==
  ASSUME IndexInv, NEW c \in Eids, ReadFirst(c)
  PROVE  LocalsInv' /\ UsedInv' /\ GhostsInert' /\ GridsMatch'
<1>1. c \in DOMAIN snap
  BY DEF ReadFirst, IndexInv, LocalsInv
<1>2. LocalsInv'
  <2>1. probe'.eid = c /\ probe' # NoProbe
    BY EidsAssumption DEF ReadFirst, NoProbe
  <2>2. QED  BY <1>1, <2>1 DEF ReadFirst, copyVars, IndexInv, LocalsInv
<1>3. CASE c \in DOMAIN entities
  BY <1>2, <1>3 DEF ReadFirst, copyVars, IndexInv, UsedInv, GhostsInert, GridsMatch,
                    Members, Member, Fresh
<1>4. CASE c \notin DOMAIN entities
  <2>1. DOMAIN entities' = DOMAIN entities \cup {c} /\ entities'[c] = Ghost
    BY <1>4 DEF ReadFirst, With
  <2>2. \A k \in DOMAIN entities : entities'[k] = entities[k]
    BY <1>4 DEF ReadFirst, With
  <2>3. c \notin Members /\ life[c] = "gone"
    BY <1>1, <1>4 DEF IndexInv, GhostsInert, UsedInv, Fresh, Members, Member, TypeOK
  <2>4. UNCHANGED <<life, Members, grids>>
    BY DEF ReadFirst, Members, Member
  <2>5. UsedInv'
    BY <2>1, <2>2, <2>3, <2>4 DEF ReadFirst, copyVars, IndexInv, UsedInv, GhostsInert, Fresh
  <2>6. GhostsInert'
    BY <2>1, <2>2, <2>3, <2>4 DEF IndexInv, GhostsInert, Ghost
  <2>7. GridsMatch'
    BY <2>2, <2>4 DEF IndexInv, GridsMatch, GhostsInert, Members, Member
  <2>8. QED  BY <1>2, <2>5, <2>6, <2>7
<1>5. QED  BY <1>3, <1>4

LEMMA ReadSecondIndexInv ==
  ASSUME IndexInv, ReadSecond
  PROVE  LocalsInv' /\ UsedInv' /\ GhostsInert' /\ GridsMatch'
<1>1. found' \subseteq found \cup {probe.eid} /\ cur # 0
  BY DEF ReadSecond, IndexInv, LocalsInv
<1>2. LocalsInv'
  BY <1>1 DEF ReadSecond, copyVars, IndexInv, LocalsInv
<1>3. UsedInv' /\ GhostsInert' /\ GridsMatch'
  BY DEF ReadSecond, mainVars, copyVars, IndexInv, UsedInv, GhostsInert, GridsMatch,
         Members, Member, Fresh
<1>4. QED  BY <1>2, <1>3

LEMMA FinishQueryIndexInv ==
  ASSUME IndexInv, FinishQuery
  PROVE  LocalsInv' /\ UsedInv' /\ GhostsInert' /\ GridsMatch'
<1>1. DOMAIN snap' = DOMAIN snap
  BY DEF FinishQuery
<1>2. LocalsInv'
  BY <1>1 DEF FinishQuery, IndexInv, LocalsInv
<1>3. UsedInv' /\ GhostsInert' /\ GridsMatch'
  BY <1>1 DEF FinishQuery, mainVars, IndexInv, UsedInv, GhostsInert, GridsMatch,
              Members, Member, Fresh
<1>4. QED  BY <1>2, <1>3

LEMMA PublishIndexInv ==
  ASSUME IndexInv, Publish
  PROVE  LocalsInv' /\ UsedInv' /\ GhostsInert' /\ GridsMatch'
<1>1. DOMAIN entities' = DOMAIN entities
  BY DEF Publish, Published
<1>2. ASSUME NEW e \in DOMAIN entities
      PROVE  /\ entities'[e].eid = entities[e].eid
             /\ entities'[e].x = entities[e].x
             /\ entities'[e].y = entities[e].y
             /\ entities'[e].radius = entities[e].radius
  <2>1. entities[e] \in Entity
    BY DEF IndexInv, TypeOK
  <2>2. QED  BY <2>1 DEF Publish, Published, Entity
<1>3. UNCHANGED <<life, Members, grids>>
  BY DEF Publish, Members, Member
<1>4. LocalsInv'
  BY DEF Publish, queryVars, IndexInv, LocalsInv
<1>5. UsedInv' /\ GhostsInert' /\ GridsMatch'
  BY <1>1, <1>2, <1>3
  DEF Publish, IndexInv, UsedInv, GhostsInert, GridsMatch, Fresh, Member, Members
<1>6. QED  BY <1>4, <1>5

LEMMA OtherIndexInv ==
  ASSUME IndexInv,
         \/ StopCall \/ StopSetFlag \/ StopJoin
         \/ ThreadStart \/ ThreadExit \/ Wake
         \/ UNCHANGED vars
  PROVE  LocalsInv' /\ UsedInv' /\ GhostsInert' /\ GridsMatch'
<1>1. UNCHANGED <<entities, grids, life, snap, snapGrids, todo, cur, cands, found, probe>>
  BY DEF StopCall, StopSetFlag, StopJoin, ThreadStart, ThreadExit, Wake,
         vars, mainVars, threadVars, copyVars, queryVars
<1>2. thread' = thread \/ (thread # "update" /\ thread' # "update")
  BY DEF StopCall, StopSetFlag, StopJoin, ThreadStart, ThreadExit, Wake, vars, threadVars
<1>3. LocalsInv'
  BY <1>1, <1>2 DEF IndexInv, LocalsInv, NoProbe
<1>4. UsedInv' /\ GhostsInert' /\ GridsMatch'
  BY <1>1 DEF IndexInv, UsedInv, GhostsInert, GridsMatch, Members, Member, Fresh
<1>5. QED  BY <1>3, <1>4

LEMMA StepIndexInv == IndexInv /\ [Next]_vars => IndexInv'
<1> SUFFICES ASSUME IndexInv, [Next]_vars
             PROVE  LocalsInv' /\ UsedInv' /\ GhostsInert' /\ GridsMatch'
  BY StepTypeOK DEF IndexInv
<1> DEFINE Goal == LocalsInv' /\ UsedInv' /\ GhostsInert' /\ GridsMatch'
<1>1. ASSUME NEW e \in Eids, AddEntity(e) PROVE Goal
  BY <1>1, AddEntityIndexInv
<1>2. ASSUME NEW e \in Eids, DelEntity(e) PROVE Goal
  BY <1>2, DelEntityIndexInv
<1>3. ASSUME NEW e \in Eids, UpdateEntity(e) PROVE Goal
  BY <1>3, UpdateEntityIndexInv
<1>4. CASE FetchState
  BY <1>4, FetchStateIndexInv
<1>5. CASE Snapshot
  BY <1>5, SnapshotIndexInv
<1>6. ASSUME NEW a \in Eids, BeginQuery(a) PROVE Goal
  BY <1>6, BeginQueryIndexInv
<1>7. ASSUME NEW a \in Eids, ReadFirst(a) PROVE Goal
  BY <1>7, ReadFirstIndexInv
<1>8. CASE ReadSecond
  BY <1>8, ReadSecondIndexInv
<1>9. CASE FinishQuery
  BY <1>9, FinishQueryIndexInv
<1>10. CASE Publish
  BY <1>10, PublishIndexInv
<1>11. CASE \/ StopCall \/ StopSetFlag \/ StopJoin
            \/ ThreadStart \/ ThreadExit \/ Wake
            \/ UNCHANGED vars
  BY <1>11, OtherIndexInv
<1>12. QED
  BY <1>1, <1>2, <1>3, <1>4, <1>5, <1>6, <1>7, <1>8, <1>9, <1>10, <1>11
  DEF Next, MainThread, AOIThread, Terminated

LEMMA IndexCorrect == Spec => []IndexInv
<1>1. QED  BY InitIndexInv, StepIndexInv, PTL DEF Spec

\* A cell always lists exactly the members standing on it.
THEOREM GridsAlwaysMatch == Spec => []GridsMatch
<1>1. IndexInv => GridsMatch
  BY DEF IndexInv
<1>2. QED  BY <1>1, IndexCorrect, PTL

\* Whatever the unlocked query inserts, what is not a member stays blank.
THEOREM GhostsAlwaysInert == Spec => []GhostsInert
<1>1. IndexInv => GhostsInert
  BY DEF IndexInv
<1>2. QED  BY <1>1, IndexCorrect, PTL

\* The unlocked query never meets an id the copy does not hold, although the live
\* table and index change under it.
THEOREM QueryAlwaysStaysInCopy == Spec => []QueryStaysInCopy
<1>1. IndexInv => QueryStaysInCopy
  BY DEF IndexInv, LocalsInv, QueryStaysInCopy
<1>2. QED  BY <1>1, IndexCorrect, PTL

\* The locked query answers like a scan of all members, for every cell size and radius.
THEOREM QueryAlwaysExact == Spec => []QueryExact
<1>1. IndexInv => QueryExact
  <2> SUFFICES ASSUME IndexInv, NEW p \in Positions, NEW radius \in Radii
               PROVE  EntitiesInCircle(p[1], p[2], radius) =
                        {e \in Members : InCircle(p[1] - entities[e].x,
                                                  p[2] - entities[e].y, radius)}
    BY DEF QueryExact
  <2>1. p[1] \in Int /\ p[2] \in Int /\ radius \in Nat
    BY PositionsAssumption, RadiiAssumption
  <2>2. Candidates(p[1], p[2], radius, grids) \subseteq Members
    BY DEF Candidates, IndexInv, GridsMatch, Members
  <2>3. ASSUME NEW e \in Members, InCircle(p[1] - entities[e].x, p[2] - entities[e].y, radius)
        PROVE  e \in Candidates(p[1], p[2], radius, grids)
    <3> DEFINE c == calc_grid_pos(entities[e].x, entities[e].y)
    <3>1. e \in Eids /\ Member(e) /\ entities[e].x \in Int /\ entities[e].y \in Int
      BY DEF Members, IndexInv, TypeOK, GhostsInert, Entity
    <3>2. c \in Cells
      BY CellOfPosition DEF IndexInv, UsedInv
    <3>3. e \in grids[c]
      BY <3>1, <3>2 DEF IndexInv, GridsMatch
    <3>4. CellInRange(c, p[1], p[2], radius)
      BY <2>1, <2>3, <3>1, CircleInRange
    <3>5. QED  BY <3>1, <3>2, <3>3, <3>4 DEF Candidates
  <2>4. QED  BY <2>2, <2>3 DEF EntitiesInCircle
<1>2. QED  BY <1>1, IndexCorrect, PTL

-----------------------------------------------------------------------------
(* Symmetry of interests and observers *)

LEMMA InitSymmetryInv == Init => SymmetryInv
  BY DEF Init, SymmetryInv, SightUsed, SightSymmetric, RoundInv

LEMMA AddEntitySymmetryInv ==
  ASSUME IndexInv, SymmetryInv, NEW e \in Eids, AddEntity(e)
  PROVE  SymmetryInv'
<1>1. PICK p \in Positions, asked \in Radii :
         entities' = With(entities, e, NewEntity(e, p, Clamped(asked)))
  BY DEF AddEntity
<1>2. DOMAIN entities' = DOMAIN entities \cup {e} /\ e \notin DOMAIN entities
  BY <1>1 DEF AddEntity, With
<1>3. entities'[e].interests = {} /\ entities'[e].observers = {}
  BY <1>1 DEF With, NewEntity
<1>4. \A k \in DOMAIN entities : entities'[k] = entities[k] /\ k # e
  BY <1>1, <1>2 DEF With
<1>5. Members' = Members \cup {e}
  BY DEF AddEntity, Members, Member, IndexInv, TypeOK
<1>6. life[e] = "fresh" /\ life'[e] = "member" /\ \A k \in Eids : k # e => life'[k] = life[k]
  BY DEF AddEntity, IndexInv, TypeOK
<1>7. UNCHANGED <<snap, thread>>
  BY DEF AddEntity, threadVars
<1>8. SightUsed(entities)'
  BY <1>2, <1>3, <1>4, <1>6 DEF SymmetryInv, SightUsed, Fresh
<1>9. SightUsed(snap)'
  BY <1>6, <1>7 DEF SymmetryInv, SightUsed, Fresh
<1>10. \A k \in DOMAIN entities : e \notin entities[k].interests \cup entities[k].observers
  BY <1>6 DEF SymmetryInv, SightUsed, Fresh
<1>11. SightSymmetric(entities)'
  BY <1>2, <1>3, <1>4, <1>5, <1>10 DEF SymmetryInv, SightSymmetric
<1>12. e \notin DOMAIN snap
  BY <1>6 DEF IndexInv, UsedInv, Fresh
<1>13. SightSymmetric(snap)'
  BY <1>5, <1>7, <1>12 DEF SymmetryInv, SightSymmetric
<1>14. RoundInv'
  <2> SUFFICES ASSUME thread = "update"
               PROVE  /\ \A a \in Members' \cap DOMAIN snap, b \in Members' :
                            b \in snap[a].interests \cup snap[a].observers => b \in DOMAIN snap
                      /\ \A a \in Members' \ DOMAIN snap :
                            entities'[a].interests = {} /\ entities'[a].observers = {}
    BY <1>7 DEF RoundInv
  <2>1. \A k \in DOMAIN snap : e \notin snap[k].interests \cup snap[k].observers
    BY <1>6 DEF SymmetryInv, SightUsed, Fresh
  <2>2. \A a \in Members : a \in DOMAIN entities
    BY DEF IndexInv, GhostsInert
  <2>3. QED  BY <2>1, <2>2, <1>3, <1>4, <1>5, <1>12 DEF SymmetryInv, RoundInv
<1>15. QED  BY <1>8, <1>9, <1>11, <1>13, <1>14 DEF SymmetryInv

LEMMA DelEntitySymmetryInv ==
  ASSUME IndexInv, SymmetryInv, NEW e \in Eids, DelEntity(e)
  PROVE  SymmetryInv'
<1>1. DOMAIN entities' = DOMAIN entities \ {e}
  BY DEF DelEntity, Without
<1>2. \A k \in DOMAIN entities' : entities'[k] = entities[k]
  BY DEF DelEntity, Without
<1>3. Members' = Members \ {e}
  BY DEF DelEntity, Members, Member, IndexInv, TypeOK
<1>4. \A k \in Eids : ~Fresh(k) => ~Fresh(k)'
  BY DEF DelEntity, Fresh, IndexInv, TypeOK
<1>5. UNCHANGED <<snap, thread>>
  BY DEF DelEntity, threadVars
<1>6. SightUsed(entities)' /\ SightUsed(snap)'
  BY <1>1, <1>2, <1>4, <1>5 DEF SymmetryInv, SightUsed
<1>7. SightSymmetric(entities)' /\ SightSymmetric(snap)'
  BY <1>1, <1>2, <1>3, <1>5 DEF SymmetryInv, SightSymmetric
<1>8. RoundInv'
  BY <1>1, <1>2, <1>3, <1>5 DEF SymmetryInv, RoundInv, IndexInv, GhostsInert
<1>9. QED  BY <1>6, <1>7, <1>8 DEF SymmetryInv

\* A step that leaves the sight of every record alone keeps the invariant.
LEMMA SameSight ==
  ASSUME SymmetryInv, UNCHANGED <<life, snap>>,
         DOMAIN entities' = DOMAIN entities,
         \A k \in DOMAIN entities : /\ entities'[k].interests = entities[k].interests
                                    /\ entities'[k].observers = entities[k].observers,
         thread' = "update" => thread = "update",
         GhostsInert
  PROVE  SymmetryInv'
<1>1. Members' = Members /\ Members \subseteq DOMAIN entities
  BY DEF Members, Member, GhostsInert
<1>2. SightUsed(entities)' /\ SightUsed(snap)'
  BY DEF SymmetryInv, SightUsed, Fresh
<1>3. SightSymmetric(entities)' /\ SightSymmetric(snap)'
  BY <1>1 DEF SymmetryInv, SightSymmetric
<1>4. RoundInv'
  BY <1>1 DEF SymmetryInv, RoundInv
<1>5. QED  BY <1>2, <1>3, <1>4 DEF SymmetryInv

LEMMA UpdateEntitySymmetryInv ==
  ASSUME IndexInv, SymmetryInv, NEW e \in Eids, UpdateEntity(e)
  PROVE  SymmetryInv'
<1>1. PICK p \in Positions : entities' = [entities EXCEPT ![e].x = p[1], ![e].y = p[2]]
  BY DEF UpdateEntity
<1>2. ASSUME NEW k \in DOMAIN entities
      PROVE  /\ entities'[k].interests = entities[k].interests
             /\ entities'[k].observers = entities[k].observers
  <2>1. entities[k] \in Entity
    BY DEF IndexInv, TypeOK
  <2>2. QED  BY <1>1, <2>1 DEF Entity
<1>3. QED  BY <1>1, <1>2, SameSight DEF UpdateEntity, threadVars, IndexInv

LEMMA FetchStateSymmetryInv ==
  ASSUME IndexInv, SymmetryInv, FetchState
  PROVE  SymmetryInv'
<1>1. ASSUME NEW k \in DOMAIN entities
      PROVE  /\ entities'[k].interests = entities[k].interests
             /\ entities'[k].observers = entities[k].observers
  <2>1. entities[k] \in Entity
    BY DEF IndexInv, TypeOK
  <2>2. QED  BY <2>1 DEF FetchState, Fetched, Entity
<1>2. QED  BY <1>1, SameSight DEF FetchState, Fetched, threadVars, IndexInv

LEMMA SnapshotSymmetryInv ==
  ASSUME IndexInv, SymmetryInv, Snapshot
  PROVE  SymmetryInv'
<1>1. Members' = Members /\ UNCHANGED <<entities, life>> /\ snap' = entities
  BY DEF Snapshot, Members, Member
<1>2. Members \subseteq DOMAIN entities
  BY DEF IndexInv, GhostsInert
<1>3. RoundInv'
  BY <1>1, <1>2 DEF RoundInv
<1>4. QED  BY <1>1, <1>3 DEF SymmetryInv, SightUsed, SightSymmetric, Fresh

LEMMA ReadFirstSymmetryInv ==
  ASSUME IndexInv, SymmetryInv, NEW c \in Eids, ReadFirst(c)
  PROVE  SymmetryInv'
<1>1. CASE c \in DOMAIN entities
  BY <1>1, SameSight DEF ReadFirst, copyVars, IndexInv
<1>2. CASE c \notin DOMAIN entities
  <2>1. DOMAIN entities' = DOMAIN entities \cup {c} /\ entities'[c] = Ghost
    BY <1>2 DEF ReadFirst, With
  <2>2. \A k \in DOMAIN entities : entities'[k] = entities[k]
    BY <1>2 DEF ReadFirst, With
  <2>3. Members' = Members /\ Members \subseteq DOMAIN entities /\ c \notin Members
    BY <1>2 DEF ReadFirst, Members, Member, IndexInv, GhostsInert
  <2>4. UNCHANGED <<life, snap, thread>>
    BY DEF ReadFirst, copyVars
  <2>5. SightUsed(entities)' /\ SightUsed(snap)'
    BY <2>1, <2>2, <2>4 DEF SymmetryInv, SightUsed, Ghost, Fresh
  <2>6. SightSymmetric(entities)' /\ SightSymmetric(snap)'
    BY <2>1, <2>2, <2>3, <2>4 DEF SymmetryInv, SightSymmetric
  <2>7. RoundInv'
    BY <2>2, <2>3, <2>4 DEF SymmetryInv, RoundInv
  <2>8. QED  BY <2>5, <2>6, <2>7 DEF SymmetryInv
<1>3. QED  BY <1>1, <1>2

\* The visit of cur replaces its interests and mirrors the change in the observers
\* of the others; its own observers are left alone, as it is not in its interests.
LEMMA FinishQuerySymmetryInv ==
  ASSUME IndexInv, SymmetryInv, FinishQuery
  PROVE  SymmetryInv'
<1> DEFINE old == snap[cur].interests
           new == NewInterests(cur, found)
<1>1. cur \in DOMAIN snap /\ new \subseteq DOMAIN snap /\ DOMAIN snap \subseteq Eids
  BY DEF FinishQuery, IndexInv, LocalsInv, TypeOK, NewInterests
<1>2. DOMAIN snap' = DOMAIN snap
  BY DEF FinishQuery
<1>3. ASSUME NEW b \in DOMAIN snap
      PROVE  /\ snap'[b].interests = IF b = cur THEN new ELSE snap[b].interests
             /\ snap'[b].observers = Registered(snap[b].observers, cur, b, old, new)
  <2>1. snap[b] \in Entity
    BY DEF IndexInv, TypeOK
  <2>2. QED  BY <2>1 DEF FinishQuery, Entity
<1>4. UNCHANGED <<entities, life, thread, Members>>
  BY DEF FinishQuery, mainVars, Members, Member
<1>5. SightUsed(entities)'
  BY <1>4 DEF SymmetryInv, SightUsed, Fresh
<1>6. \A b \in DOMAIN snap : ~Fresh(b)
  BY DEF IndexInv, UsedInv
<1>7. SightUsed(snap)'
  <2> SUFFICES ASSUME NEW e \in DOMAIN snap, NEW b \in Eids,
                      b \in snap'[e].interests \cup snap'[e].observers
               PROVE  ~Fresh(b)
    BY <1>2, <1>4 DEF SightUsed, Fresh
  <2>1. b \in new \cup {cur} \cup snap[e].interests \cup snap[e].observers
    BY <1>3 DEF Registered
  <2>2. QED  BY <2>1, <1>1, <1>6 DEF SymmetryInv, SightUsed
<1>8. SightSymmetric(entities)'
  BY <1>4 DEF SymmetryInv, SightSymmetric
<1>9. SightSymmetric(snap)'
  <2> SUFFICES ASSUME NEW a \in Members \cap DOMAIN snap, NEW b \in Members \cap DOMAIN snap
               PROVE  b \in snap'[a].interests <=> a \in snap'[b].observers
    BY <1>2, <1>4 DEF SightSymmetric
  <2>1. b \in snap[a].interests <=> a \in snap[b].observers
    BY DEF SymmetryInv, SightSymmetric
  <2>2. CASE a = cur
    BY <2>1, <2>2, <1>3 DEF Registered
  <2>3. CASE a # cur
    BY <2>1, <2>3, <1>3 DEF Registered
  <2>4. QED  BY <2>2, <2>3
<1>10. RoundInv'
  <2> SUFFICES ASSUME NEW a \in Members \cap DOMAIN snap, NEW b \in Members,
                      thread = "update",
                      b \in snap'[a].interests \cup snap'[a].observers
               PROVE  b \in DOMAIN snap
    BY <1>2, <1>4 DEF RoundInv, SymmetryInv
  <2>1. b \in new \cup {cur} \cup snap[a].interests \cup snap[a].observers
    BY <1>3 DEF Registered
  <2>2. QED  BY <2>1, <1>1 DEF SymmetryInv, RoundInv
<1>11. QED  BY <1>5, <1>7, <1>8, <1>9, <1>10 DEF SymmetryInv

LEMMA PublishSymmetryInv ==
  ASSUME IndexInv, SymmetryInv, Publish
  PROVE  SymmetryInv'
<1>1. DOMAIN entities' = DOMAIN entities
  BY DEF Publish, Published
<1>2. ASSUME NEW e \in DOMAIN entities
      PROVE  /\ entities'[e].interests = IF e \in DOMAIN snap THEN snap[e].interests
                                                              ELSE entities[e].interests
             /\ entities'[e].observers = IF e \in DOMAIN snap THEN snap[e].observers
                                                              ELSE entities[e].observers
  <2>1. entities[e] \in Entity
    BY DEF IndexInv, TypeOK
  <2>2. QED  BY <2>1 DEF Publish, Published, Entity
<1>3. Members' = Members /\ UNCHANGED life /\ thread = "update" /\ thread' = "wait"
         /\ DOMAIN snap' = {}
  BY DEF Publish, Members, Member
<1>4. Members \subseteq DOMAIN entities
  BY DEF IndexInv, GhostsInert
<1>5. SightUsed(entities)'
  BY <1>1, <1>2, <1>3 DEF SymmetryInv, SightUsed, Fresh
<1>6. SightUsed(snap)' /\ SightSymmetric(snap)' /\ RoundInv'
  BY <1>3 DEF SightUsed, SightSymmetric, RoundInv
<1>7. SightSymmetric(entities)'
  <2> SUFFICES ASSUME NEW a \in Members, NEW b \in Members
               PROVE  b \in entities'[a].interests <=> a \in entities'[b].observers
    BY <1>1, <1>3, <1>4 DEF SightSymmetric
  <2>1. CASE a \in DOMAIN snap /\ b \in DOMAIN snap
    BY <2>1, <1>2, <1>4 DEF SymmetryInv, SightSymmetric
  <2>2. CASE a \in DOMAIN snap /\ b \notin DOMAIN snap
    BY <2>2, <1>2, <1>3, <1>4 DEF SymmetryInv, RoundInv
  <2>3. CASE a \notin DOMAIN snap /\ b \in DOMAIN snap
    BY <2>3, <1>2, <1>3, <1>4 DEF SymmetryInv, RoundInv
  <2>4. CASE a \notin DOMAIN snap /\ b \notin DOMAIN snap
    BY <2>4, <1>2, <1>3, <1>4 DEF SymmetryInv, RoundInv
  <2>5. QED  BY <2>1, <2>2, <2>3, <2>4
<1>8. QED  BY <1>5, <1>6, <1>7 DEF SymmetryInv

LEMMA OtherSymmetryInv ==
  ASSUME IndexInv, SymmetryInv,
         \/ StopCall \/ StopSetFlag \/ StopJoin
         \/ ThreadStart \/ ThreadExit \/ Wake \/ ReadSecond
         \/ (\E a \in Eids : BeginQuery(a))
         \/ UNCHANGED vars
  PROVE  SymmetryInv'
<1>1. UNCHANGED <<entities, life, snap>> /\ (thread' = "update" => thread = "update")
  BY DEF StopCall, StopSetFlag, StopJoin, ThreadStart, ThreadExit, Wake, ReadSecond,
         BeginQuery, vars, mainVars, threadVars, copyVars, queryVars
<1>2. QED  BY <1>1, SameSight DEF IndexInv

LEMMA StepSymmetryInv == IndexInv /\ SymmetryInv /\ [Next]_vars => SymmetryInv'
<1> SUFFICES ASSUME IndexInv, SymmetryInv, [Next]_vars PROVE SymmetryInv'
  OBVIOUS
<1>1. ASSUME NEW e \in Eids, AddEntity(e) PROVE SymmetryInv'
  BY <1>1, AddEntitySymmetryInv
<1>2. ASSUME NEW e \in Eids, DelEntity(e) PROVE SymmetryInv'
  BY <1>2, DelEntitySymmetryInv
<1>3. ASSUME NEW e \in Eids, UpdateEntity(e) PROVE SymmetryInv'
  BY <1>3, UpdateEntitySymmetryInv
<1>4. CASE FetchState
  BY <1>4, FetchStateSymmetryInv
<1>5. CASE Snapshot
  BY <1>5, SnapshotSymmetryInv
<1>6. ASSUME NEW a \in Eids, ReadFirst(a) PROVE SymmetryInv'
  BY <1>6, ReadFirstSymmetryInv
<1>7. CASE FinishQuery
  BY <1>7, FinishQuerySymmetryInv
<1>8. CASE Publish
  BY <1>8, PublishSymmetryInv
<1>9. CASE \/ StopCall \/ StopSetFlag \/ StopJoin
           \/ ThreadStart \/ ThreadExit \/ Wake \/ ReadSecond
           \/ (\E a \in Eids : BeginQuery(a))
           \/ UNCHANGED vars
  BY <1>9, OtherSymmetryInv
<1>10. QED
  BY <1>1, <1>2, <1>3, <1>4, <1>5, <1>6, <1>7, <1>8, <1>9
  DEF Next, MainThread, AOIThread, Terminated

LEMMA SymmetryCorrect == Spec => [](IndexInv /\ SymmetryInv)
<1>1. QED  BY InitIndexInv, InitSymmetryInv, StepIndexInv, StepSymmetryInv, PTL DEF Spec

\* Among members, "a sees b" and "b is watched by a" always agree, whatever was
\* added, deleted or moved while the AOI thread computed.
THEOREM AlwaysSymmetric == Spec => []Symmetry
<1>1. IndexInv /\ SymmetryInv => Symmetry
  BY DEF IndexInv, GhostsInert, SymmetryInv, SightSymmetric, Symmetry
<1>2. QED  BY <1>1, SymmetryCorrect, PTL

-----------------------------------------------------------------------------
(* The sight a round publishes *)

LEMMA StillMembers ==
  ASSUME IndexInv
  PROVE  /\ Still \subseteq Members /\ Still \subseteq Eids /\ 0 \notin Still
         /\ Members \subseteq DOMAIN entities
  BY EidsAssumption DEF Still, Members, IndexInv, GhostsInert

\* A step of the main thread touches what it moves or adds: to the rest it does
\* nothing the two invariants look at.
LEMMA StillUntouched ==
  ASSUME IndexInv, FreshInv, FreshSight, Still' \subseteq Still,
         \A k \in Still' : /\ entities'[k].x = entities[k].x
                           /\ entities'[k].y = entities[k].y
                           /\ entities'[k].radius = entities[k].radius
                           /\ entities'[k].interests = entities[k].interests,
         UNCHANGED threadVars
  PROVE  FreshInv' /\ FreshSight'
<1>1. UNCHANGED <<thread, snap, snapGrids, todo, cur, cands, found, probe>>
  BY DEF threadVars
<1>2. \A a, b \in Still' : Sees(a, b)' <=> Sees(a, b)
  BY DEF Sees
<1>3. FreshInv'
  <2> SUFFICES ASSUME thread = "update"
               PROVE  FreshInv'
    BY <1>1 DEF FreshInv
  <2>1. \A a \in Still' :
           /\ a \in DOMAIN snap
           /\ snap[a].x = entities'[a].x
           /\ snap[a].y = entities'[a].y
           /\ snap[a].radius = entities'[a].radius
           /\ a \in snapGrids[calc_grid_pos(entities'[a].x, entities'[a].y)]
    BY DEF FreshInv
  <2>2. \A a, b \in Still' :
           a \notin todo /\ a # cur => (b \in snap[a].interests <=> a # b /\ Sees(a, b)')
    BY <1>2 DEF FreshInv
  <2>3. \A b \in Still' :
           cur \in Still' =>
              /\ b \in found => Sees(cur, b)'
              /\ Sees(cur, b)' => b \in cands \cup found \cup {probe.eid}
    BY <1>1, <1>2 DEF FreshInv
  <2>4. probe # NoProbe /\ probe.eid \in Still' =>
           probe.value = IF probe.axis = "x" THEN entities'[probe.eid].x
                                             ELSE entities'[probe.eid].y
    BY DEF FreshInv
  <2>5. QED  BY <1>1, <2>1, <2>2, <2>3, <2>4 DEF FreshInv, NoProbe
<1>4. FreshSight'
  BY <1>1, <1>2 DEF FreshSight, Still
<1>5. QED  BY <1>3, <1>4

LEMMA AddEntityFresh ==
  ASSUME IndexInv, FreshInv, FreshSight, NEW e \in Eids, AddEntity(e)
  PROVE  FreshInv' /\ FreshSight'
<1>1. PICK p \in Positions, asked \in Radii :
         entities' = With(entities, e, NewEntity(e, p, Clamped(asked)))
  BY DEF AddEntity
<1>2. Members' = Members \cup {e} /\ e \notin DOMAIN entities
  BY DEF AddEntity, Members, Member, IndexInv, TypeOK
<1>3. Still' \subseteq Still
  BY <1>2 DEF AddEntity, Still
<1>4. \A k \in Still' : entities'[k] = entities[k]
  BY <1>1, <1>2, <1>3, StillMembers DEF With
<1>5. QED  BY <1>3, <1>4, StillUntouched DEF AddEntity

LEMMA DelEntityFresh ==
  ASSUME IndexInv, FreshInv, FreshSight, NEW e \in Eids, DelEntity(e)
  PROVE  FreshInv' /\ FreshSight'
<1>1. Still' \subseteq Still /\ e \notin Still'
  BY DEF DelEntity, Still, Members, Member, IndexInv, TypeOK
<1>2. \A k \in Still' : entities'[k] = entities[k]
  BY <1>1, StillMembers DEF DelEntity, Without
<1>3. QED  BY <1>1, <1>2, StillUntouched DEF DelEntity

LEMMA UpdateEntityFresh ==
  ASSUME IndexInv, FreshInv, FreshSight, NEW e \in Eids, UpdateEntity(e)
  PROVE  FreshInv' /\ FreshSight'
<1>1. PICK p \in Positions : entities' = [entities EXCEPT ![e].x = p[1], ![e].y = p[2]]
  BY DEF UpdateEntity
<1>2. Still' \subseteq Still /\ e \notin Still'
  BY DEF UpdateEntity, Still, Members, Member
<1>3. \A k \in Still' : entities'[k] = entities[k]
  BY <1>1, <1>2, StillMembers
<1>4. QED  BY <1>2, <1>3, StillUntouched DEF UpdateEntity

LEMMA FetchStateFresh ==
  ASSUME IndexInv, FreshInv, FreshSight, FetchState
  PROVE  FreshInv' /\ FreshSight'
<1>1. Still' = Still
  BY DEF FetchState, Still, Members, Member
<1>2. ASSUME NEW k \in Still
      PROVE  /\ entities'[k].x = entities[k].x
             /\ entities'[k].y = entities[k].y
             /\ entities'[k].radius = entities[k].radius
             /\ entities'[k].interests = entities[k].interests
  <2>1. k \in DOMAIN entities /\ entities[k] \in Entity
    BY StillMembers DEF IndexInv, TypeOK
  <2>2. QED  BY <2>1 DEF FetchState, Fetched, Entity
<1>3. QED  BY <1>1, <1>2, StillUntouched DEF FetchState

LEMMA SnapshotFresh ==
  ASSUME IndexInv, Snapshot
  PROVE  FreshInv' /\ FreshSight'
<1>1. Still' = Members
  BY DEF Snapshot, Still, Members, Member
<1>2. cur' = 0 /\ probe' = NoProbe /\ thread' = "update"
  BY DEF Snapshot, IndexInv, LocalsInv
<1>3. UNCHANGED entities /\ snap' = entities /\ snapGrids' = grids /\ todo' = DOMAIN entities
  BY DEF Snapshot
<1>4. ASSUME NEW a \in Members
      PROVE  a \in DOMAIN entities /\ a \in grids[calc_grid_pos(entities[a].x, entities[a].y)]
  <2>1. calc_grid_pos(entities[a].x, entities[a].y) \in Cells
    BY CellOfPosition DEF IndexInv, UsedInv
  <2>2. QED  BY <2>1 DEF IndexInv, GridsMatch, GhostsInert, Members
<1>5. 0 \notin Members
  BY EidsAssumption DEF Members
<1>6. FreshInv'
  BY <1>1, <1>2, <1>3, <1>4, <1>5 DEF FreshInv
<1>7. FreshSight'
  BY <1>2 DEF FreshSight
<1>8. QED  BY <1>6, <1>7

\* The cells in range hold everybody the visited entity sees.
LEMMA BeginQueryFresh ==
  ASSUME IndexInv, FreshInv, NEW a \in Eids, BeginQuery(a)
  PROVE  FreshInv' /\ FreshSight'
<1>1. UNCHANGED <<entities, snap, snapGrids, Still, thread, probe>> /\ cur' = a
         /\ todo' = todo \ {a} /\ found' = {}
         /\ cands' = Candidates(snap[a].x, snap[a].y, snap[a].radius, snapGrids)
         /\ thread = "update" /\ cur = 0
  BY DEF BeginQuery, mainVars, copyVars, Still, Members, Member
<1>2. ASSUME NEW b \in Still, a \in Still, Sees(a, b)
      PROVE  b \in cands'
  <2>1. b \in Eids /\ b \in DOMAIN entities /\ b \in Members
    BY StillMembers
  <2>2. /\ snap[a].x = entities[a].x
        /\ snap[a].y = entities[a].y
        /\ snap[a].radius = entities[a].radius
    BY <1>1, <1>2 DEF FreshInv
  <2>3. b \in snapGrids[calc_grid_pos(entities[b].x, entities[b].y)]
    BY <1>1 DEF FreshInv
  <2>4. calc_grid_pos(entities[b].x, entities[b].y) \in Cells
    BY <2>1, CellOfPosition DEF IndexInv, UsedInv
  <2>5. entities[a] \in Entity /\ entities[b] \in Entity
    BY <1>2, <2>1, StillMembers DEF IndexInv, TypeOK
  <2>6. /\ entities[a].x \in Int /\ entities[a].y \in Int /\ entities[a].radius \in Nat
        /\ entities[b].x \in Int /\ entities[b].y \in Int
    BY <2>5, MaxViewRadiusNat DEF Entity
  <2>7. CellInRange(calc_grid_pos(entities[b].x, entities[b].y),
                    entities[a].x, entities[a].y, entities[a].radius)
    BY <1>2, <2>6, CircleInRange DEF Sees
  <2>8. QED  BY <1>1, <2>1, <2>2, <2>3, <2>4, <2>7 DEF Candidates
<1>3. probe = NoProbe
  BY <1>1 DEF IndexInv, LocalsInv
<1>4. \A x, y \in Still : Sees(x, y)' <=> Sees(x, y)
  BY <1>1 DEF Sees
<1>5. 0 \notin Still
  BY StillMembers
<1>6. \A x, b \in Still :
         x \notin todo' /\ x # a => (b \in snap[x].interests <=> x # b /\ Sees(x, b))
  BY <1>1, <1>5 DEF FreshInv
<1>7. FreshInv'
  BY <1>1, <1>2, <1>3, <1>4, <1>6 DEF FreshInv
<1>8. QED  BY <1>1, <1>7 DEF FreshSight

LEMMA ReadFirstFresh ==
  ASSUME IndexInv, FreshInv, NEW c \in Eids, ReadFirst(c)
  PROVE  FreshInv' /\ FreshSight'
<1>1. UNCHANGED <<snap, snapGrids, Still, thread, todo, cur, found>>
         /\ thread = "update" /\ probe = NoProbe /\ cands' = cands \ {c}
  BY DEF ReadFirst, copyVars, Still, Members, Member
<1>2. \A k \in Still : entities'[k] = entities[k]
  BY StillMembers DEF ReadFirst, With
<1>3. \A x, y \in Still : Sees(x, y)' <=> Sees(x, y)
  BY <1>2 DEF Sees
<1>4. probe'.eid = c /\ probe'.value = IF probe'.axis = "x" THEN entities'[c].x ELSE entities'[c].y
  BY DEF ReadFirst
<1>5. probe.eid \notin Still
  BY <1>1, StillMembers DEF NoProbe
<1>6. \A b \in Still : cur \in Still =>
         /\ b \in found => Sees(cur, b)
         /\ Sees(cur, b) => b \in cands' \cup found \cup {probe'.eid}
  BY <1>1, <1>4, <1>5 DEF FreshInv
<1>7. \A a, b \in Still :
         a \notin todo /\ a # cur => (b \in snap[a].interests <=> a # b /\ Sees(a, b))
  BY <1>1 DEF FreshInv
<1>8. \A a \in Still :
         /\ a \in DOMAIN snap
         /\ snap[a].x = entities'[a].x
         /\ snap[a].y = entities'[a].y
         /\ snap[a].radius = entities'[a].radius
         /\ a \in snapGrids[calc_grid_pos(entities'[a].x, entities'[a].y)]
  BY <1>1, <1>2 DEF FreshInv
<1>9. FreshInv'
  BY <1>1, <1>3, <1>4, <1>6, <1>7, <1>8 DEF FreshInv
<1>10. QED  BY <1>1, <1>9 DEF FreshSight

\* Both coordinates of an entity that stayed put are its own: the answer is exact.
LEMMA ReadSecondFresh ==
  ASSUME IndexInv, FreshInv, ReadSecond
  PROVE  FreshInv' /\ FreshSight'
<1> DEFINE c == probe.eid
<1>1. UNCHANGED <<entities, snap, snapGrids, Still, thread, todo, cur, cands>>
         /\ thread = "update" /\ probe # NoProbe /\ probe' = NoProbe
  BY DEF ReadSecond, mainVars, copyVars, Still, Members, Member
<1>2. \A x, y \in Still : Sees(x, y)' <=> Sees(x, y)
  BY <1>1 DEF Sees
<1>3. \A b : b # c => (b \in found' <=> b \in found)
  BY DEF ReadSecond
<1>4. ASSUME c \in Still, cur \in Still
      PROVE  found' = IF Sees(cur, c) THEN found \cup {c} ELSE found
  <2>1. c \in DOMAIN entities
    BY <1>4, StillMembers
  <2>2. probe.value = IF probe.axis = "x" THEN entities[c].x ELSE entities[c].y
    BY <1>1, <1>4 DEF FreshInv
  <2>3. /\ snap[cur].x = entities[cur].x
        /\ snap[cur].y = entities[cur].y
        /\ snap[cur].radius = entities[cur].radius
    BY <1>1, <1>4 DEF FreshInv
  <2>4. probe.axis \in {"x", "y"}
    BY <1>1 DEF IndexInv, TypeOK
  <2>5. CASE probe.axis = "x"
    BY <2>1, <2>2, <2>3, <2>5 DEF ReadSecond, Sees
  <2>6. CASE probe.axis = "y"
    BY <2>1, <2>2, <2>3, <2>6 DEF ReadSecond, Sees
  <2>7. QED  BY <2>4, <2>5, <2>6
<1>5. ASSUME NEW b \in Still, cur \in Still
      PROVE  /\ b \in found' => Sees(cur, b)
             /\ Sees(cur, b) => b \in cands \cup found'
  <2>1. /\ b \in found => Sees(cur, b)
        /\ Sees(cur, b) => b \in cands \cup found \cup {c}
    BY <1>1, <1>5 DEF FreshInv
  <2>2. CASE b = c
    BY <2>1, <2>2, <1>4, <1>5
  <2>3. CASE b # c
    BY <2>1, <2>3, <1>3
  <2>4. QED  BY <2>2, <2>3
<1>6. FreshInv'
  BY <1>1, <1>2, <1>5 DEF FreshInv
<1>7. QED  BY <1>1, <1>6 DEF FreshSight

LEMMA FinishQueryFresh ==
  ASSUME IndexInv, FreshInv, FinishQuery
  PROVE  FreshInv' /\ FreshSight'
<1> DEFINE old == snap[cur].interests
           new == NewInterests(cur, found)
<1>1. UNCHANGED <<entities, snapGrids, Still, thread, todo, cands, probe>>
         /\ thread = "update" /\ probe = NoProbe /\ cands = {} /\ cur # 0
         /\ cur' = 0 /\ found' = {}
  BY DEF FinishQuery, mainVars, Still, Members, Member
<1>2. DOMAIN snap' = DOMAIN snap
  BY DEF FinishQuery
<1>3. ASSUME NEW b \in DOMAIN snap
      PROVE  /\ snap'[b].x = snap[b].x
             /\ snap'[b].y = snap[b].y
             /\ snap'[b].radius = snap[b].radius
             /\ snap'[b].interests = IF b = cur THEN new ELSE snap[b].interests
  <2>1. snap[b] \in Entity
    BY DEF IndexInv, TypeOK
  <2>2. QED  BY <2>1 DEF FinishQuery, Entity
<1>4. \A x, y \in Still : Sees(x, y)' <=> Sees(x, y)
  BY <1>1 DEF Sees
<1>5. 0 \notin Still /\ probe.eid = 0
  BY <1>1, StillMembers DEF NoProbe
<1>6. ASSUME NEW a \in Still, NEW b \in Still, a \notin todo
      PROVE  b \in snap'[a].interests <=> a # b /\ Sees(a, b)
  <2>1. a \in DOMAIN snap
    BY <1>1 DEF FreshInv
  <2>2. CASE a = cur
    <3>1. b \in found <=> Sees(cur, b)
      BY <2>2, <1>1, <1>5, <1>6 DEF FreshInv
    <3>2. QED  BY <2>1, <2>2, <3>1, <1>3 DEF NewInterests
  <2>3. CASE a # cur
    BY <2>1, <2>3, <1>1, <1>3, <1>6 DEF FreshInv
  <2>4. QED  BY <2>2, <2>3
<1>7. \A a \in Still :
         /\ a \in DOMAIN snap'
         /\ snap'[a].x = entities[a].x
         /\ snap'[a].y = entities[a].y
         /\ snap'[a].radius = entities[a].radius
         /\ a \in snapGrids[calc_grid_pos(entities[a].x, entities[a].y)]
  BY <1>1, <1>2, <1>3 DEF FreshInv
<1>8. FreshInv'
  BY <1>1, <1>4, <1>5, <1>6, <1>7 DEF FreshInv
<1>9. QED  BY <1>1, <1>8 DEF FreshSight

LEMMA PublishFresh ==
  ASSUME IndexInv, FreshInv, Publish
  PROVE  FreshInv' /\ FreshSight'
<1>1. UNCHANGED <<Members, touched, Still>> /\ thread = "update" /\ cur = 0 /\ todo = {}
         /\ thread' = "wait"
  BY DEF Publish, Members, Member, Still
<1>2. ASSUME NEW a \in Still
      PROVE  /\ entities'[a].x = entities[a].x
             /\ entities'[a].y = entities[a].y
             /\ entities'[a].radius = entities[a].radius
             /\ entities'[a].interests = snap[a].interests
  <2>1. a \in DOMAIN snap /\ a \in DOMAIN entities /\ entities[a] \in Entity
    BY <1>1, StillMembers DEF FreshInv, IndexInv, TypeOK
  <2>2. QED  BY <2>1 DEF Publish, Published, Entity
<1>3. 0 \notin Still
  BY StillMembers
<1>4. \A a, b \in Still : b \in snap[a].interests <=> a # b /\ Sees(a, b)
  BY <1>1, <1>3 DEF FreshInv
<1>5. \A a, b \in Still : Sees(a, b)' <=> Sees(a, b)
  BY <1>2 DEF Sees
<1>6. \A a, b \in Still : b \in entities'[a].interests <=> a # b /\ Sees(a, b)'
  BY <1>2, <1>4, <1>5
<1>7. FreshSight'
  BY <1>1, <1>6 DEF FreshSight, Still
<1>8. QED  BY <1>1, <1>7 DEF FreshInv

LEMMA StepFresh == IndexInv /\ FreshInv /\ FreshSight /\ [Next]_vars => FreshInv' /\ FreshSight'
<1> SUFFICES ASSUME IndexInv, FreshInv, FreshSight, [Next]_vars PROVE FreshInv' /\ FreshSight'
  OBVIOUS
<1> DEFINE Goal == FreshInv' /\ FreshSight'
<1>1. ASSUME NEW e \in Eids, AddEntity(e) PROVE Goal
  BY <1>1, AddEntityFresh
<1>2. ASSUME NEW e \in Eids, DelEntity(e) PROVE Goal
  BY <1>2, DelEntityFresh
<1>3. ASSUME NEW e \in Eids, UpdateEntity(e) PROVE Goal
  BY <1>3, UpdateEntityFresh
<1>4. CASE FetchState
  BY <1>4, FetchStateFresh
<1>5. CASE Snapshot
  BY <1>5, SnapshotFresh
<1>6. ASSUME NEW a \in Eids, BeginQuery(a) PROVE Goal
  BY <1>6, BeginQueryFresh
<1>7. ASSUME NEW a \in Eids, ReadFirst(a) PROVE Goal
  BY <1>7, ReadFirstFresh
<1>8. CASE ReadSecond
  BY <1>8, ReadSecondFresh
<1>9. CASE FinishQuery
  BY <1>9, FinishQueryFresh
<1>10. CASE Publish
  BY <1>10, PublishFresh
<1>11. CASE StopCall \/ StopSetFlag \/ StopJoin \/ UNCHANGED vars
  <2>1. UNCHANGED <<mainVars, threadVars>>
    BY <1>11 DEF StopCall, StopSetFlag, StopJoin, vars, mainVars, threadVars
  <2>2. Still' = Still /\ UNCHANGED entities
    BY <2>1 DEF mainVars, Still, Members, Member
  <2>3. QED  BY <2>1, <2>2, StillUntouched
<1>12. CASE ThreadStart \/ ThreadExit \/ Wake
  BY <1>12 DEF ThreadStart, ThreadExit, Wake, FreshInv, FreshSight
<1>13. QED
  BY <1>1, <1>2, <1>3, <1>4, <1>5, <1>6, <1>7, <1>8, <1>9, <1>10, <1>11, <1>12
  DEF Next, MainThread, AOIThread, Terminated

\* What a round publishes about two members that stayed put since its snapshot is
\* exact, for every map, every cell size and every interleaving with the callers,
\* although positions were read without the mutex.
THEOREM AlwaysFreshSight == Spec => []FreshSight
<1>1. Init => FreshInv /\ FreshSight
  BY DEF Init, FreshInv, FreshSight
<1>2. QED  BY <1>1, InitIndexInv, StepIndexInv, StepFresh, PTL DEF Spec

-----------------------------------------------------------------------------
(* Sequences of notifies *)

\* One of the notifies s mentions x.
Tells(s, x) == \E i \in 1 .. Len(s) : Mentions(s[i], x)

\* Whoever applied s to the view v would show x.
Shows(v, s, x) ==
    \/ x \in v /\ ~Tells(s, x)
    \/ \E i \in 1 .. Len(s) :
          /\ Mentions(s[i], x) /\ s[i].is_add
          /\ \A j \in i + 1 .. Len(s) : ~Mentions(s[j], x)

\* A further notify decides about those it mentions and nobody else.
LEMMA ShowsAppended ==
  ASSUME NEW v, NEW s \in Seq(Notify), NEW m \in Notify, NEW x
  PROVE  /\ Tells(Append(s, m), x) <=> Tells(s, x) \/ Mentions(m, x)
         /\ Shows(v, Append(s, m), x) <=> IF Mentions(m, x) THEN m.is_add ELSE Shows(v, s, x)
<1> DEFINE t == Append(s, m)
<1>1. /\ Len(s) \in Nat /\ Len(t) = Len(s) + 1 /\ t[Len(s) + 1] = m
      /\ \A i \in 1 .. Len(s) : t[i] = s[i]
  OBVIOUS
<1> HIDE DEF t
<1>2. Tells(t, x) <=> Tells(s, x) \/ Mentions(m, x)
  BY <1>1 DEF Tells
<1>3. CASE Mentions(m, x)
  <2>1. Shows(v, t, x) <=> \E i \in 1 .. Len(t) :
                              /\ Mentions(t[i], x) /\ t[i].is_add
                              /\ \A j \in i + 1 .. Len(t) : ~Mentions(t[j], x)
    BY <1>2, <1>3 DEF Shows
  <2>2. ASSUME NEW i \in 1 .. Len(t), \A j \in i + 1 .. Len(t) : ~Mentions(t[j], x)
        PROVE  i = Len(s) + 1
    BY <1>1, <1>3, <2>2
  <2>3. QED  BY <1>1, <1>2, <1>3, <2>1, <2>2 DEF t
<1>4. CASE ~Mentions(m, x)
  <2>1. ASSUME NEW i \in 1 .. Len(s)
        PROVE  (\A j \in i + 1 .. Len(t) : ~Mentions(t[j], x))
                  <=> (\A j \in i + 1 .. Len(s) : ~Mentions(s[j], x))
    BY <1>1, <1>4
  <2>2. Shows(v, t, x) <=> Shows(v, s, x)
    BY <1>1, <1>2, <1>4, <2>1 DEF Shows
  <2>3. QED  BY <1>2, <1>4, <2>2 DEF t
<1>5. QED  BY <1>3, <1>4

\* A notify appended unless it mentions nobody.
Added(s, add, ids) == IF ids = {} THEN s ELSE Append(s, [is_add |-> add, entities |-> ids])

\* Notifies added decide about the ids they carry.
LEMMA AddedShows ==
  ASSUME NEW v, NEW s \in Seq(Notify), NEW add \in BOOLEAN, NEW ids \in SUBSET Eids, NEW x
  PROVE  /\ Added(s, add, ids) \in Seq(Notify)
         /\ Tells(Added(s, add, ids), x) <=> Tells(s, x) \/ x \in ids
         /\ Shows(v, Added(s, add, ids), x) <=> IF x \in ids THEN add ELSE Shows(v, s, x)
<1>1. CASE ids = {}
  BY <1>1 DEF Added
<1>2. CASE ids # {}
  <2> DEFINE m == [is_add |-> add, entities |-> ids]
  <2>1. m \in Notify /\ m.is_add = add /\ (Mentions(m, x) <=> x \in ids)
    BY DEF Notify, Mentions
  <2>2. Added(s, add, ids) = Append(s, m)
    BY <1>2 DEF Added
  <2> HIDE DEF m
  <2>3. QED  BY <2>1, <2>2, ShowsAppended
<1>3. QED  BY <1>1, <1>2

\* After the notifies of a visit, who came into sight is shown, who left it is not.
LEMMA TriggeredShows ==
  ASSUME NEW v, NEW s \in Seq(Notify), NEW old \in SUBSET Eids, NEW new \in SUBSET Eids, NEW x
  PROVE  /\ Tells(Triggered(s, old, new), x) <=> Tells(s, x) \/ x \in new \ old \/ x \in old \ new
         /\ Shows(v, Triggered(s, old, new), x)
               <=> IF x \in new \ old THEN TRUE
                   ELSE IF x \in old \ new THEN FALSE ELSE Shows(v, s, x)
<1> DEFINE t == Added(s, TRUE, new \ old)
<1>1. t \in Seq(Notify)
  BY AddedShows
<1>2. ASSUME NEW u \in Seq(Notify), NEW m \in Notify
      PROVE  u \o <<m>> = Append(u, m) /\ u \o <<>> = u
  BY AppendIsConcat, ConcatEmptySeq
<1>3. s \o (IF new \ old = {} THEN <<>> ELSE <<[is_add |-> TRUE, entities |-> new \ old]>>) = t
  <2>1. [is_add |-> TRUE, entities |-> new \ old] \in Notify
    BY DEF Notify
  <2>2. QED  BY <1>2, <2>1 DEF Added
<1>4. t \o (IF old \ new = {} THEN <<>> ELSE <<[is_add |-> FALSE, entities |-> old \ new]>>)
         = Added(t, FALSE, old \ new)
  <2> HIDE DEF t
  <2>1. [is_add |-> FALSE, entities |-> old \ new] \in Notify
    BY DEF Notify
  <2>2. QED  BY <1>1, <1>2, <2>1 DEF Added
<1>5. Triggered(s, old, new) = Added(t, FALSE, old \ new)
  <2> HIDE DEF t
  <2>1. QED  BY <1>3, <1>4 DEF Triggered
<1>6. /\ Tells(t, x) <=> Tells(s, x) \/ x \in new \ old
      /\ Shows(v, t, x) <=> IF x \in new \ old THEN TRUE ELSE Shows(v, s, x)
  BY AddedShows
<1>7. /\ Tells(Added(t, FALSE, old \ new), x) <=> Tells(t, x) \/ x \in old \ new
      /\ Shows(v, Added(t, FALSE, old \ new), x) <=> IF x \in old \ new THEN FALSE ELSE Shows(v, t, x)
  <2> DEFINE ids == old \ new
  <2>1. ids \in SUBSET Eids /\ FALSE \in BOOLEAN
    OBVIOUS
  <2> HIDE DEF t, ids
  <2>2. /\ Tells(Added(t, FALSE, ids), x) <=> Tells(t, x) \/ x \in ids
        /\ Shows(v, Added(t, FALSE, ids), x) <=> IF x \in ids THEN FALSE ELSE Shows(v, t, x)
    BY <1>1, <2>1, AddedShows
  <2>3. QED  BY <2>2 DEF ids
<1>8. QED  BY <1>5, <1>6, <1>7

\* A notify about x settles what is shown of x; without one the view does.
LEMMA TellsDecides ==
  ASSUME NEW v, NEW w, NEW s, NEW x
  PROVE  /\ Tells(s, x) => (Shows(v, s, x) <=> Shows(w, s, x))
         /\ ~Tells(s, x) => (Shows(v, s, x) <=> x \in v)
  BY DEF Tells, Shows

\* For a member, the messages say what the notifies do.
LEMMA PendingShows ==
  ASSUME NEW p \in Players, NEW x \in Eids, entities[p].notifies \in Seq(Notify)
  PROVE  /\ x \in Members => (x \in Pending(p) <=> Shows(view[p], entities[p].notifies, x))
         /\ x \in Pending(p) => x \in view[p] \/ Tells(entities[p].notifies, x)
<1> DEFINE s == entities[p].notifies
           t == Sent(s)
           n == Len(s)
<1>1. /\ n \in Nat /\ Len(t) = n
      /\ \A i \in 1 .. n : /\ t[i].is_add = s[i].is_add
                           /\ t[i].entities = IF s[i].is_add THEN s[i].entities \cap Members
                                              ELSE s[i].entities
  BY DEF Sent
<1>2. x \in Pending(p) <=>
        \/ x \in view[p] /\ \A i \in 1 .. Len(t) : ~Mentions(t[i], x)
        \/ \E i \in 1 .. Len(t) :
              /\ Mentions(t[i], x) /\ t[i].is_add
              /\ \A j \in i + 1 .. Len(t) : ~Mentions(t[j], x)
  BY DEF Pending, Applied
<1> HIDE DEF t, s, n
<1>3. \A i \in 1 .. n : Mentions(t[i], x) => Mentions(s[i], x)
  BY <1>1 DEF Mentions
<1>4. x \in Pending(p) => x \in view[p] \/ Tells(s, x)
  BY <1>1, <1>2, <1>3 DEF Tells, n
<1>5. ASSUME x \in Members
      PROVE  x \in Pending(p) <=> Shows(view[p], s, x)
  <2>1. \A i \in 1 .. n : Mentions(t[i], x) <=> Mentions(s[i], x)
    BY <1>1, <1>5 DEF Mentions
  <2>2. \A i \in 1 .. n : \A j \in i + 1 .. n : j \in 1 .. n
    BY <1>1
  <2>3. QED  BY <1>1, <1>2, <2>1, <2>2 DEF Shows, Tells, n
<1>6. QED  BY <1>4, <1>5 DEF s

-----------------------------------------------------------------------------
(* The inductive invariant *)

\* Views hold ids; that of a player outside the space is empty.
ViewsInv ==
    /\ view \in [Players -> SUBSET Eids]
    /\ \A p \in Players : ~Member(p) => view[p] = {}

\* Nobody is in its own sight, and no notify or view mentions an id before its use.
MentionsInv(table) ==
    \A e \in DOMAIN table :
        /\ e \notin table[e].interests
        /\ \A x \in Eids : Fresh(x) => ~Tells(table[e].notifies, x)

\* The notifies a record of the table holds lead the view of its player to its sight.
ViewFollows(table) ==
    \A p \in Players \cap Members \cap DOMAIN table, x \in Members :
        Shows(view[p], table[p].notifies, x) <=> x \in table[p].interests

\* During a round the copy will repeat whatever the clients were told of members it
\* holds since the snapshot, and the others have nothing to be told.
RepeatsInv ==
    thread = "update" =>
        \A p \in Members :
            IF p \in DOMAIN snap
            THEN \A x \in Eids : Tells(entities[p].notifies, x) => Tells(snap[p].notifies, x)
            ELSE entities[p].notifies = <<>>

ViewInv ==
    /\ ViewsInv
    /\ \A p \in Players : \A x \in view[p] : ~Fresh(x)
    /\ MentionsInv(entities)
    /\ MentionsInv(snap)
    /\ ViewFollows(entities)
    /\ ViewFollows(snap)
    /\ RepeatsInv

SpaceInv == IndexInv /\ SymmetryInv /\ ViewInv

\* What TypeOK and the shape of the table say about a member's record.
LEMMA MemberRecord ==
  ASSUME IndexInv, NEW e \in Members
  PROVE  /\ e \in Eids /\ e \in DOMAIN entities /\ entities[e] \in Entity
         /\ entities[e].notifies \in Seq(Notify) /\ entities[e].interests \in SUBSET Eids
<1>1. e \in Eids /\ e \in DOMAIN entities
  BY DEF Members, IndexInv, GhostsInert
<1>2. entities[e] \in Entity
  BY <1>1 DEF IndexInv, TypeOK
<1>3. QED  BY <1>1, <1>2 DEF Entity

\* At first nobody is told anything.
LEMMA InitViewInv == SpaceInit => ViewInv
<1> SUFFICES ASSUME SpaceInit PROVE ViewInv
  OBVIOUS
<1>1. DOMAIN entities = {} /\ DOMAIN snap = {} /\ thread = "start" /\ view = [p \in Players |-> {}]
  BY DEF SpaceInit, Init
<1>2. QED  BY <1>1 DEF ViewInv, ViewsInv, MentionsInv, ViewFollows, RepeatsInv

\* A step that tells nobody anything keeps the invariant.
LEMMA SameNews ==
  ASSUME IndexInv, ViewInv, UNCHANGED <<life, snap, view>>,
         DOMAIN entities' = DOMAIN entities,
         \A k \in DOMAIN entities : /\ entities'[k].interests = entities[k].interests
                                    /\ entities'[k].notifies = entities[k].notifies,
         thread' = "update" => thread = "update"
  PROVE  ViewInv'
<1>1. Members' = Members /\ Members \subseteq DOMAIN entities
  BY DEF Members, Member, IndexInv, GhostsInert
<1>2. ViewsInv' /\ (\A p \in Players : \A x \in view[p] : ~Fresh(x))'
  BY DEF ViewInv, ViewsInv, Fresh, Member
<1>3. MentionsInv(entities)' /\ MentionsInv(snap)'
  BY DEF ViewInv, MentionsInv, Fresh
<1>4. ViewFollows(entities)' /\ ViewFollows(snap)'
  BY <1>1 DEF ViewInv, ViewFollows
<1>5. RepeatsInv'
  BY <1>1 DEF ViewInv, RepeatsInv
<1>6. QED  BY <1>2, <1>3, <1>4, <1>5 DEF ViewInv

\* Nobody has been told about the newcomer, nor the newcomer about anybody.
LEMMA JoinViewInv ==
  ASSUME IndexInv, SymmetryInv, ViewInv, NEW e \in Eids, Join(e)
  PROVE  ViewInv'
<1>1. PICK p \in Positions, asked \in Radii :
         entities' = With(entities, e, NewEntity(e, p, Clamped(asked)))
  BY DEF Join, AddEntity
<1>2. /\ Fresh(e) /\ ~Member(e) /\ e \notin DOMAIN entities /\ e \notin DOMAIN snap
      /\ UNCHANGED <<snap, view, thread>>
  BY DEF Join, AddEntity, threadVars, Fresh, Member, IndexInv, UsedInv
<1>3. /\ life \in [Eids -> {"fresh", "member", "gone"}]
      /\ life' = [life EXCEPT ![e] = "member"]
  BY DEF Join, AddEntity, IndexInv, TypeOK
<1>4. /\ Members' = Members \cup {e}
      /\ \A x \in Eids : Fresh(x)' => Fresh(x)
  BY <1>3 DEF Members, Member, Fresh
<1>5. /\ DOMAIN entities' = DOMAIN entities \cup {e}
      /\ entities'[e].interests = {} /\ entities'[e].notifies = <<>>
      /\ \A k \in DOMAIN entities : entities'[k] = entities[k]
  BY <1>1, <1>2 DEF With, NewEntity
<1>6. \A v, x : ~Tells(<<>>, x) /\ (Shows(v, <<>>, x) <=> x \in v)
  BY DEF Tells, Shows
<1>7. ViewsInv'
  <2>1. \A q \in Players : ~Member(q)' => ~Member(q)
    BY <1>3, PlayersAssumption DEF Member
  <2>2. QED  BY <1>2, <2>1 DEF ViewInv, ViewsInv
<1>8. (\A q \in Players : \A x \in view[q] : ~Fresh(x))'
  BY <1>2, <1>4 DEF ViewInv, ViewsInv
<1>9. MentionsInv(entities)' /\ MentionsInv(snap)'
  BY <1>2, <1>4, <1>5, <1>6 DEF ViewInv, MentionsInv, IndexInv, TypeOK
<1>10. ViewFollows(entities)'
  <2> SUFFICES ASSUME NEW q \in Players \cap Members', q \in DOMAIN entities', NEW x \in Members'
               PROVE  Shows(view'[q], entities'[q].notifies, x) <=> x \in entities'[q].interests
    BY DEF ViewFollows
  <2>1. CASE q = e
    BY <1>2, <1>5, <1>6, <2>1 DEF ViewInv, ViewsInv
  <2>2. CASE q # e /\ x # e
    BY <1>2, <1>4, <1>5, <2>2 DEF ViewInv, ViewFollows
  <2>3. CASE q # e /\ x = e
    <3>1. q \in DOMAIN entities /\ entities'[q] = entities[q]
      BY <1>5, <2>3
    <3>2. e \notin entities[q].interests
      BY <1>2, <3>1 DEF SymmetryInv, SightUsed
    <3>3. e \notin view[q] /\ ~Tells(entities[q].notifies, e)
      BY <1>2, <3>1 DEF ViewInv, MentionsInv
    <3>4. QED  BY <1>2, <2>3, <3>1, <3>2, <3>3, TellsDecides
  <2>4. QED  BY <2>1, <2>2, <2>3
<1>11. ViewFollows(snap)'
  <2> SUFFICES ASSUME NEW q \in Players \cap Members', q \in DOMAIN snap, NEW x \in Members'
               PROVE  Shows(view[q], snap[q].notifies, x) <=> x \in snap[q].interests
    BY <1>2 DEF ViewFollows
  <2>1. q # e
    BY <1>2
  <2>2. CASE x # e
    BY <1>4, <2>1, <2>2 DEF ViewInv, ViewFollows
  <2>3. CASE x = e
    <3>1. e \notin snap[q].interests
      BY <1>2 DEF SymmetryInv, SightUsed
    <3>2. e \notin view[q] /\ ~Tells(snap[q].notifies, e)
      BY <1>2 DEF ViewInv, MentionsInv
    <3>3. QED  BY <2>3, <3>1, <3>2, TellsDecides
  <2>4. QED  BY <2>2, <2>3
<1>12. RepeatsInv'
  <2> SUFFICES ASSUME thread = "update", NEW q \in Members'
               PROVE  IF q \in DOMAIN snap
                      THEN \A x \in Eids : Tells(entities'[q].notifies, x) => Tells(snap[q].notifies, x)
                      ELSE entities'[q].notifies = <<>>
    BY <1>2 DEF RepeatsInv
  <2>1. CASE q = e
    BY <1>2, <1>5, <2>1
  <2>2. CASE q # e
    <3>1. q \in Members /\ entities'[q] = entities[q]
      BY <1>4, <1>5, <2>2, MemberRecord
    <3>2. QED  BY <3>1 DEF ViewInv, RepeatsInv
  <2>3. QED  BY <2>1, <2>2
<1>13. QED  BY <1>7, <1>8, <1>9, <1>10, <1>11, <1>12 DEF ViewInv

\* Who leaves takes its view along; the others are told of it with their sight.
LEMMA LeaveViewInv ==
  ASSUME IndexInv, ViewInv, NEW e \in Eids, Leave(e)
  PROVE  ViewInv'
<1>1. /\ DOMAIN entities' = DOMAIN entities \ {e}
      /\ \A k \in DOMAIN entities' : entities'[k] = entities[k]
      /\ UNCHANGED <<snap, thread>>
  BY DEF Leave, DelEntity, Without, threadVars
<1>2. /\ Members' = Members \ {e} /\ ~Member(e)' /\ ~Fresh(e)'
      /\ \A x \in Eids : Fresh(x)' => Fresh(x)
      /\ \A x \in Eids \ {e} : Member(x)' = Member(x)
  BY DEF Leave, DelEntity, IndexInv, TypeOK, Members, Member, Fresh
<1>3. /\ view \in [Players -> SUBSET Eids]
      /\ view' \in [Players -> SUBSET Eids]
      /\ \A p \in Players : view'[p] = IF p = e THEN {} ELSE view[p]
  BY DEF Leave, ViewInv, ViewsInv
<1>4. ViewsInv'
  BY <1>2, <1>3, PlayersAssumption DEF ViewInv, ViewsInv
<1>5. (\A p \in Players : \A x \in view[p] : ~Fresh(x))'
  BY <1>2, <1>3 DEF ViewInv
<1>6. MentionsInv(entities)' /\ MentionsInv(snap)'
  BY <1>1, <1>2 DEF ViewInv, MentionsInv
<1>7. ViewFollows(entities)' /\ ViewFollows(snap)'
  BY <1>1, <1>2, <1>3 DEF ViewInv, ViewFollows
<1>8. RepeatsInv'
  BY <1>1, <1>2, MemberRecord DEF ViewInv, RepeatsInv
<1>9. QED  BY <1>4, <1>5, <1>6, <1>7, <1>8 DEF ViewInv

\* What Update delivers is gone from the table; if a round is under way, its copy will
\* repeat it, and to the same effect.
LEMMA UpdateViewInv ==
  ASSUME IndexInv, ViewInv, Update
  PROVE  ViewInv'
<1>1. /\ DOMAIN entities' = DOMAIN entities
      /\ UNCHANGED <<life, snap, thread>>
      /\ \A p \in Players : view'[p] = IF Member(p) THEN Pending(p) ELSE view[p]
  BY DEF Update, FetchState, Fetched, threadVars
<1>2. ASSUME NEW k \in DOMAIN entities
      PROVE  entities'[k].interests = entities[k].interests /\ entities'[k].notifies = <<>>
  <2>1. entities[k] \in Entity
    BY DEF IndexInv, TypeOK
  <2>2. QED  BY <2>1 DEF Update, FetchState, Fetched, Entity
<1>3. Members' = Members
  BY <1>1 DEF Members, Member
<1>4. \A v, x : ~Tells(<<>>, x) /\ (Shows(v, <<>>, x) <=> x \in v)
  BY DEF Tells, Shows
<1>5. ASSUME NEW p \in Players, NEW x \in Eids, Member(p)
      PROVE  /\ x \in Members => (x \in view'[p] <=> Shows(view[p], entities[p].notifies, x))
             /\ x \in view'[p] => x \in view[p] \/ Tells(entities[p].notifies, x)
  <2>1. entities[p].notifies \in Seq(Notify)
    BY <1>5, PlayersAssumption, MemberRecord DEF Members
  <2>2. QED  BY <1>1, <1>5, <2>1, PendingShows
<1>6. ViewsInv'
  <2>1. \A p \in Players : Pending(p) \subseteq Eids
    BY DEF Pending, Applied
  <2>2. view' \in [Players -> SUBSET Eids]
    BY <2>1 DEF Update, ViewInv, ViewsInv
  <2>3. QED  BY <1>1, <2>2 DEF ViewInv, ViewsInv, Member
<1>7. (\A p \in Players : \A x \in view[p] : ~Fresh(x))'
  <2> SUFFICES ASSUME NEW p \in Players, NEW x \in view'[p] PROVE ~Fresh(x)
    BY <1>1 DEF Fresh
  <2>1. CASE ~Member(p)
    BY <1>1, <2>1 DEF ViewInv
  <2>2. CASE Member(p)
    <3>1. x \in Eids
      BY <1>6 DEF ViewsInv
    <3>2. p \in DOMAIN entities
      BY <2>2, PlayersAssumption, MemberRecord DEF Members
    <3>3. QED  BY <1>5, <2>2, <3>1, <3>2 DEF ViewInv, MentionsInv
  <2>3. QED  BY <2>1, <2>2
<1>8. MentionsInv(entities)' /\ MentionsInv(snap)'
  BY <1>1, <1>2, <1>4 DEF ViewInv, MentionsInv, Fresh
<1>9. ViewFollows(entities)'
  <2> SUFFICES ASSUME NEW p \in Players \cap Members, p \in DOMAIN entities, NEW x \in Members
               PROVE  Shows(view'[p], entities'[p].notifies, x) <=> x \in entities'[p].interests
    BY <1>1, <1>3 DEF ViewFollows
  <2>1. x \in Eids /\ Member(p)
    BY DEF Members
  <2>2. x \in view'[p] <=> Shows(view[p], entities[p].notifies, x)
    BY <1>5, <2>1
  <2>3. x \in view'[p] <=> x \in entities[p].interests
    BY <2>2 DEF ViewInv, ViewFollows
  <2>4. QED  BY <1>2, <1>4, <2>3
<1>10. ViewFollows(snap)'
  <2> SUFFICES ASSUME NEW p \in Players \cap Members, p \in DOMAIN snap, NEW x \in Members
               PROVE  Shows(view'[p], snap[p].notifies, x) <=> x \in snap[p].interests
    BY <1>1, <1>3 DEF ViewFollows
  <2>1. x \in Eids /\ Member(p)
    BY DEF Members
  <2>2. Shows(view[p], snap[p].notifies, x) <=> x \in snap[p].interests
    BY DEF ViewInv, ViewFollows
  <2>3. CASE Tells(snap[p].notifies, x)
    BY <2>2, <2>3, TellsDecides
  <2>4. CASE ~Tells(snap[p].notifies, x)
    <3>1. ~Tells(entities[p].notifies, x)
      BY <2>1, <2>4 DEF ViewInv, RepeatsInv, IndexInv, LocalsInv
    <3>2. x \in view'[p] <=> x \in view[p]
      BY <1>5, <2>1, <3>1, TellsDecides
    <3>3. QED  BY <2>2, <2>4, <3>2, TellsDecides
  <2>5. QED  BY <2>3, <2>4
<1>11. RepeatsInv'
  <2>1. \A p \in Members : p \in DOMAIN entities
    BY MemberRecord
  <2>2. QED  BY <1>1, <1>2, <1>3, <1>4, <2>1 DEF RepeatsInv
<1>12. QED  BY <1>6, <1>7, <1>8, <1>9, <1>10, <1>11 DEF ViewInv

\* A round starts from what is pending.
LEMMA SnapshotViewInv ==
  ASSUME IndexInv, ViewInv, Snapshot, UNCHANGED view
  PROVE  ViewInv'
<1>1. UNCHANGED <<entities, life>> /\ snap' = entities /\ Members' = Members
  BY DEF Snapshot, Members, Member
<1>2. \A p \in Members : p \in DOMAIN entities
  BY MemberRecord
<1>3. ViewsInv' /\ (\A p \in Players : \A x \in view[p] : ~Fresh(x))'
  BY <1>1 DEF ViewInv, ViewsInv, Fresh, Member
<1>4. MentionsInv(entities)' /\ MentionsInv(snap)' /\ ViewFollows(entities)' /\ ViewFollows(snap)'
  BY <1>1 DEF ViewInv, MentionsInv, ViewFollows, Fresh
<1>5. RepeatsInv'
  BY <1>1, <1>2 DEF RepeatsInv
<1>6. QED  BY <1>3, <1>4, <1>5 DEF ViewInv

\* A ghost is no member and tells nobody anything.
LEMMA ReadFirstViewInv ==
  ASSUME IndexInv, ViewInv, NEW c \in Eids, ReadFirst(c), UNCHANGED view
  PROVE  ViewInv'
<1>1. UNCHANGED <<life, snap, thread>> /\ Members' = Members
  BY DEF ReadFirst, copyVars, Members, Member
<1>2. /\ \A k \in DOMAIN entities : k \in DOMAIN entities' /\ entities'[k] = entities[k]
      /\ \A k \in DOMAIN entities' \ DOMAIN entities :
            entities'[k].interests = {} /\ entities'[k].notifies = <<>>
  BY DEF ReadFirst, With, Ghost
<1>3. \A p \in Members : p \in DOMAIN entities
  BY MemberRecord
<1>4. \A x : ~Tells(<<>>, x)
  BY DEF Tells
<1>5. ViewsInv' /\ (\A p \in Players : \A x \in view[p] : ~Fresh(x))'
  BY <1>1 DEF ViewInv, ViewsInv, Fresh, Member
<1>6. MentionsInv(entities)' /\ MentionsInv(snap)'
  BY <1>1, <1>2, <1>4 DEF ViewInv, MentionsInv, Fresh
<1>7. ViewFollows(entities)' /\ ViewFollows(snap)'
  BY <1>1, <1>2, <1>3 DEF ViewInv, ViewFollows
<1>8. RepeatsInv'
  BY <1>1, <1>2, <1>3 DEF ViewInv, RepeatsInv
<1>9. QED  BY <1>5, <1>6, <1>7, <1>8 DEF ViewInv

\* The notifies of a visit lead the view from the old sight to the new.
LEMMA FinishQueryViewInv ==
  ASSUME IndexInv, SymmetryInv, ViewInv, FinishQuery, UNCHANGED view
  PROVE  ViewInv'
<1> DEFINE old == snap[cur].interests
           new == NewInterests(cur, found)
<1>1. /\ UNCHANGED <<entities, life, thread>> /\ Members' = Members
      /\ DOMAIN snap' = DOMAIN snap
      /\ cur \in DOMAIN snap /\ snap[cur] \in Entity
  BY DEF FinishQuery, mainVars, Members, Member, IndexInv, LocalsInv, TypeOK
<1>2. /\ old \in SUBSET Eids /\ new \in SUBSET Eids /\ cur \notin new
      /\ snap[cur].notifies \in Seq(Notify)
  BY <1>1 DEF Entity, NewInterests, IndexInv, TypeOK
<1>3. /\ \A k \in DOMAIN snap \ {cur} : /\ snap'[k].interests = snap[k].interests
                                        /\ snap'[k].notifies = snap[k].notifies
      /\ snap'[cur].interests = new
      /\ snap'[cur].notifies = Triggered(snap[cur].notifies, old, new)
  <2>1. \A k \in DOMAIN snap : snap[k] \in Entity
    BY DEF IndexInv, TypeOK
  <2>2. \A k \in DOMAIN snap : snap'[k] =
           [snap[k] EXCEPT !.observers = Registered(@, cur, k, old, new),
                           !.interests = IF k = cur THEN new ELSE @,
                           !.notifies  = IF k = cur THEN Triggered(@, old, new) ELSE @]
    BY DEF FinishQuery
  <2> HIDE DEF old, new
  <2>3. QED  BY <1>1, <2>1, <2>2 DEF Entity
<1>4. \A x \in old \cup new : ~Fresh(x)
  <2>1. \A x \in new : ~Fresh(x)
    BY DEF NewInterests, IndexInv, LocalsInv, UsedInv
  <2>2. \A x \in old : ~Fresh(x)
    BY <1>1, <1>2 DEF SymmetryInv, SightUsed
  <2>3. QED  BY <2>1, <2>2
<1> HIDE DEF old, new
<1>5. \A v, x : /\ Tells(snap'[cur].notifies, x)
                      <=> Tells(snap[cur].notifies, x) \/ x \in new \ old \/ x \in old \ new
                /\ Shows(v, snap'[cur].notifies, x)
                      <=> IF x \in new \ old THEN TRUE
                          ELSE IF x \in old \ new THEN FALSE ELSE Shows(v, snap[cur].notifies, x)
  BY <1>2, <1>3, TriggeredShows
<1>6. ViewsInv' /\ (\A p \in Players : \A x \in view[p] : ~Fresh(x))'
  BY <1>1 DEF ViewInv, ViewsInv, Fresh, Member
<1>7. MentionsInv(entities)'
  BY <1>1 DEF ViewInv, MentionsInv, Fresh
<1>8. MentionsInv(snap)'
  BY <1>1, <1>2, <1>3, <1>4, <1>5 DEF ViewInv, MentionsInv, Fresh
<1>9. ViewFollows(entities)'
  BY <1>1 DEF ViewInv, ViewFollows
<1>10. ViewFollows(snap)'
  <2> SUFFICES ASSUME NEW p \in Players \cap Members, p \in DOMAIN snap, NEW x \in Members
               PROVE  Shows(view[p], snap'[p].notifies, x) <=> x \in snap'[p].interests
    BY <1>1 DEF ViewFollows
  <2>1. Shows(view[p], snap[p].notifies, x) <=> x \in snap[p].interests
    BY DEF ViewInv, ViewFollows
  <2>2. CASE p # cur
    BY <1>3, <2>1, <2>2
  <2>3. CASE p = cur
    BY <1>3, <1>5, <2>1, <2>3 DEF old
  <2>4. QED  BY <2>2, <2>3
<1>11. RepeatsInv'
  BY <1>1, <1>3, <1>5 DEF ViewInv, RepeatsInv
<1>12. QED  BY <1>6, <1>7, <1>8, <1>9, <1>10, <1>11 DEF ViewInv

\* Publishing replaces sight and notifies together.
LEMMA PublishViewInv ==
  ASSUME IndexInv, SymmetryInv, ViewInv, Publish, UNCHANGED view
  PROVE  ViewInv'
<1>1. /\ UNCHANGED life /\ Members' = Members /\ thread' = "wait" /\ DOMAIN snap' = {}
      /\ DOMAIN entities' = DOMAIN entities
  BY DEF Publish, Published, Members, Member
<1>2. ASSUME NEW k \in DOMAIN entities
      PROVE  /\ k \in DOMAIN snap => /\ entities'[k].interests = snap[k].interests
                                    /\ entities'[k].notifies = snap[k].notifies
             /\ k \notin DOMAIN snap => entities'[k] = entities[k]
  <2>1. entities[k] \in Entity
    BY DEF IndexInv, TypeOK
  <2>2. QED  BY <2>1 DEF Publish, Published, Entity
<1>3. ViewsInv' /\ (\A p \in Players : \A x \in view[p] : ~Fresh(x))'
  BY <1>1 DEF ViewInv, ViewsInv, Fresh, Member
<1>4. MentionsInv(entities)' /\ MentionsInv(snap)'
  BY <1>1, <1>2 DEF ViewInv, MentionsInv, Fresh
<1>5. ViewFollows(entities)' /\ ViewFollows(snap)'
  BY <1>1, <1>2 DEF ViewInv, ViewFollows
<1>6. RepeatsInv'
  BY <1>1 DEF RepeatsInv
<1>7. QED  BY <1>3, <1>4, <1>5, <1>6 DEF ViewInv

\* A move tells nobody anything, and neither does the rest.
LEMMA MoveViewInv ==
  ASSUME IndexInv, ViewInv, NEW e \in Eids, Move(e)
  PROVE  ViewInv'
<1>1. PICK p \in Positions : entities' = [entities EXCEPT ![e].x = p[1], ![e].y = p[2]]
  BY DEF Move, UpdateEntity
<1>2. ASSUME NEW k \in DOMAIN entities
      PROVE  /\ entities'[k].interests = entities[k].interests
             /\ entities'[k].notifies = entities[k].notifies
  <2>1. entities[k] \in Entity
    BY DEF IndexInv, TypeOK
  <2>2. QED  BY <1>1, <2>1 DEF Entity
<1>3. QED  BY <1>1, <1>2, SameNews DEF Move, UpdateEntity, threadVars

\* The other steps change no notify that counts.
LEMMA OtherViewInv ==
  ASSUME IndexInv, ViewInv, UNCHANGED view,
         \/ StopCall \/ StopSetFlag \/ StopJoin
         \/ ThreadStart \/ ThreadExit \/ Wake \/ ReadSecond
         \/ (\E a \in Eids : BeginQuery(a))
         \/ UNCHANGED vars
  PROVE  ViewInv'
<1>1. UNCHANGED <<entities, life, snap>> /\ (thread' = "update" => thread = "update")
  BY DEF StopCall, StopSetFlag, StopJoin, ThreadStart, ThreadExit, Wake, ReadSecond,
         BeginQuery, vars, mainVars, threadVars, copyVars, queryVars
<1>2. QED  BY <1>1, SameNews

\* A step of the space is one of the service.
LEMMA SpaceStep == [SpaceNext]_spaceVars => [Next]_vars
  BY DEF SpaceNext, spaceVars, Join, Leave, Move, Update, Destroy, AOIStep, Next, MainThread

\* Every step.
LEMMA StepViewInv == IndexInv /\ SymmetryInv /\ ViewInv /\ [SpaceNext]_spaceVars => ViewInv'
<1> SUFFICES ASSUME IndexInv, SymmetryInv, ViewInv, [SpaceNext]_spaceVars PROVE ViewInv'
  OBVIOUS
<1>1. CASE \E e \in Eids : Join(e)
  BY <1>1, JoinViewInv
<1>2. CASE \E e \in Eids : Leave(e)
  BY <1>2, LeaveViewInv
<1>3. CASE \E e \in Eids : Move(e)
  BY <1>3, MoveViewInv
<1>4. CASE Update
  BY <1>4, UpdateViewInv
<1>5. CASE Destroy
  BY <1>5, OtherViewInv DEF Destroy
<1>6. CASE AOIStep
  BY <1>6, SnapshotViewInv, ReadFirstViewInv, FinishQueryViewInv, PublishViewInv, OtherViewInv
  DEF AOIStep, AOIThread
<1>7. CASE (Terminated /\ UNCHANGED view) \/ UNCHANGED spaceVars
  BY <1>7, OtherViewInv DEF Terminated, spaceVars
<1>8. QED  BY <1>1, <1>2, <1>3, <1>4, <1>5, <1>6, <1>7 DEF SpaceNext

\* The three invariants hold together.
LEMMA SpaceCorrect == SpaceSpec => []SpaceInv
<1>1. SpaceInit => SpaceInv
  BY InitIndexInv, InitSymmetryInv, InitViewInv DEF SpaceInit, SpaceInv
<1>2. SpaceInv /\ [SpaceNext]_spaceVars => SpaceInv'
  BY SpaceStep, StepIndexInv, StepSymmetryInv, StepViewInv DEF SpaceInv
<1>3. QED  BY <1>1, <1>2, PTL DEF SpaceSpec

-----------------------------------------------------------------------------
(* Theorems *)

\* In every state, what is pending for a member leads its view to its sight.
LEMMA PendingIsSight ==
  ASSUME SpaceInv, NEW p \in Players \cap Members, NEW x \in Members
  PROVE  x \in Pending(p) <=> x \in entities[p].interests
<1>1. p \in DOMAIN entities /\ x \in Eids /\ entities[p].notifies \in Seq(Notify)
  BY MemberRecord DEF SpaceInv, Members
<1>2. x \in Pending(p) <=> Shows(view[p], entities[p].notifies, x)
  BY <1>1, PendingShows
<1>3. QED  BY <1>1, <1>2 DEF SpaceInv, ViewInv, ViewFollows

\* However often rounds repeat notifies that were already fetched, a client that applies
\* what is pending shows exactly whom its player sees (Space::update, grid_aoi.cpp run).
THEOREM ViewAlwaysMatches == SpaceSpec => []ViewMatchesInterests
<1>1. SpaceInv => ViewMatchesInterests
  <2> SUFFICES ASSUME SpaceInv PROVE ViewMatchesInterests
    OBVIOUS
  <2>1. TypeOK /\ view \in [Players -> SUBSET Eids]
    BY DEF SpaceInv, IndexInv, ViewInv, ViewsInv
  <2>2. ASSUME NEW p \in Players \cap Members
        PROVE  Pending(p) \cap Members = AoiUpdates(p)
    BY PendingIsSight DEF AoiUpdates
  <2>3. QED  BY <2>1, <2>2 DEF ViewMatchesInterests
<1>2. QED  BY <1>1, SpaceCorrect, PTL

\* A message about an entity reaches exactly the clients that show it once their
\* pending notifies are applied (Space::call_others).
THEOREM BroadcastAlwaysMatches == SpaceSpec => []BroadcastMatchesView
<1>1. SpaceInv => BroadcastMatchesView
  <2> SUFFICES ASSUME SpaceInv, NEW e \in Members
               PROVE  CallOthers(e) = {p \in Players \cap Members : e \in Pending(p)}
    BY DEF BroadcastMatchesView
  <2>1. Symmetry
    BY DEF SpaceInv, IndexInv, GhostsInert, SymmetryInv, SightSymmetric, Symmetry
  <2>2. ASSUME NEW p \in Players \cap Members
        PROVE  p \in entities[e].observers <=> e \in Pending(p)
    BY <2>1, PendingIsSight DEF Symmetry
  <2>3. \A p \in Players : Member(p) <=> p \in Players \cap Members
    BY PlayersAssumption DEF Members
  <2>4. QED  BY <2>2, <2>3 DEF CallOthers
<1>2. QED  BY <1>1, SpaceCorrect, PTL

-----------------------------------------------------------------------------
(* A space implements Sight *)

\* The variables of Sight, read off the space.
SeesNow == [e \in Eids |-> IF Member(e) THEN entities[e].interests \cap Members ELSE {}]
ShownNow == [p \in Players |-> IF Member(p) THEN view[p] \cap Members ELSE {}]

\* A step that changes neither membership nor sight nor views is no step of Sight.
LEMMA PromiseStutters ==
  ASSUME UNCHANGED <<life, view>>,
         \A e \in Members : entities'[e].interests = entities[e].interests
  PROVE  UNCHANGED Promise!sightVars
<1>1. UNCHANGED <<Members, view>> /\ \A e \in Eids : Member(e)' = Member(e)
  BY DEF Members, Member
<1>2. \A e \in Eids : Member(e) => e \in Members
  BY DEF Members
<1>3. SeesNow' = SeesNow
  BY <1>1, <1>2 DEF SeesNow
<1>4. ShownNow' = ShownNow
  BY <1>1 DEF ShownNow, Member
<1>5. QED  BY <1>1, <1>3, <1>4 DEF Promise!sightVars, SeesNow, ShownNow

\* A join is an Enter of Sight.
LEMMA JoinPromise ==
  ASSUME SpaceInv, NEW e \in Eids, Join(e)
  PROVE  Promise!Enter(e)
<1>1. PICK p \in Positions, asked \in Radii :
         entities' = With(entities, e, NewEntity(e, p, Clamped(asked)))
  BY DEF Join, AddEntity
<1>2. Fresh(e) /\ ~Member(e) /\ e \notin Members /\ UNCHANGED view
  BY DEF Join, AddEntity, Fresh, Member, Members
<1>3. /\ Members' = Members \cup {e} /\ Member(e)'
      /\ \A k \in Eids \ {e} : Member(k)' = Member(k)
  BY DEF Join, AddEntity, Members, Member, SpaceInv, IndexInv, TypeOK
<1>4. entities'[e].interests = {} /\ \A k \in Members : entities'[k] = entities[k]
  BY <1>1, <1>2, MemberRecord DEF With, NewEntity, SpaceInv
<1>5. \A k \in Members : e \notin entities[k].interests
  BY <1>2, MemberRecord DEF SpaceInv, SymmetryInv, SightUsed
<1>6. SeesNow' = SeesNow
  <2> SUFFICES ASSUME NEW k \in Eids
               PROVE  (IF Member(k)' THEN entities'[k].interests \cap Members' ELSE {})
                         = IF Member(k) THEN entities[k].interests \cap Members ELSE {}
    BY DEF SeesNow
  <2>1. CASE k = e
    BY <1>2, <1>3, <1>4, <2>1
  <2>2. CASE k # e /\ Member(k)
    BY <1>3, <1>4, <1>5, <2>2 DEF Members
  <2>3. CASE k # e /\ ~Member(k)
    BY <1>3, <2>3
  <2>4. QED  BY <2>1, <2>2, <2>3
<1>7. ShownNow' = ShownNow
  <2> SUFFICES ASSUME NEW k \in Players
               PROVE  (IF Member(k)' THEN view'[k] \cap Members' ELSE {})
                         = IF Member(k) THEN view[k] \cap Members ELSE {}
    BY DEF ShownNow
  <2>1. k \in Eids /\ e \notin view[k] /\ view'[k] = view[k]
    BY <1>2, PlayersAssumption DEF SpaceInv, ViewInv
  <2>2. CASE k = e
    BY <1>2, <2>1, <2>2 DEF SpaceInv, ViewInv, ViewsInv
  <2>3. CASE k # e
    BY <1>3, <2>1, <2>3
  <2>4. QED  BY <2>2, <2>3
<1>8. QED  BY <1>2, <1>3, <1>6, <1>7 DEF Promise!Enter, SeesNow, ShownNow

\* A leave is its Leave.
LEMMA LeavePromise ==
  ASSUME SpaceInv, NEW e \in Eids, Leave(e)
  PROVE  Promise!Leave(e)
<1>1. e \in Members /\ \A k \in Members : k # e => entities'[k] = entities[k]
  BY MemberRecord DEF Leave, DelEntity, Without, Members, SpaceInv
<1>2. /\ Members' = Members \ {e} /\ ~Member(e)'
      /\ \A k \in Eids \ {e} : Member(k)' = Member(k)
  BY DEF Leave, DelEntity, SpaceInv, IndexInv, TypeOK, Members, Member
<1>3. \A p \in Players \ {e} : view'[p] = view[p]
  BY DEF Leave, SpaceInv, ViewInv, ViewsInv
<1>4. SeesNow' = [a \in Eids |-> IF a = e THEN {} ELSE SeesNow[a] \ {e}]
  <2> SUFFICES ASSUME NEW k \in Eids
               PROVE  (IF Member(k)' THEN entities'[k].interests \cap Members' ELSE {})
                         = IF k = e THEN {}
                           ELSE (IF Member(k) THEN entities[k].interests \cap Members ELSE {}) \ {e}
    BY DEF SeesNow
  <2>1. CASE k = e
    BY <1>2, <2>1
  <2>2. CASE k # e /\ Member(k)
    BY <1>1, <1>2, <2>2 DEF Members
  <2>3. CASE k # e /\ ~Member(k)
    BY <1>2, <2>3
  <2>4. QED  BY <2>1, <2>2, <2>3
<1>5. ShownNow' = [p \in Players |-> IF p = e THEN {} ELSE ShownNow[p] \ {e}]
  <2> SUFFICES ASSUME NEW k \in Players
               PROVE  (IF Member(k)' THEN view'[k] \cap Members' ELSE {})
                         = IF k = e THEN {}
                           ELSE (IF Member(k) THEN view[k] \cap Members ELSE {}) \ {e}
    BY DEF ShownNow
  <2>1. CASE k = e
    BY <1>2, <2>1
  <2>2. CASE k # e
    BY <1>2, <1>3, <2>2, PlayersAssumption
  <2>3. QED  BY <2>1, <2>2
<1>6. QED  BY <1>1, <1>2, <1>4, <1>5 DEF Promise!Leave, SeesNow, ShownNow

\* An update is its Deliver.
LEMMA UpdatePromise ==
  ASSUME SpaceInv, Update
  PROVE  Promise!Deliver
<1>1. /\ UNCHANGED <<life, Members>>
      /\ \A p \in Players : view'[p] = IF Member(p) THEN Pending(p) ELSE view[p]
  BY DEF Update, FetchState, Members, Member
<1>2. ASSUME NEW k \in Members
      PROVE  entities'[k].interests = entities[k].interests
  <2>1. k \in DOMAIN entities /\ entities[k] \in Entity
    BY MemberRecord DEF SpaceInv
  <2>2. QED  BY <2>1 DEF Update, FetchState, Fetched, Entity
<1>3. \A k \in Eids : Member(k)' = Member(k) /\ (Member(k) => k \in Members)
  BY <1>1 DEF Member, Members
<1>4. SeesNow' = SeesNow
  BY <1>1, <1>2, <1>3 DEF SeesNow
<1>5. ShownNow' = [p \in Players |-> SeesNow[p]]
  <2> SUFFICES ASSUME NEW k \in Players
               PROVE  (IF Member(k)' THEN view'[k] \cap Members' ELSE {})
                         = IF Member(k) THEN entities[k].interests \cap Members ELSE {}
    BY PlayersAssumption DEF ShownNow, SeesNow
  <2>1. CASE Member(k)
    <3>1. k \in Players \cap Members
      BY <2>1, PlayersAssumption DEF Members
    <3>2. Pending(k) \cap Members = entities[k].interests \cap Members
      BY <3>1, PendingIsSight
    <3>3. QED  BY <1>1, <1>3, <2>1, <3>2, PlayersAssumption
  <2>2. CASE ~Member(k)
    BY <1>3, <2>2, PlayersAssumption
  <2>3. QED  BY <2>1, <2>2
<1>6. QED  BY <1>1, <1>4, <1>5 DEF Promise!Deliver, SeesNow, ShownNow

\* The end of a round is its Refresh.
LEMMA PublishPromise ==
  ASSUME SpaceInv, SpaceInv', Publish, UNCHANGED view
  PROVE  Promise!Refresh
<1>1. UNCHANGED <<life, view, Members>>
  BY DEF Publish, Members, Member
<1>2. ShownNow' = ShownNow
  BY <1>1 DEF ShownNow, Member
<1>3. SeesNow' \in [Eids -> SUBSET Members]
  BY <1>1 DEF SeesNow
<1>4. ASSUME NEW a \in Eids
      PROVE  a \notin SeesNow'[a] /\ (a \notin Members => SeesNow'[a] = {})
  <2>1. CASE Member(a)'
    <3>1. a \in Members' /\ a \in DOMAIN entities'
      BY <2>1 DEF Members, SpaceInv, IndexInv, GhostsInert
    <3>2. a \notin entities'[a].interests
      BY <3>1 DEF SpaceInv, ViewInv, MentionsInv
    <3>3. QED  BY <1>1, <2>1, <3>1, <3>2 DEF SeesNow
  <2>2. CASE ~Member(a)'
    BY <2>2 DEF SeesNow
  <2>3. QED  BY <2>1, <2>2
<1>5. QED  BY <1>1, <1>2, <1>3, <1>4 DEF Promise!Refresh, SeesNow, ShownNow

\* The other steps are none of its steps.
LEMMA OtherPromise ==
  ASSUME SpaceInv,
         \/ (\E e \in Eids : Move(e)) \/ Destroy
         \/ AOIStep /\ ~Publish
         \/ (Terminated /\ UNCHANGED view) \/ UNCHANGED spaceVars
  PROVE  UNCHANGED Promise!sightVars
<1>1. CASE \E e \in Eids : Move(e)
  <2>1. PICK e \in Eids, p \in Positions :
           Move(e) /\ entities' = [entities EXCEPT ![e].x = p[1], ![e].y = p[2]]
    BY <1>1 DEF Move, UpdateEntity
  <2>2. ASSUME NEW k \in Members
        PROVE  entities'[k].interests = entities[k].interests
    <3>1. k \in DOMAIN entities /\ entities[k] \in Entity
      BY MemberRecord DEF SpaceInv
    <3>2. QED  BY <2>1, <3>1 DEF Entity
  <2>3. QED  BY <2>1, <2>2, PromiseStutters DEF Move, UpdateEntity
<1>2. CASE \E c \in Eids : ReadFirst(c) /\ UNCHANGED view
  <2>1. \A k \in Members : entities'[k] = entities[k]
    BY <1>2, MemberRecord DEF ReadFirst, With, SpaceInv
  <2>2. QED  BY <1>2, <2>1, PromiseStutters DEF ReadFirst
<1>3. CASE UNCHANGED <<entities, life, view>>
  BY <1>3, PromiseStutters
<1>4. QED
  BY <1>1, <1>2, <1>3
  DEF Destroy, StopCall, StopSetFlag, StopJoin, AOIStep, AOIThread, ThreadStart, ThreadExit,
      Snapshot, BeginQuery, ReadSecond, FinishQuery, Wake, Terminated, spaceVars, vars, mainVars

\* Every behaviour of a space is one of Sight: joins enter, leaves leave, Update delivers,
\* publishing a round refreshes, and all other steps of both threads go unnoticed.
THEOREM SpaceKeepsPromise == SpaceSpec => KeepsPromise
<1>1. SpaceInit => Promise!Init
  <2> SUFFICES ASSUME SpaceInit PROVE Promise!Init
    OBVIOUS
  <2>1. Members = {} /\ \A e \in Eids : ~Member(e)
    BY DEF SpaceInit, Init, Members, Member
  <2>2. QED  BY <2>1, PlayersAssumption DEF Promise!Init
<1>2. SpaceInv /\ SpaceInv' /\ [SpaceNext]_spaceVars => [Promise!Next]_Promise!sightVars
  <2> SUFFICES ASSUME SpaceInv, SpaceInv', [SpaceNext]_spaceVars
               PROVE  Promise!Next \/ UNCHANGED Promise!sightVars
    OBVIOUS
  <2>1. CASE \E e \in Eids : Join(e)
    BY <2>1, JoinPromise DEF Promise!Next
  <2>2. CASE \E e \in Eids : Leave(e)
    BY <2>2, LeavePromise DEF Promise!Next
  <2>3. CASE Update
    BY <2>3, UpdatePromise DEF Promise!Next
  <2>4. CASE AOIStep /\ Publish
    BY <2>4, PublishPromise DEF Promise!Next, AOIStep
  <2>5. QED  BY <2>1, <2>2, <2>3, <2>4, OtherPromise DEF SpaceNext
<1>3. QED  BY <1>1, <1>2, SpaceCorrect, PTL DEF SpaceSpec, KeepsPromise, Promise!Spec
=============================================================================
