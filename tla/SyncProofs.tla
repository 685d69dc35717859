----------------------------- MODULE SyncProofs -----------------------------
(* Proofs about SyncArray, for any elements, length of the array and number of *)
(* deltas on their way, and about PropertySync, for all entities, players,     *)
(* attributes and times.                                                       *)
EXTENDS SyncArray, PropertySync, DataLemmas, TLAPS

-----------------------------------------------------------------------------
(* What a reader makes of a log *)

\* The arrays before and after each operation of a log.
IsRun(f, v, l, n) == f = [i \in 0 .. n |-> IF i = 0 THEN v ELSE ApplyOp(f[i - 1], l[i])]

\* Every log can be read ...
LEMMA RunExists ==
  ASSUME NEW v, NEW l, NEW n \in Nat
  PROVE  \E f : IsRun(f, v, l, n)
<1> DEFINE S == {k \in Nat : \E f : IsRun(f, v, l, k)}
<1>1. 0 \in S
  <2>1. IsRun([i \in 0 .. 0 |-> v], v, l, 0)
    BY DEF IsRun
  <2>2. QED  BY <2>1
<1>2. ASSUME NEW k \in Nat, k \in S
      PROVE  k + 1 \in S
  <2>1. PICK f : IsRun(f, v, l, k)
    BY <1>2
  <2> DEFINE g == [i \in 0 .. k + 1 |-> IF i = k + 1 THEN ApplyOp(f[k], l[k + 1]) ELSE f[i]]
  <2>2. f = [i \in 0 .. k |-> IF i = 0 THEN v ELSE ApplyOp(f[i - 1], l[i])]
    BY <2>1 DEF IsRun
  <2>3. ASSUME NEW i \in 0 .. k + 1
        PROVE  g[i] = IF i = 0 THEN v ELSE ApplyOp(g[i - 1], l[i])
    <3>1. CASE i = 0
      BY <2>2, <3>1
    <3>2. CASE i # 0 /\ i # k + 1
      <4>1. i \in 0 .. k /\ i - 1 \in 0 .. k + 1 /\ i - 1 # k + 1
        BY <3>2
      <4>2. f[i] = ApplyOp(f[i - 1], l[i])
        BY <2>2, <3>2, <4>1
      <4>3. g[i] = f[i] /\ g[i - 1] = f[i - 1]
        BY <3>2, <4>1
      <4>4. QED  BY <3>2, <4>2, <4>3
    <3>3. CASE i = k + 1
      <4>1. k \in 0 .. k + 1 /\ k # k + 1 /\ (k + 1) - 1 = k /\ k + 1 # 0
        OBVIOUS
      <4>2. g[k] = f[k] /\ g[k + 1] = ApplyOp(f[k], l[k + 1])
        BY <4>1
      <4>3. QED  BY <3>3, <4>1, <4>2
    <3>4. QED  BY <3>1, <3>2, <3>3
  <2>4. IsRun(g, v, l, k + 1)
    <3>1. g = [i \in 0 .. k + 1 |-> g[i]]
      OBVIOUS
    <3> HIDE DEF g
    <3>2. [i \in 0 .. k + 1 |-> g[i]] =
             [i \in 0 .. k + 1 |-> IF i = 0 THEN v ELSE ApplyOp(g[i - 1], l[i])]
      BY <2>3
    <3>3. QED  BY <3>1, <3>2 DEF IsRun
  <2>5. QED  BY <2>4
<1>3. Nat \subseteq S
  <2> HIDE DEF S
  <2>1. QED  BY <1>1, <1>2, Induction
<1>4. QED  BY <1>3

\* ... in one way.
LEMMA RunUnique ==
  ASSUME NEW v, NEW l, NEW m, NEW n \in Nat, NEW f, NEW g, IsRun(f, v, l, n),
         NEW k \in Nat, k <= n, IsRun(g, v, m, k), \A i \in 1 .. k : l[i] = m[i]
  PROVE  f[k] = g[k]
<1> DEFINE S == {i \in Nat : i <= k => f[i] = g[i]}
<1>1. 0 \in S
  <2>1. f[0] = v /\ g[0] = v
    BY DEF IsRun
  <2>2. QED  BY <2>1
<1>2. ASSUME NEW i \in Nat, i \in S
      PROVE  i + 1 \in S
  <2> SUFFICES ASSUME i + 1 <= k
               PROVE  f[i + 1] = g[i + 1]
    OBVIOUS
  <2>1. f[i] = g[i] /\ l[i + 1] = m[i + 1]
    BY <1>2
  <2>2. i + 1 # 0 /\ (i + 1) - 1 = i /\ i + 1 \in 0 .. n /\ i + 1 \in 0 .. k
    OBVIOUS
  <2>3. f[i + 1] = ApplyOp(f[i], l[i + 1])
    BY <2>2 DEF IsRun
  <2>4. g[i + 1] = ApplyOp(g[i], m[i + 1])
    BY <2>2 DEF IsRun
  <2>5. QED  BY <2>1, <2>3, <2>4
<1>3. Nat \subseteq S
  <2> HIDE DEF S
  <2>1. QED  BY <1>1, <1>2, Induction
<1>4. QED  BY <1>3

\* Replay reads a log.
LEMMA ReplayRuns ==
  ASSUME NEW v, NEW S, NEW l \in Seq(S)
  PROVE  \E f : IsRun(f, v, l, Len(l)) /\ Replay(v, l) = f[Len(l)]
<1> DEFINE n == Len(l)
           r == CHOOSE f : IsRun(f, v, l, n)
<1>1. n \in Nat
  OBVIOUS
<1>2. IsRun(r, v, l, n)
  <2>1. \E f : IsRun(f, v, l, n)
    BY <1>1, RunExists
  <2>2. QED  BY <2>1
<1>3. Replay(v, l) = r[n]
  BY DEF Replay, IsRun
<1>4. QED  BY <1>2, <1>3

\* No operation, no change; one more operation is applied last.
LEMMA ReplayEmpty ==
  ASSUME NEW v
  PROVE  Replay(v, <<>>) = v
<1>1. <<>> \in Seq({}) /\ Len(<<>>) = 0
  OBVIOUS
<1>2. PICK f : IsRun(f, v, <<>>, 0) /\ Replay(v, <<>>) = f[0]
  BY <1>1, ReplayRuns
<1>3. QED  BY <1>2 DEF IsRun

\* A log is read by any run over it.
LEMMA ReplayIs ==
  ASSUME NEW v, NEW S, NEW l \in Seq(S), NEW f, IsRun(f, v, l, Len(l))
  PROVE  Replay(v, l) = f[Len(l)]
<1>1. PICK g : IsRun(g, v, l, Len(l)) /\ Replay(v, l) = g[Len(l)]
  BY ReplayRuns
<1>2. Len(l) \in Nat
  OBVIOUS
<1>3. QED  BY <1>1, <1>2, RunUnique

\* A log may be read in two parts.
LEMMA ReplayConcat ==
  ASSUME NEW v, NEW S, NEW a \in Seq(S), NEW b \in Seq(S)
  PROVE  Replay(v, a \o b) = Replay(Replay(v, a), b)
<1> DEFINE c == a \o b
           m == Len(a)
           n == Len(b)
<1>1. /\ m \in Nat /\ n \in Nat /\ c \in Seq(S) /\ Len(c) = m + n
      /\ \A i \in 1 .. m : c[i] = a[i]
      /\ \A i \in 1 .. n : c[m + i] = b[i]
  OBVIOUS
<1>2. PICK f : IsRun(f, v, c, m + n) /\ Replay(v, c) = f[m + n]
  BY <1>1, ReplayRuns
<1>3. PICK g : IsRun(g, v, a, m) /\ Replay(v, a) = g[m]
  BY ReplayRuns
<1> HIDE DEF c, m, n
<1>4. f[m] = g[m]
  BY <1>1, <1>2, <1>3, RunUnique
<1> DEFINE h == [i \in 0 .. n |-> f[m + i]]
<1>5. IsRun(h, f[m], b, n)
  <2>1. ASSUME NEW i \in 0 .. n
        PROVE  f[m + i] = IF i = 0 THEN f[m] ELSE ApplyOp(h[i - 1], b[i])
    <3>1. CASE i = 0
      BY <1>1, <3>1
    <3>2. CASE i # 0
      <4>1. /\ i \in 1 .. n /\ i - 1 \in 0 .. n /\ m + i \in 0 .. m + n /\ m + i # 0
            /\ (m + i) - 1 = m + (i - 1)
        BY <1>1, <3>2
      <4>2. f[m + i] = ApplyOp(f[(m + i) - 1], c[m + i])
        BY <1>2, <4>1 DEF IsRun
      <4>3. c[m + i] = b[i] /\ h[i - 1] = f[m + (i - 1)]
        BY <1>1, <4>1
      <4>4. QED  BY <3>2, <4>1, <4>2, <4>3
    <3>3. QED  BY <3>1, <3>2
  <2>2. h = [i \in 0 .. n |-> IF i = 0 THEN f[m] ELSE ApplyOp(h[i - 1], b[i])]
    BY <2>1
  <2>3. QED  BY <2>2 DEF IsRun
<1>6. h[n] = f[m + n]
  BY <1>1
<1> HIDE DEF h
<1>7. Replay(f[m], b) = h[n]
  BY <1>5, ReplayIs DEF n
<1>8. QED  BY <1>2, <1>3, <1>4, <1>6, <1>7 DEF c

\* A log of one operation applies it.
LEMMA ReplayOne ==
  ASSUME NEW v, NEW o
  PROVE  Replay(v, <<o>>) = ApplyOp(v, o)
<1>1. <<o>> \in Seq({o}) /\ Len(<<o>>) = 1 /\ <<o>>[1] = o
  OBVIOUS
<1>2. PICK f : IsRun(f, v, <<o>>, 1) /\ Replay(v, <<o>>) = f[1]
  BY <1>1, ReplayRuns
<1>3. f[0] = v /\ f[1] = ApplyOp(f[0], <<o>>[1])
  BY <1>2 DEF IsRun
<1>4. QED  BY <1>1, <1>2, <1>3

\* The last operation is applied last.
LEMMA ReplayAppend ==
  ASSUME NEW v, NEW S, NEW l \in Seq(S), NEW o \in S
  PROVE  Replay(v, Append(l, o)) = ApplyOp(Replay(v, l), o)
<1>1. PICK b : b = <<o>>
  OBVIOUS
<1>2. b \in Seq(S) /\ Append(l, o) = l \o b
  BY <1>1
<1>3. Replay(v, l \o b) = Replay(Replay(v, l), b)
  BY <1>2, ReplayConcat
<1>4. PICK r : r = Replay(v, l)
  OBVIOUS
<1>5. Replay(r, <<o>>) = ApplyOp(r, o)
  BY ReplayOne
<1>6. QED  BY <1>1, <1>2, <1>3, <1>4, <1>5

-----------------------------------------------------------------------------
(* What a method logs is what it did *)

\* The operations a log may hold.
Position == {i \in Nat : i < MaxLen}

Op == [op : {"push_back"}, value : Values]
        \cup [op : {"pop_back"}]
        \cup [op : {"insert"}, pos : Position, value : Values]
        \cup [op : {"erase"}, pos : Position]
        \cup [op : {"resize"}, count : 0 .. MaxLen]
        \cup [op : {"update"}, pos : Position, value : Values]

\* The state an array is in when one of its methods is called.
VecOK == vec \in Seq(Values) /\ Len(vec) <= MaxLen

\* A method that logs what it did.
Honest == \E o \in Op, new \in Seq(Values) : Changed(o, new) /\ ApplyOp(vec, o) = new

\* No position is cut off by its cast to uint16_t.
LEMMA IndexIs ==
  ASSUME NEW i \in 0 .. MaxLen
  PROVE  Index(i) = i
<1>1. i \in Nat /\ Width \in Nat \ {0} /\ i < Width
  BY LengthAssumption, WidthAssumption
<1>2. QED  BY <1>1 DEF Index

\* push_back logs what it does.
LEMMA PushBackHonest ==
  ASSUME VecOK, NEW v \in Values, CallPushBack(v)
  PROVE  Honest
<1> DEFINE o == PushBack(v)
           new == vec \o <<v>>
<1>1. o \in Op /\ o.op = "push_back" /\ o.value = v
  BY DEF Op, PushBack
<1>2. new \in Seq(Values) /\ Append(vec, v) = new
  BY DEF VecOK
<1>3. Changed(o, new)
  BY DEF CallPushBack
<1> HIDE DEF o, new
<1>4. ApplyOp(vec, o) = Append(vec, v)
  BY <1>1 DEF ApplyOp
<1>5. QED  BY <1>1, <1>2, <1>3, <1>4 DEF Honest

\* So does pop_back,
LEMMA PopBackHonest ==
  ASSUME VecOK, CallPopBack
  PROVE  Honest
<1> DEFINE o == PopBack
           new == SubSeq(vec, 1, Len(vec) - 1)
<1>1. o \in Op /\ o.op = "pop_back"
  BY DEF Op, PopBack
<1>2. new \in Seq(Values) /\ Front(vec) = new
  BY DEF VecOK, CallPopBack, Front
<1>3. Changed(o, new)
  BY DEF CallPopBack
<1> HIDE DEF o, new
<1>4. ApplyOp(vec, o) = Front(vec)
  BY <1>1 DEF ApplyOp
<1>5. QED  BY <1>1, <1>2, <1>3, <1>4 DEF Honest

\* insert,
LEMMA InsertHonest ==
  ASSUME VecOK, NEW i \in 0 .. MaxLen, NEW v \in Values, CallInsert(i, v)
  PROVE  Honest
<1> DEFINE o == Insert(i, v)
           new == SubSeq(vec, 1, i) \o <<v>> \o SubSeq(vec, i + 1, Len(vec))
<1>1. Changed(o, new) /\ i <= Len(vec)
  BY DEF CallInsert
<1>2. /\ new \in Seq(Values) /\ Len(new) = Len(vec) + 1
  <2> DEFINE a == SubSeq(vec, 1, i)
             b == SubSeq(vec, i + 1, Len(vec))
  <2>1. a \in Seq(Values) /\ Len(a) = i
    BY <1>1 DEF VecOK
  <2>2. b \in Seq(Values) /\ Len(b) = Len(vec) - i
    BY <1>1 DEF VecOK
  <2>3. Len(vec) \in Nat
    BY DEF VecOK
  <2> HIDE DEF a, b
  <2>4. (a \o <<v>>) \in Seq(Values) /\ Len(a \o <<v>>) = i + 1
    BY <2>1
  <2>5. a \o <<v>> \o b \in Seq(Values) /\ Len(a \o <<v>> \o b) = (i + 1) + (Len(vec) - i)
    BY <2>2, <2>4
  <2>6. new = a \o <<v>> \o b
    BY Zenon DEF a, b
  <2> HIDE DEF new
  <2>7. (i + 1) + (Len(vec) - i) = Len(vec) + 1
    BY <2>3
  <2>8. QED  BY <2>5, <2>6, <2>7
<1>3. i \in Position
  <2>1. Len(new) <= MaxLen
    BY <1>1 DEF Changed
  <2>2. Len(vec) \in Nat /\ i \in Nat
    BY DEF VecOK
  <2> HIDE DEF new
  <2>3. QED  BY <1>1, <1>2, <2>1, <2>2, LengthAssumption DEF Position
<1>4. o \in Op /\ o.op = "insert" /\ o.pos = i /\ o.value = v
  BY <1>3, IndexIs DEF Op, Insert
<1>5. InsertAt(vec, i + 1, v) = new
  <2>1. (i + 1) - 1 = i
    OBVIOUS
  <2>2. QED  BY <2>1 DEF InsertAt
<1> HIDE DEF o, new
<1>6. ApplyOp(vec, o) = InsertAt(vec, i + 1, v)
  BY <1>4 DEF ApplyOp
<1>7. QED  BY <1>1, <1>2, <1>4, <1>5, <1>6 DEF Honest

\* erase,
LEMMA EraseHonest ==
  ASSUME VecOK, NEW i \in 0 .. MaxLen, CallErase(i)
  PROVE  Honest
<1> DEFINE o == Erase(i)
           new == SubSeq(vec, 1, i) \o SubSeq(vec, i + 2, Len(vec))
<1>1. Changed(o, new) /\ i < Len(vec)
  BY DEF CallErase
<1>2. new \in Seq(Values)
  BY <1>1 DEF VecOK
<1>3. i \in Position
  BY <1>1, LengthAssumption DEF Position, VecOK
<1>4. o \in Op /\ o.op = "erase" /\ o.pos = i
  BY <1>3, IndexIs DEF Op, Erase
<1>5. RemoveAt(vec, i + 1) = new
  <2>1. (i + 1) - 1 = i /\ (i + 1) + 1 = i + 2
    OBVIOUS
  <2>2. QED  BY <2>1 DEF RemoveAt
<1> HIDE DEF o, new
<1>6. ApplyOp(vec, o) = RemoveAt(vec, i + 1)
  BY <1>4 DEF ApplyOp
<1>7. QED  BY <1>1, <1>2, <1>4, <1>5, <1>6 DEF Honest

\* mark_dirty,
LEMMA MarkDirtyHonest ==
  ASSUME VecOK, NEW i \in 0 .. MaxLen, NEW v \in Values, CallMarkDirty(i, v)
  PROVE  Honest
<1> DEFINE o == MarkDirty(i, v)
           new == [vec EXCEPT ![i + 1] = v]
<1>1. Changed(o, new) /\ i < Len(vec)
  BY DEF CallMarkDirty
<1>2. new \in Seq(Values)
  BY <1>1 DEF VecOK
<1>3. i \in Position
  BY <1>1, LengthAssumption DEF Position, VecOK
<1>4. o \in Op /\ o.op = "update" /\ o.pos = i /\ o.value = v
  BY <1>3, IndexIs DEF Op, MarkDirty
<1> HIDE DEF o
<1>5. ApplyOp(vec, o) = new
  BY <1>4 DEF ApplyOp
<1> HIDE DEF new
<1>6. QED  BY <1>1, <1>2, <1>4, <1>5 DEF Honest

\* and resize.
LEMMA ResizeHonest ==
  ASSUME VecOK, NEW n \in 0 .. MaxLen, CallResize(n)
  PROVE  Honest
<1> DEFINE o == Resize(n)
           new == [i \in 1 .. n |-> IF i \in DOMAIN vec THEN vec[i] ELSE Default]
<1>1. Changed(o, new)
  BY DEF CallResize
<1>2. /\ n \in Nat /\ new \in Seq(Values) /\ Len(new) = n
      /\ \A i \in 1 .. n : new[i] = IF i \in 1 .. Len(vec) THEN vec[i] ELSE Default
  BY DefaultAssumption DEF VecOK
<1>3. o \in Op /\ o.op = "resize" /\ o.count = n
  BY IndexIs DEF Op, Resize
<1> HIDE DEF o, new
<1>4. Resized(vec, n) = new
  <2>1. CASE n <= Len(vec)
    <3> DEFINE r == SubSeq(vec, 1, n)
    <3>1. r \in Seq(Values) /\ Len(r) = n /\ \A i \in 1 .. n : r[i] = vec[i]
      BY <1>2, <2>1 DEF VecOK
    <3>2. \A i \in 1 .. n : i \in 1 .. Len(vec)
      BY <1>2, <2>1 DEF VecOK
    <3>3. Resized(vec, n) = r
      BY <2>1 DEF Resized
    <3> HIDE DEF r
    <3>4. r = new
      BY <1>2, <3>1, <3>2, SeqEqual
    <3>5. QED  BY <3>3, <3>4
  <2>2. CASE ~(n <= Len(vec))
    <3> DEFINE m == Len(vec)
               d == [i \in 1 .. n - m |-> Default]
               r == vec \o d
    <3>1. m \in Nat /\ n - m \in Nat
      BY <1>2, <2>2 DEF VecOK
    <3>2. d \in Seq(Values) /\ Len(d) = n - m /\ \A i \in 1 .. n - m : d[i] = Default
      BY <3>1, DefaultAssumption
    <3>3. Resized(vec, n) = r
      BY <2>2 DEF Resized
    <3> HIDE DEF d
    <3>4. /\ r \in Seq(Values) /\ Len(r) = n
          /\ \A i \in 1 .. m : r[i] = vec[i]
          /\ \A i \in 1 .. n : i > m => r[i] = d[i - m]
      BY <1>2, <3>1, <3>2 DEF VecOK
    <3> HIDE DEF m, r
    <3>5. ASSUME NEW i \in 1 .. n
          PROVE  r[i] = new[i]
      <4>1. CASE i > m
        BY <1>2, <3>1, <3>2, <3>4, <4>1 DEF m
      <4>2. CASE ~(i > m)
        BY <1>2, <3>1, <3>4, <4>2 DEF m
      <4>3. QED  BY <4>1, <4>2
    <3>6. r = new
      BY <1>2, <3>4, <3>5, SeqEqual
    <3>7. QED  BY <3>3, <3>6
  <2>3. QED  BY <2>1, <2>2
<1>5. ApplyOp(vec, o) = Resized(vec, n)
  BY <1>3 DEF ApplyOp
<1>6. QED  BY <1>1, <1>2, <1>3, <1>4, <1>5 DEF Honest

-----------------------------------------------------------------------------
(* The arrays on their way *)

\* The arrays a reader that has r makes of the deltas w.
Made(r, w) == [i \in 1 .. Len(w) |-> Replay(r, FlattenSeq(SubSeq(w, 1, i)))]

AllArrays(s) == \A i \in 1 .. Len(s) : s[i] \in Seq(Values)

\* There is one for every delta.
LEMMA MadeType ==
  ASSUME NEW r, NEW w \in Seq(Seq(Op)), AllArrays(Made(r, w))
  PROVE  Made(r, w) \in Seq(Seq(Values)) /\ Len(Made(r, w)) = Len(w)
<1> DEFINE m == Made(r, w)
           n == Len(w)
<1>1. n \in Nat /\ Len(m) = n
  BY DEF Made
<1>2. m = [i \in 1 .. n |-> m[i]]
  BY DEF Made
<1>3. \A i \in 1 .. n : m[i] \in Seq(Values)
  BY <1>1 DEF AllArrays
<1> HIDE DEF m, n
<1>4. m \in [1 .. n -> Seq(Values)]
  BY <1>2, <1>3
<1>5. m \in Seq(Seq(Values))
  BY <1>1, <1>4, SeqDef
<1>6. QED  BY <1>1, <1>5 DEF m, n

\* A delta sent last makes the array of the owner, and changes none before it.
LEMMA MadeAppend ==
  ASSUME NEW r, NEW w \in Seq(Seq(Op)), NEW l \in Seq(Op), NEW v \in Seq(Values),
         AllArrays(Made(r, w)), Replay(r, FlattenSeq(w) \o l) = v
  PROVE  Made(r, Append(w, l)) = Append(Made(r, w), v) /\ AllArrays(Made(r, Append(w, l)))
<1> DEFINE m == Made(r, w)
           n == Len(w)
           x == Append(w, l)
           t == Append(m, v)
<1>1. /\ n \in Nat /\ x \in Seq(Seq(Op)) /\ Len(x) = n + 1
      /\ \A i \in 1 .. n : SubSeq(x, 1, i) = SubSeq(w, 1, i)
      /\ SubSeq(x, 1, n + 1) = x
  <2>1. n \in Nat /\ x \in Seq(Seq(Op)) /\ Len(x) = n + 1 /\ \A i \in 1 .. n : x[i] = w[i]
    OBVIOUS
  <2>2. SubSeq(x, 1, Len(x)) = x
    BY <2>1, SubSeqFull
  <2>3. ASSUME NEW i \in 1 .. n
        PROVE  SubSeq(x, 1, i) = SubSeq(w, 1, i)
    <3> DEFINE a == SubSeq(x, 1, i)
               b == SubSeq(w, 1, i)
    <3>1. a \in Seq(Seq(Op)) /\ Len(a) = i /\ \A j \in 1 .. i : a[j] = x[j]
      BY <2>1
    <3>2. b \in Seq(Seq(Op)) /\ Len(b) = i /\ \A j \in 1 .. i : b[j] = w[j]
      OBVIOUS
    <3>3. \A j \in 1 .. i : j \in 1 .. n
      BY <2>1
    <3> HIDE DEF a, b, x
    <3>4. a = b
      BY <2>1, <3>1, <3>2, <3>3, SeqEqual
    <3>5. QED  BY <3>4 DEF a, b
  <2>4. QED  BY <2>1, <2>2, <2>3
<1>2. m \in Seq(Seq(Values)) /\ Len(m) = n
  BY MadeType
<1> HIDE DEF m
<1>3. /\ t \in Seq(Seq(Values)) /\ Len(t) = n + 1 /\ t[n + 1] = v
      /\ \A i \in 1 .. n : t[i] = m[i]
  BY <1>2
<1> HIDE DEF n, x, t
<1>4. ASSUME NEW i \in 1 .. n + 1
      PROVE  Replay(r, FlattenSeq(SubSeq(x, 1, i))) = t[i]
  <2>1. CASE i = n + 1
    <3>1. FlattenSeq(x) = FlattenSeq(w) \o l
      BY FlattenAppend DEF x
    <3>2. QED  BY <1>1, <1>3, <2>1, <3>1
  <2>2. CASE i # n + 1
    <3>1. i \in 1 .. n
      BY <1>1, <2>2
    <3>2. m[i] = Replay(r, FlattenSeq(SubSeq(w, 1, i)))
      BY <3>1 DEF m, n, Made
    <3>3. QED  BY <1>1, <1>3, <3>1, <3>2
  <2>3. QED  BY <2>1, <2>2
<1>5. Made(r, x) = t
  <2>1. Made(r, x) = [i \in 1 .. n + 1 |-> Replay(r, FlattenSeq(SubSeq(x, 1, i)))]
    BY <1>1 DEF Made
  <2>2. t = [i \in 1 .. n + 1 |-> t[i]]
    BY <1>3
  <2>3. QED  BY <1>4, <2>1, <2>2
<1>6. AllArrays(t)
  BY <1>3 DEF AllArrays
<1>7. QED  BY <1>5, <1>6 DEF m, x, t

\* The first delta read, the others make what they would have made.
LEMMA MadeTail ==
  ASSUME NEW r, NEW w \in Seq(Seq(Op)), w # <<>>, AllArrays(Made(r, w))
  PROVE  /\ Made(r, w) # <<>>
         /\ Head(Made(r, w)) = Replay(r, Head(w))
         /\ Made(Replay(r, Head(w)), Tail(w)) = Tail(Made(r, w))
         /\ AllArrays(Made(Replay(r, Head(w)), Tail(w)))
<1> DEFINE m == Made(r, w)
           n == Len(w)
           x == Tail(w)
           h == Head(w)
           t == Tail(m)
<1>1. /\ n \in Nat \ {0} /\ x \in Seq(Seq(Op)) /\ Len(x) = n - 1 /\ h \in Seq(Op)
      /\ h = w[1]
  OBVIOUS
<1>2. m \in Seq(Seq(Values)) /\ Len(m) = n
  BY MadeType
<1>3. ASSUME NEW i \in 1 .. n
      PROVE  m[i] = Replay(Replay(r, h), FlattenSeq(SubSeq(x, 1, i - 1)))
  <2> DEFINE a == SubSeq(w, 1, i)
  <2>1. /\ a \in Seq(Seq(Op)) /\ a # <<>> /\ Head(a) = h /\ Tail(a) = SubSeq(x, 1, i - 1)
    <3>1. i \in Nat /\ i # 0 /\ i <= n
      BY <1>1
    <3>2. a \in Seq(Seq(Op)) /\ Len(a) = i /\ \A j \in 1 .. i : a[j] = w[j]
      BY <3>1
    <3> HIDE DEF a
    <3>3. a # <<>> /\ Head(a) = a[1]
      BY <3>1, <3>2
    <3> DEFINE b == Tail(a)
               c == SubSeq(x, 1, i - 1)
    <3>4. b \in Seq(Seq(Op)) /\ Len(b) = i - 1 /\ \A j \in 1 .. i - 1 : b[j] = a[j + 1]
      BY <3>2, <3>3, HeadTailProperties
    <3>5. \A j \in 1 .. n - 1 : x[j] = w[j + 1]
      BY <1>1
    <3> HIDE DEF n, x
    <3>6. c \in Seq(Seq(Op)) /\ Len(c) = i - 1 /\ \A j \in 1 .. i - 1 : c[j] = x[j]
      BY <1>1, <3>1
    <3>7. \A j \in 1 .. i - 1 : j \in 1 .. n - 1 /\ j + 1 \in 1 .. i
      BY <1>1, <3>1
    <3> HIDE DEF b, c
    <3>8. ASSUME NEW j \in 1 .. i - 1
          PROVE  b[j] = c[j]
      BY <3>2, <3>4, <3>5, <3>6, <3>7
    <3>9. b = c
      BY <3>4, <3>6, <3>8, SeqEqual
    <3>10. a[1] = w[1]
      BY <3>1, <3>2
    <3>11. QED  BY <1>1, <3>2, <3>3, <3>9, <3>10 DEF b, c
  <2>2. m[i] = Replay(r, FlattenSeq(a))
    BY DEF Made
  <2> HIDE DEF a, m, n, x, h, t
  <2>3. PICK k : k = FlattenSeq(Tail(a))
    OBVIOUS
  <2>4. k \in Seq(Op) /\ FlattenSeq(a) = h \o k
    BY <2>1, <2>3, FlattenHead
  <2>5. Replay(r, h \o k) = Replay(Replay(r, h), k)
    BY <1>1, <2>4, ReplayConcat
  <2>6. QED  BY <2>1, <2>2, <2>3, <2>4, <2>5
<1> HIDE DEF m, n, x, h
<1>4. /\ t \in Seq(Seq(Values)) /\ Len(t) = n - 1 /\ m # <<>> /\ Head(m) = m[1]
      /\ \A i \in 1 .. n - 1 : t[i] = m[i + 1]
  <2>1. m # <<>>
    BY <1>1, <1>2
  <2>2. QED  BY <1>2, <2>1, HeadTailProperties
<1> HIDE DEF t
<1>5. t = [i \in 1 .. n - 1 |-> t[i]]
  BY <1>4
<1>6. ASSUME NEW i \in 1 .. n - 1
      PROVE  Replay(Replay(r, h), FlattenSeq(SubSeq(x, 1, i))) = t[i]
  <2>1. i + 1 \in 1 .. n /\ (i + 1) - 1 = i
    BY <1>1
  <2>2. m[i + 1] = Replay(Replay(r, h), FlattenSeq(SubSeq(x, 1, (i + 1) - 1)))
    BY <1>3, <2>1
  <2>3. QED  BY <1>4, <2>1, <2>2
<1>7. Made(Replay(r, h), x) = t
  <2>1. Made(Replay(r, h), x) =
           [i \in 1 .. n - 1 |-> Replay(Replay(r, h), FlattenSeq(SubSeq(x, 1, i)))]
    BY <1>1 DEF Made
  <2>2. QED  BY <1>5, <1>6, <2>1
<1>8. m[1] = Replay(r, h)
  <2>1. 1 \in 1 .. n /\ SubSeq(x, 1, 1 - 1) = <<>>
    BY <1>1
  <2>2. m[1] = Replay(Replay(r, h), FlattenSeq(SubSeq(x, 1, 1 - 1)))
    BY <1>3, <2>1
  <2>3. QED  BY <2>1, <2>2, FlattenEmpty, ReplayEmpty
<1>9. AllArrays(t)
  BY <1>4 DEF AllArrays
<1>10. QED  BY <1>4, <1>7, <1>8, <1>9 DEF m, x, h, t

-----------------------------------------------------------------------------
(* The invariant *)

\* ReplicaCatchesUp speaks of the last array only.  Each delta on its way must make an
\* array, or the reader would have none after the next; and the log must hold operations.
ArrayInv ==
    /\ VecOK
    /\ log \in Seq(Op)
    /\ wire \in Seq(Seq(Op))
    /\ replica \in Seq(Values)
    /\ calls \in 0 .. MaxCalls
    /\ AllArrays(Arriving)
    /\ Replay(replica, FlattenSeq(wire) \o log) = vec

\* An empty array is read as itself.
LEMMA InitArrayInv ==
  ASSUME ArrayInit
  PROVE  ArrayInv
<1>1. vec = <<>> /\ log = <<>> /\ wire = <<>> /\ replica = <<>> /\ calls = 0
  BY DEF ArrayInit
<1>2. VecOK
  <2>1. vec \in Seq(Values) /\ Len(vec) = 0
    BY <1>1
  <2>2. QED  BY <2>1, LengthAssumption DEF VecOK
<1>3. log \in Seq(Op) /\ wire \in Seq(Seq(Op)) /\ replica \in Seq(Values)
  BY <1>1
<1>4. calls \in 0 .. MaxCalls
  BY <1>1, CallsAssumption
<1>5. AllArrays(Arriving)
  <2>1. Len(Arriving) = 0
    BY <1>1 DEF Arriving
  <2>2. QED  BY <2>1 DEF AllArrays
<1>6. Replay(replica, FlattenSeq(wire) \o log) = vec
  <2>1. FlattenSeq(wire) \o log = <<>>
    BY <1>1, FlattenEmpty
  <2>2. QED  BY <1>1, <2>1, ReplayEmpty
<1>7. QED  BY <1>2, <1>3, <1>4, <1>5, <1>6 DEF ArrayInv

\* A method logs one operation more, and the reader will make it too.
LEMMA HonestKeeps ==
  ASSUME ArrayInv, Honest
  PROVE  ArrayInv' /\ vec' \in Seq(Values) /\ UNCHANGED <<Arriving, replica>>
<1>1. PICK o \in Op, new \in Seq(Values) : Changed(o, new) /\ ApplyOp(vec, o) = new
  BY DEF Honest
<1>2. /\ calls < MaxCalls /\ calls' = calls + 1 /\ Len(new) <= MaxLen
      /\ vec' = new /\ log' = Append(log, o) /\ wire' = wire /\ replica' = replica
  BY <1>1 DEF Changed, Logged
<1>3. Arriving' = Arriving
  BY <1>2 DEF Arriving
<1>4. log' \in Seq(Op)
  BY <1>2 DEF ArrayInv
<1>5. calls' \in 0 .. MaxCalls
  BY <1>2, CallsAssumption DEF ArrayInv
<1>6. AllArrays(Arriving')
  BY <1>3 DEF ArrayInv
<1>7. Replay(replica', FlattenSeq(wire') \o log') = vec'
  <2>1. PICK k : k = FlattenSeq(wire)
    OBVIOUS
  <2>2. k \in Seq(Op) /\ log \in Seq(Op)
    BY <2>1, FlattenType DEF ArrayInv
  <2>3. k \o log \in Seq(Op) /\ k \o Append(log, o) = Append(k \o log, o)
    <3>1. PICK a : a = Append(log, o)
      OBVIOUS
    <3>2. a \in Seq(Op) /\ Len(a) = Len(log) + 1 /\ a[Len(log) + 1] = o
          /\ \A i \in 1 .. Len(log) : a[i] = log[i]
      BY <2>2, <3>1
    <3> DEFINE s == k \o a
               c == k \o log
               t == Append(c, o)
    <3>3. s \in Seq(Op) /\ Len(s) = Len(k) + (Len(log) + 1)
          /\ \A i \in 1 .. Len(s) : s[i] = IF i <= Len(k) THEN k[i] ELSE a[i - Len(k)]
      <4>1. PICK p, q \in Seq(Op) : p = k /\ q = a
        BY <2>2, <3>2
      <4>2. /\ p \o q \in Seq(Op) /\ Len(p \o q) = Len(p) + Len(q)
            /\ \A i \in 1 .. Len(p \o q) : (p \o q)[i] = IF i <= Len(p) THEN p[i] ELSE q[i - Len(p)]
        BY ConcatProperties
      <4>3. QED  BY <3>2, <4>1, <4>2
    <3>4. c \in Seq(Op) /\ Len(c) = Len(k) + Len(log)
          /\ \A i \in 1 .. Len(c) : c[i] = IF i <= Len(k) THEN k[i] ELSE log[i - Len(k)]
      BY <2>2
    <3> HIDE DEF s, c
    <3>5. t \in Seq(Op) /\ Len(t) = Len(c) + 1 /\ t[Len(c) + 1] = o
          /\ \A i \in 1 .. Len(c) : t[i] = c[i]
      BY <3>4
    <3> HIDE DEF t
    <3>6. Len(k) \in Nat /\ Len(log) \in Nat
      BY <2>2
    <3>7. ASSUME NEW i \in 1 .. Len(s)
          PROVE  s[i] = t[i]
      <4>1. CASE i = Len(c) + 1
        <5>1. ~(i <= Len(k)) /\ i - Len(k) = Len(log) + 1
          BY <3>4, <3>6, <4>1
        <5>2. QED  BY <3>2, <3>3, <3>5, <4>1, <5>1
      <4>2. CASE i # Len(c) + 1 /\ i <= Len(k)
        <5>1. i \in 1 .. Len(c)
          BY <3>3, <3>4, <3>6, <4>2
        <5>2. QED  BY <3>3, <3>4, <3>5, <4>2, <5>1
      <4>3. CASE i # Len(c) + 1 /\ ~(i <= Len(k))
        <5>1. i \in 1 .. Len(c) /\ i - Len(k) \in 1 .. Len(log)
          BY <3>3, <3>4, <3>6, <4>3
        <5>2. QED  BY <3>2, <3>3, <3>4, <3>5, <4>3, <5>1
      <4>4. QED  BY <4>1, <4>2, <4>3
    <3>8. Len(s) = Len(t)
      BY <3>3, <3>4, <3>5, <3>6
    <3>9. s = t
      BY <3>3, <3>5, <3>7, <3>8, SeqEqual
    <3>10. QED  BY <3>1, <3>4, <3>9 DEF s, c, t
  <2>4. Replay(replica, k \o log) = vec
    BY <2>1 DEF ArrayInv
  <2>5. PICK d : d = k \o log
    OBVIOUS
  <2>6. Replay(replica, Append(d, o)) = ApplyOp(Replay(replica, d), o)
    <3>1. d \in Seq(Op)
      BY <2>3, <2>5
    <3>2. QED  BY <3>1, ReplayAppend
  <2>7. Replay(replica, k \o Append(log, o)) = new
    BY <1>1, <2>3, <2>4, <2>5, <2>6
  <2>8. FlattenSeq(wire') \o log' = k \o Append(log, o)
    BY <1>2, <2>1
  <2>9. QED  BY <1>2, <2>7, <2>8
<1>8. ArrayInv'
  BY <1>2, <1>4, <1>5, <1>6, <1>7 DEF ArrayInv, VecOK
<1>9. QED  BY <1>2, <1>3, <1>8

\* A flush moves the log behind the deltas, where it makes the array of the owner.
LEMMA FlushKeeps ==
  ASSUME ArrayInv, Flush
  PROVE  ArrayInv' /\ Arriving' = Append(Arriving, vec) /\ UNCHANGED <<vec, replica>>
<1>1. /\ wire' = Append(wire, log) /\ log' = <<>>
      /\ vec' = vec /\ replica' = replica /\ calls' = calls
  BY DEF Flush, Flushed
<1>2. PICK w \in Seq(Seq(Op)), l \in Seq(Op), r \in Seq(Values), v \in Seq(Values) :
         w = wire /\ l = log /\ r = replica /\ v = vec
  BY DEF ArrayInv, VecOK
<1>3. Arriving = Made(r, w) /\ Arriving' = Made(r, Append(w, l))
  BY <1>1, <1>2 DEF Arriving, Made
<1>4. AllArrays(Made(r, w)) /\ Replay(r, FlattenSeq(w) \o l) = v
  BY <1>2, <1>3 DEF ArrayInv
<1>5. Made(r, Append(w, l)) = Append(Made(r, w), v) /\ AllArrays(Made(r, Append(w, l)))
  BY <1>4, MadeAppend
<1>6. FlattenSeq(wire') \o log' = FlattenSeq(w) \o l
  <2>1. FlattenSeq(Append(w, l)) = FlattenSeq(w) \o l
    BY FlattenAppend
  <2>2. PICK k : k = FlattenSeq(Append(w, l))
    OBVIOUS
  <2>3. Append(w, l) \in Seq(Seq(Op))
    OBVIOUS
  <2>4. k \in Seq(Op)
    BY <2>2, <2>3, FlattenType
  <2>5. k \o <<>> = k
    BY <2>4
  <2>6. QED  BY <1>1, <1>2, <2>1, <2>2, <2>5
<1>7. Replay(replica', FlattenSeq(wire') \o log') = vec'
  BY <1>1, <1>2, <1>4, <1>6
<1>8. log' \in Seq(Op) /\ wire' \in Seq(Seq(Op))
  BY <1>1, <1>2
<1>9. AllArrays(Arriving')
  BY <1>3, <1>5
<1>10. ArrayInv'
  BY <1>1, <1>7, <1>8, <1>9 DEF ArrayInv, VecOK
<1>11. QED  BY <1>1, <1>2, <1>3, <1>5, <1>10

\* A reader that reads the first delta has the first of the arrays on their way.
LEMMA DeliverKeeps ==
  ASSUME ArrayInv, ReadDelta
  PROVE  /\ ArrayInv' /\ Arriving # <<>>
         /\ replica' = Head(Arriving) /\ Arriving' = Tail(Arriving) /\ vec' = vec
<1>1. /\ wire # <<>> /\ wire' = Tail(wire) /\ replica' = Replay(replica, Head(wire))
      /\ vec' = vec /\ log' = log /\ calls' = calls
  BY DEF ReadDelta
<1>2. PICK w \in Seq(Seq(Op)), l \in Seq(Op), r \in Seq(Values), v \in Seq(Values) :
         w = wire /\ l = log /\ r = replica /\ v = vec
  BY DEF ArrayInv, VecOK
<1>3. PICK q : q = Replay(r, Head(w))
  OBVIOUS
<1>4. w # <<>> /\ Arriving = Made(r, w) /\ Arriving' = Made(q, Tail(w))
  BY <1>1, <1>2, <1>3 DEF Arriving, Made
<1>5. AllArrays(Made(r, w)) /\ Replay(r, FlattenSeq(w) \o l) = v
  BY <1>2, <1>4 DEF ArrayInv
<1>6. /\ Made(r, w) # <<>> /\ Head(Made(r, w)) = q
      /\ Made(q, Tail(w)) = Tail(Made(r, w)) /\ AllArrays(Made(q, Tail(w)))
  BY <1>3, <1>4, <1>5, MadeTail
<1>7. q \in Seq(Values)
  <2>1. Made(r, w) \in Seq(Seq(Values))
    BY <1>5, MadeType
  <2>2. Head(Made(r, w)) \in Seq(Values)
    BY <1>6, <2>1, HeadTailProperties
  <2>3. QED  BY <1>6, <2>2
<1>8. Replay(q, FlattenSeq(Tail(w)) \o l) = v
  <2>1. PICK k : k = FlattenSeq(Tail(w))
    OBVIOUS
  <2>2. PICK h : h = Head(w)
    OBVIOUS
  <2>3. k \in Seq(Op) /\ FlattenSeq(w) = h \o k /\ h \in Seq(Op)
    <3>1. w # <<>>
      BY <1>4
    <3>2. FlattenSeq(Tail(w)) \in Seq(Op) /\ FlattenSeq(w) = Head(w) \o FlattenSeq(Tail(w))
      BY <3>1, FlattenHead
    <3>3. Head(w) \in Seq(Op)
      BY <3>1
    <3>4. QED  BY <2>1, <2>2, <3>2, <3>3
  <2>4. Concat(Concat(h, k), l) = Concat(h, Concat(k, l))
    BY <2>3, Associative
  <2>5. PICK m : m = k \o l
    OBVIOUS
  <2>6. m \in Seq(Op) /\ FlattenSeq(w) \o l = h \o m
    BY <2>3, <2>4, <2>5 DEF Concat
  <2>7. Replay(r, h \o m) = Replay(Replay(r, h), m)
    BY <2>3, <2>6, ReplayConcat
  <2>8. QED  BY <1>3, <1>5, <2>1, <2>2, <2>5, <2>6, <2>7
<1>9. replica' = q /\ wire' = Tail(w) /\ Tail(w) \in Seq(Seq(Op))
  BY <1>1, <1>2, <1>3, <1>4
<1>10. Replay(replica', FlattenSeq(wire') \o log') = vec'
  BY <1>1, <1>2, <1>8, <1>9
<1>11. AllArrays(Arriving')
  BY <1>4, <1>6
<1>12. ArrayInv'
  BY <1>1, <1>7, <1>9, <1>10, <1>11 DEF ArrayInv, VecOK
<1>13. QED  BY <1>1, <1>4, <1>6, <1>9, <1>12

\* Every method of the array logs what it did.
LEMMA CallsHonest ==
  ASSUME ArrayInv,
         \/ \E v \in Values : CallPushBack(v)
         \/ CallPopBack
         \/ \E i \in 0 .. MaxLen, v \in Values : CallInsert(i, v) \/ CallMarkDirty(i, v)
         \/ \E i \in 0 .. MaxLen : CallErase(i) \/ CallResize(i)
  PROVE  Honest
<1>1. VecOK
  BY DEF ArrayInv
<1>2. CASE \E v \in Values : CallPushBack(v)
  BY <1>1, <1>2, PushBackHonest
<1>3. CASE CallPopBack
  BY <1>1, <1>3, PopBackHonest
<1>4. CASE \E i \in 0 .. MaxLen, v \in Values : CallInsert(i, v) \/ CallMarkDirty(i, v)
  BY <1>1, <1>4, InsertHonest, MarkDirtyHonest
<1>5. CASE \E i \in 0 .. MaxLen : CallErase(i) \/ CallResize(i)
  BY <1>1, <1>5, EraseHonest, ResizeHonest
<1>6. QED  BY <1>2, <1>3, <1>4, <1>5

\* Every step keeps the invariant and is one of the sender and the reader of arrays.
LEMMA StepKeeps ==
  ASSUME ArrayInv, [ArrayNext]_arrayVars
  PROVE  /\ ArrayInv'
         /\ [Whole!Change \/ Whole!Send \/ Whole!Receive]_(Whole!mirrorVars)
<1>1. CASE Honest
  BY <1>1, HonestKeeps DEF Whole!Change
<1>2. CASE Flush
  BY <1>2, FlushKeeps DEF Whole!Send
<1>3. CASE ReadDelta
  BY <1>3, DeliverKeeps DEF Whole!Receive
<1>4. CASE UNCHANGED arrayVars
  <2>1. vec' = vec /\ log' = log /\ wire' = wire /\ replica' = replica /\ calls' = calls
    BY <1>4 DEF arrayVars
  <2>2. Arriving' = Arriving
    BY <2>1 DEF Arriving
  <2>3. ArrayInv'
    BY <2>1, <2>2 DEF ArrayInv, VecOK
  <2>4. QED  BY <2>1, <2>2, <2>3 DEF Whole!mirrorVars
<1>5. \/ Honest \/ Flush \/ ReadDelta \/ UNCHANGED arrayVars
  BY CallsHonest DEF ArrayNext, Finished
<1>6. QED  BY <1>1, <1>2, <1>3, <1>4, <1>5

\* The invariant holds in every state: whatever the methods do and however the deltas are
\* delayed, each of them makes an array, and the last one with the log that of the owner.
THEOREM ArrayAlwaysRight == ArraySpec => []ArrayInv
<1>1. ArrayInit => ArrayInv
  BY InitArrayInv
<1>2. ArrayInv /\ [ArrayNext]_arrayVars => ArrayInv'
  BY StepKeeps
<1>3. QED  BY <1>1, <1>2, PTL DEF ArraySpec

\* What the invariant says of the positions in the log.
LEMMA ArrayInvCatchesUp ==
  ASSUME ArrayInv
  PROVE  ReplicaCatchesUp
<1>1. ASSUME NEW i \in DOMAIN log, "pos" \in DOMAIN log[i]
      PROVE  log[i].pos < MaxLen
  <2>1. log[i] \in Op
    BY DEF ArrayInv
  <2>2. PICK o : o = log[i]
    OBVIOUS
  <2>3. CASE o \in [op : {"push_back"}, value : Values]
    BY <1>1, <2>2, <2>3
  <2>4. CASE o \in [op : {"pop_back"}]
    BY <1>1, <2>2, <2>4
  <2>5. CASE o \in [op : {"insert"}, pos : Position, value : Values]
    BY <2>2, <2>5 DEF Position
  <2>6. CASE o \in [op : {"erase"}, pos : Position]
    BY <2>2, <2>6 DEF Position
  <2>7. CASE o \in [op : {"resize"}, count : 0 .. MaxLen]
    BY <1>1, <2>2, <2>7
  <2>8. CASE o \in [op : {"update"}, pos : Position, value : Values]
    BY <2>2, <2>8 DEF Position
  <2>9. QED  BY <2>1, <2>2, <2>3, <2>4, <2>5, <2>6, <2>7, <2>8 DEF Op
<1>2. QED  BY <1>1 DEF ArrayInv, VecOK, ReplicaCatchesUp, TypeOK

\* A reader that reads the deltas on their way and the log not yet sent has the array of
\* the owner, for every sequence of calls, flushes and deliveries.
THEOREM ReplicaAlwaysCatchesUp == ArraySpec => []ReplicaCatchesUp
<1>1. ArrayInv => ReplicaCatchesUp
  BY ArrayInvCatchesUp
<1>2. QED  BY <1>1, ArrayAlwaysRight, PTL

\* Sending deltas implements sending whole arrays: the reader's array is always one the
\* owner had when it flushed, in the same order.
THEOREM DeltasKeepMirror == ArraySpec => KeepsMirror
<1>1. ArrayInit => Whole!Init
  <2>1. ASSUME ArrayInit
        PROVE  Whole!Init
    <3>1. Arriving = <<>>
      BY <2>1 DEF ArrayInit, Arriving
    <3>2. vec \in Seq(Values) /\ replica = vec
      BY <2>1 DEF ArrayInit
    <3>3. QED  BY <3>1, <3>2 DEF Whole!Init
  <2>2. QED  BY <2>1
<1>2. /\ ArrayInv /\ [ArrayNext]_arrayVars
      => [Whole!Change \/ Whole!Send \/ Whole!Receive]_(Whole!mirrorVars)
  BY StepKeeps
<1>3. QED  BY <1>1, <1>2, ArrayAlwaysRight, PTL DEF ArraySpec, KeepsMirror, Whole!Spec

-----------------------------------------------------------------------------
(* PropertySync *)

\* Absentees see nobody, and their clients are shown nobody.
AbsenteesBlind == \A p \in Players \ present : sees[p] = {} /\ shown[p] = {}

\* The types of the sight and of the clients' attributes, StaleIsFlagged and what makes
\* it inductive: a player that enters has a client that shows nobody.
StaleInv ==
    /\ present \subseteq Eids
    /\ sees \in [Eids -> SUBSET Eids]
    /\ shown \in [Players -> SUBSET Eids]
    /\ own \in [Players -> [Fields -> Nat \cup {-1}]]
    /\ others \in [Players -> [Eids -> [Fields -> Nat \cup {-1}]]]
    /\ AbsenteesBlind
    /\ StaleIsFlagged

\* A delta leaves a client with attributes.
LEMMA AfterDeltaType ==
  ASSUME attrs \in [Eids -> [Fields -> Nat]], NEW e \in Eids, NEW fs,
         NEW known \in [Fields -> Nat \cup {-1}]
  PROVE  AfterDelta(known, fs, e) \in [Fields -> Nat \cup {-1}]
  BY DEF AfterDelta

\* A client whose errors are flagged has none after the delta.
LEMMA AfterDeltaRight ==
  ASSUME attrs \in [Eids -> [Fields -> Nat]], NEW e \in Eids, NEW fs,
         NEW known, \A f \in Fields : known[f] # attrs[e][f] => f \in fs
  PROVE  AfterDelta(known, fs, e) = attrs[e]
<1>1. AfterDelta(known, fs, e) = [f \in Fields |-> attrs[e][f]]
  BY DEF AfterDelta
<1>2. QED  BY <1>1

\* What is seen is received right, whether it has just entered, is sent again or is
\* known from before.
LEMMA SeenRight ==
  ASSUME StaleInv, NEW p \in Players \cap present, NEW e \in sees[p], NEW resent
  PROVE  Seen(p, e, resent) = attrs[e]
<1>1. e \in Eids /\ attrs \in [Eids -> [Fields -> Nat]] /\ p \in Eids
  BY PlayersAreEids DEF StaleInv, StaleIsFlagged, PropertyTypeOK
<1>2. AfterDelta(attrs[e], flags[e], e) = attrs[e]
  BY <1>1, AfterDeltaRight
<1>3. CASE e \in shown[p]
  <2>1. AfterDelta(others[p][e], flags[e], e) = attrs[e]
    BY <1>1, <1>3, AfterDeltaRight DEF StaleInv, StaleIsFlagged
  <2>2. QED  BY <2>1, <1>2 DEF Seen
<1>4. CASE e \notin shown[p]
  BY <1>2, <1>4 DEF Seen
<1>5. QED  BY <1>3, <1>4

\* An update leaves the clients as it should.
LEMMA UpdateRight ==
  ASSUME StaleInv, Update
  PROVE  \A p \in Players \cap present :
            /\ own'[p] = attrs[p]
            /\ \A e \in sees[p] : others'[p][e] = attrs[e]
<1> SUFFICES ASSUME NEW p \in Players \cap present
             PROVE  own'[p] = attrs[p] /\ \A e \in sees[p] : others'[p][e] = attrs[e]
  OBVIOUS
<1>1. p \in Eids /\ attrs \in [Eids -> [Fields -> Nat]]
  BY PlayersAreEids DEF StaleInv, StaleIsFlagged, PropertyTypeOK
<1>2. own'[p] = AfterDelta(own[p], flags[p], p)
  BY DEF Update
<1>3. own'[p] = attrs[p]
  BY <1>1, <1>2, AfterDeltaRight DEF StaleInv, StaleIsFlagged
<1>4. PICK resent \in [Players -> SUBSET Eids] :
         others' = [q \in Players |-> [e \in Eids |->
                      IF e \in sees[q] THEN Seen(q, e, resent[q]) ELSE Nothing]]
  BY DEF Update
<1>5. ASSUME NEW e \in sees[p]
      PROVE  others'[p][e] = attrs[e]
  <2>1. e \in Eids
    BY <1>1, <1>5 DEF StaleInv
  <2>2. others'[p][e] = Seen(p, e, resent[p])
    BY <1>4, <2>1, <1>5
  <2>3. QED  BY <2>2, <1>5, SeenRight
<1>6. QED  BY <1>3, <1>5
-----------------------------------------------------------------------------
(* The invariant is inductive *)

\* At first nobody is shown.
LEMMA InitStaleInv == PropertyInit => StaleInv
<1> SUFFICES ASSUME PropertyInit PROVE StaleInv
  OBVIOUS
<1> USE Attributes, PlayersAreEids DEF PropertyInit, Init, Nothing, NewAttrs, Fields
<1>1. AbsenteesBlind
  BY DEF AbsenteesBlind
<1>2. PropertyTypeOK
  BY DEF PropertyTypeOK
<1>3. StaleIsFlagged
  BY <1>2 DEF StaleIsFlagged
<1>4. QED  BY <1>1, <1>3 DEF StaleInv

\* A newcomer's client has the attributes of its player and shows nobody; a player that
\* joins again is only sent its own.
LEMMA JoinStaleInv ==
  ASSUME StaleInv, NEW e \in Eids, Join(e)
  PROVE  StaleInv'
<1> USE DEF StaleInv
<1>1. present' = present \cup {e} /\ UNCHANGED <<sees, shown, serverVars, others>>
  BY DEF Join, Enter, FullInfo, sightVars, serverVars, clientVars
<1>2. attrs' = attrs /\ flags' = flags
  BY <1>1 DEF serverVars
<1>3. attrs \in [Eids -> [Fields -> Nat]] /\ flags \in [Eids -> SUBSET Fields]
  BY DEF StaleIsFlagged, PropertyTypeOK
<1>4. \/ e \in Players /\ own' = [own EXCEPT ![e] = attrs[e]]
      \/ e \notin Players /\ own' = own
  BY DEF Join, FullInfo, clientVars
<1>5. own' \in [Players -> [Fields -> Nat \cup {-1}]]
  <2>1. attrs[e] \in [Fields -> Nat \cup {-1}]
    BY <1>3
  <2>2. QED  BY <1>4, <2>1
<1>6. AbsenteesBlind'
  BY <1>1 DEF AbsenteesBlind
<1>7. PropertyTypeOK'
  BY <1>1, <1>2, <1>3, <1>5 DEF PropertyTypeOK
<1>8. ASSUME NEW p \in Players \cap present', NEW f \in Fields
      PROVE  /\ own'[p][f] # attrs'[p][f] => f \in flags'[p]
             /\ \A x \in shown'[p] : others'[p][x][f] # attrs'[x][f] => f \in flags'[x]
  <2>1. CASE p \in present
    BY <1>1, <1>2, <1>4, <2>1 DEF StaleIsFlagged
  <2>2. CASE p \notin present
    <3>1. p = e /\ shown'[p] = {}
      BY <1>1, <2>2 DEF AbsenteesBlind
    <3>2. QED  BY <1>2, <1>4, <3>1
  <2>3. QED  BY <2>1, <2>2
<1>9. QED  BY <1>1, <1>5, <1>6, <1>7, <1>8 DEF StaleIsFlagged

\* Whoever leaves is shown to nobody and shows nobody.
LEMMA LeaveStaleInv ==
  ASSUME StaleInv, NEW e \in Eids, LeaveForGood(e)
  PROVE  StaleInv'
<1> USE DEF StaleInv
<1>1. /\ present' = present \ {e}
      /\ sees' = [a \in Eids |-> IF a = e THEN {} ELSE sees[a] \ {e}]
      /\ shown' = [p \in Players |-> IF p = e THEN {} ELSE shown[p] \ {e}]
      /\ UNCHANGED <<attrs, flags, own, others>>
  BY DEF LeaveForGood, Leave, serverVars, clientVars
<1>2. /\ present' \subseteq Eids
      /\ sees' \in [Eids -> SUBSET Eids]
      /\ shown' \in [Players -> SUBSET Eids]
  BY <1>1
<1>3. AbsenteesBlind'
  BY <1>1, PlayersAreEids DEF AbsenteesBlind
<1>4. PropertyTypeOK'
  BY <1>1 DEF StaleIsFlagged, PropertyTypeOK
<1>5. StaleIsFlagged'
  BY <1>1, <1>4 DEF StaleIsFlagged
<1>6. QED  BY <1>1, <1>2, <1>3, <1>5

\* A setter flags what it changes.
LEMMA SetterStaleInv ==
  ASSUME StaleInv, NEW e \in Eids, NEW field \in Fields, NEW v \in Nat,
         attrs' = [attrs EXCEPT ![e][field] = v],
         flags' = [flags EXCEPT ![e] = Flagged(@, field)],
         UNCHANGED <<sightVars, own, others>>
  PROVE  StaleInv'
<1> USE DEF StaleInv
<1>1. attrs \in [Eids -> [Fields -> Nat]] /\ flags \in [Eids -> SUBSET Fields]
  BY DEF StaleIsFlagged, PropertyTypeOK
<1>2. attrs' \in [Eids -> [Fields -> Nat]] /\ flags' \in [Eids -> SUBSET Fields]
  BY <1>1 DEF Flagged
<1>3. UNCHANGED <<present, sees, shown, own, others>>
  BY DEF sightVars
<1>4. AbsenteesBlind'
  BY <1>3 DEF AbsenteesBlind
<1>5. PropertyTypeOK'
  BY <1>2, <1>3 DEF PropertyTypeOK
<1>6. ASSUME NEW x \in Eids, NEW f \in Fields, NEW known,
             known # attrs[x][f] => f \in flags[x]
      PROVE  known # attrs'[x][f] => f \in flags'[x]
  <2>1. CASE x = e /\ f = field
    BY <1>1, <2>1 DEF Flagged
  <2>2. CASE ~(x = e /\ f = field)
    BY <1>1, <1>6, <2>2 DEF Flagged
  <2>3. QED  BY <2>1, <2>2
<1>7. ASSUME NEW p \in Players \cap present, NEW f \in Fields
      PROVE  /\ own[p][f] # attrs'[p][f] => f \in flags'[p]
             /\ \A x \in shown[p] : others[p][x][f] # attrs'[x][f] => f \in flags'[x]
  <2>1. own[p][f] # attrs'[p][f] => f \in flags'[p]
    BY <1>6, PlayersAreEids DEF StaleIsFlagged
  <2>2. ASSUME NEW x \in shown[p]
        PROVE  others[p][x][f] # attrs'[x][f] => f \in flags'[x]
    <3>1. x \in Eids
      BY <1>7
    <3>2. QED  BY <1>6, <3>1 DEF StaleIsFlagged
  <2>3. QED  BY <2>1, <2>2
<1>8. StaleIsFlagged'
  BY <1>3, <1>5, <1>7 DEF StaleIsFlagged
<1>9. QED  BY <1>3, <1>4, <1>8

\* A hit flags the attributes it changes.
LEMMA HurtStaleInv ==
  ASSUME StaleInv, NEW e \in Eids, Hurt(e)
  PROVE  StaleInv'
<1>1. attrs[e].health \in Nat
  BY DEF StaleInv, StaleIsFlagged, PropertyTypeOK, Fields
<1>2. Damaged(attrs[e].health) \in Nat
  BY <1>1 DEF Damaged
<1>3. attrs' = [attrs EXCEPT ![e]["health"] = Damaged(attrs[e].health)]
  BY DEF Hurt, StaleInv, StaleIsFlagged, PropertyTypeOK
<1>4. "health" \in Fields
  BY DEF Fields
<1>5. flags' = [flags EXCEPT ![e] = Flagged(@, "health")] /\ UNCHANGED <<sightVars, own, others>>
  BY DEF Hurt, clientVars
<1>6. QED  BY <1>2, <1>3, <1>4, <1>5, SetterStaleInv

\* A cast flags the skill whose time it changes.
LEMMA CastStaleInv ==
  ASSUME StaleInv, NEW e \in Eids, NEW time \in Times, Cast(e, time)
  PROVE  StaleInv'
<1>1. attrs[e].mana \in Nat
  BY DEF StaleInv, StaleIsFlagged, PropertyTypeOK, Fields
<1>2. attrs[e].mana - SkillCost \in Nat
  BY <1>1, Attributes DEF Cast
<1>3. attrs' = [attrs EXCEPT ![e]["mana"] = attrs[e].mana - SkillCost]
  BY DEF Cast, StaleInv, StaleIsFlagged, PropertyTypeOK
<1>4. "mana" \in Fields
  BY DEF Fields
<1>5. flags' = [flags EXCEPT ![e] = Flagged(@, "mana")] /\ UNCHANGED <<sightVars, own, others>>
  BY DEF Cast, clientVars
<1>6. QED  BY <1>2, <1>3, <1>4, <1>5, SetterStaleInv

\* An update leaves nothing wrong where it sends.
LEMMA UpdateStaleInv ==
  ASSUME StaleInv, Update
  PROVE  StaleInv'
<1> USE DEF StaleInv
<1>1. /\ UNCHANGED <<present, sees, attrs, flags>>
      /\ shown' = [p \in Players |-> sees[p]]
  BY DEF Update, Deliver, serverVars
<1>2. attrs \in [Eids -> [Fields -> Nat]] /\ flags \in [Eids -> SUBSET Fields]
  BY DEF StaleIsFlagged, PropertyTypeOK
<1>3. shown' \in [Players -> SUBSET Eids]
  BY <1>1, PlayersAreEids
<1>4. own' \in [Players -> [Fields -> Nat \cup {-1}]]
  BY <1>2, AfterDeltaType, PlayersAreEids DEF Update
<1>5. PICK resent \in [Players -> SUBSET Eids] :
         others' = [q \in Players |-> [e \in Eids |->
                      IF e \in sees[q] THEN Seen(q, e, resent[q]) ELSE Nothing]]
  BY DEF Update
<1>6. ASSUME NEW q \in Players, NEW e \in Eids
      PROVE  Seen(q, e, resent[q]) \in [Fields -> Nat \cup {-1}]
  <2>1. attrs[e] \in [Fields -> Nat \cup {-1}] /\ others[q][e] \in [Fields -> Nat \cup {-1}]
    BY <1>2
  <2>2. QED  BY <1>2, <2>1, AfterDeltaType DEF Seen
<1>7. Nothing \in [Fields -> Nat \cup {-1}]
  BY DEF Nothing
<1>8. others' \in [Players -> [Eids -> [Fields -> Nat \cup {-1}]]]
  BY <1>5, <1>6, <1>7
<1>9. AbsenteesBlind'
  BY <1>1 DEF AbsenteesBlind
<1>10. PropertyTypeOK'
  BY <1>1, <1>2, <1>4, <1>8 DEF PropertyTypeOK
<1>11. StaleIsFlagged'
  BY <1>1, <1>10, UpdateRight DEF StaleIsFlagged
<1>12. QED  BY <1>1, <1>3, <1>4, <1>8, <1>9, <1>11

\* Who sees whom may change at any time; absentees see nobody.
LEMMA SightStaleInv ==
  ASSUME StaleInv, SightChanges
  PROVE  StaleInv'
<1> USE DEF StaleInv
<1>1. /\ UNCHANGED <<present, shown, attrs, flags, own, others>>
      /\ sees' \in [Eids -> SUBSET present]
      /\ \A a \in Eids : a \notin present => sees'[a] = {}
  BY DEF SightChanges, Refresh, serverVars, clientVars
<1>2. AbsenteesBlind'
  BY <1>1, PlayersAreEids DEF AbsenteesBlind
<1>3. PropertyTypeOK' /\ StaleIsFlagged'
  BY <1>1 DEF StaleIsFlagged, PropertyTypeOK
<1>4. sees' \in [Eids -> SUBSET Eids]
  BY <1>1
<1>5. QED  BY <1>1, <1>2, <1>3, <1>4

\* Every step.
LEMMA StepStaleInv == StaleInv /\ [PropertyNext]_vars => StaleInv'
<1> SUFFICES ASSUME StaleInv, [PropertyNext]_vars PROVE StaleInv'
  OBVIOUS
<1>1. CASE UNCHANGED vars
  BY <1>1 DEF vars, sightVars, serverVars, clientVars, StaleInv, AbsenteesBlind,
              StaleIsFlagged, PropertyTypeOK
<1>2. ASSUME NEW e \in Eids, Join(e) \/ LeaveForGood(e) \/ Hurt(e)
      PROVE  StaleInv'
  BY <1>2, JoinStaleInv, LeaveStaleInv, HurtStaleInv
<1>3. ASSUME NEW e \in Eids, NEW time \in Times, Cast(e, time)
      PROVE  StaleInv'
  BY <1>3, CastStaleInv
<1>4. CASE SightChanges
  BY <1>4, SightStaleInv
<1>5. CASE Update
  BY <1>5, UpdateStaleInv
<1>6. QED  BY <1>1, <1>2, <1>3, <1>4, <1>5 DEF PropertyNext

\* What is wrong at a client is flagged.
LEMMA StaleInvCorrect == PropertySpec => []StaleInv
<1>1. QED  BY InitStaleInv, StepStaleInv, PTL DEF PropertySpec

-----------------------------------------------------------------------------
(* The theorems *)

\* Whatever a client has wrong of its player or of an entity it shows is flagged on the
\* server, so the next delta puts it right.
THEOREM StaleAlwaysFlagged == PropertySpec => []StaleIsFlagged
<1>1. StaleInv => StaleIsFlagged
  BY DEF StaleInv
<1>2. QED  BY <1>1, StaleInvCorrect, PTL

\* An update leaves every client with the very attributes of its player and of all its
\* player sees.
THEOREM UpdateAlwaysRight == PropertySpec => UpdateBringsUpToDate
<1>1. StaleInv /\ [PropertyNext]_vars
        => [Update => \A p \in Players \cap present :
                         /\ own'[p] = attrs[p]
                         /\ \A e \in sees[p] : others'[p][e] = attrs[e]]_vars
  BY UpdateRight
<1>2. QED  BY <1>1, StaleInvCorrect, PTL DEF PropertySpec, UpdateBringsUpToDate
=============================================================================
