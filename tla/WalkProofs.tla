----------------------------- MODULE WalkProofs -----------------------------
(* Proofs about Walk, for all paths, speeds, intervals and bounds. *)
EXTENDS Walk, DataLemmas, FiniteSetTheorems

-----------------------------------------------------------------------------
(* Along a path *)

\* The distance of two points is a number, not below zero.
LEMMA DistType ==
  ASSUME NEW a \in Point, NEW b \in Point
  PROVE  Dist(a, b) \in Nat
<1>1. ASSUME NEW x \in Int, NEW y \in Int
      PROVE  (IF x < y THEN y - x ELSE x - y) \in Nat
  OBVIOUS
<1>2. \A k \in 1 .. 3 : a[k] \in Int /\ b[k] \in Int
  BY DEF Point
<1>3. \A k \in 1 .. 3 : (IF a[k] < b[k] THEN b[k] - a[k] ELSE a[k] - b[k]) \in Nat
  BY <1>1, <1>2
<1>4. QED  BY <1>3 DEF Dist

\* The ms of a leg.
LEMMA LegType ==
  ASSUME NEW path \in Seq(Point), NEW i \in 1 .. Len(path) - 1
  PROVE  Leg(path, i) \in Nat
<1>1. path[i] \in Point /\ path[i + 1] \in Point
  BY ElementOfSeq
<1>2. Dist(path[i], path[i + 1]) \in Nat
  BY <1>1, DistType
<1>3. QED  BY <1>2, WalkAssumption DEF Leg

\* A place on a leg is a point.
LEMMA LerpType ==
  ASSUME NEW a \in Point, NEW b \in Point, NEW n \in Nat, NEW d \in Nat \ {0}
  PROVE  Lerp(a, b, n, d) \in Point
<1>1. ASSUME NEW k \in 1 .. 3
      PROVE  a[k] + (2 * n * (b[k] - a[k]) + d) \div (2 * d) \in Int
  <2> DEFINE x == 2 * n * (b[k] - a[k]) + d
  <2>1. a[k] \in Int /\ b[k] \in Int
    BY DEF Point
  <2>2. x \in Int /\ 2 * d \in Nat \ {0}
    BY <2>1
  <2> HIDE DEF x
  <2>3. x \div (2 * d) \in Int
    BY <2>2, Quotient
  <2>4. a[k] + x \div (2 * d) \in Int
    BY <2>1, <2>3
  <2>5. QED  BY <2>4 DEF x
<1>2. QED  BY <1>1 DEF Lerp, Point

\* The times of the corners, the first n of them.
AreTimes(t, path, n) == t = [i \in 1 .. n |-> IF i = 1 THEN 0 ELSE t[i - 1] + Leg(path, i - 1)]

\* The times of any path can be computed ...
LEMMA TimesExist ==
  ASSUME NEW path, NEW n \in Nat
  PROVE  \E t : AreTimes(t, path, n)
<1> DEFINE S == {m \in Nat : \E t : AreTimes(t, path, m)}
<1>1. 0 \in S
  <2>1. AreTimes([i \in 1 .. 0 |-> 0], path, 0)
    BY DEF AreTimes
  <2>2. QED  BY <2>1
<1>2. ASSUME NEW m \in Nat, m \in S
      PROVE  m + 1 \in S
  <2>1. PICK t : AreTimes(t, path, m)
    BY <1>2
  <2>2. t = [i \in 1 .. m |-> IF i = 1 THEN 0 ELSE t[i - 1] + Leg(path, i - 1)]
    BY <2>1 DEF AreTimes
  <2> DEFINE u == [i \in 1 .. m + 1 |-> IF i = 1 THEN 0 ELSE t[i - 1] + Leg(path, i - 1)]
  <2>3. ASSUME NEW i \in 1 .. m + 1
        PROVE  u[i] = IF i = 1 THEN 0 ELSE u[i - 1] + Leg(path, i - 1)
    <3>1. CASE i = 1
      BY <3>1
    <3>2. CASE i # 1
      <4>1. i - 1 \in 1 .. m /\ i - 1 \in 1 .. m + 1
        BY <3>2
      <4>2. u[i - 1] = t[i - 1]
        BY <2>2, <4>1
      <4>3. QED  BY <3>2, <4>2
    <3>3. QED  BY <3>1, <3>2
  <2>4. AreTimes(u, path, m + 1)
    <3>1. u = [i \in 1 .. m + 1 |-> u[i]]
      OBVIOUS
    <3> HIDE DEF u
    <3>2. QED  BY <2>3, <3>1 DEF AreTimes
  <2>5. QED  BY <2>4
<1>3. Nat \subseteq S
  <2> HIDE DEF S
  <2>1. QED  BY <1>1, <1>2, Induction
<1>4. QED  BY <1>3

\* ... from one corner to the next ...
LEMMA TimesRun ==
  ASSUME NEW path, Len(path) \in Nat \ {0}
  PROVE  /\ Times(path)[1] = 0
         /\ \A i \in 1 .. Len(path) - 1 : Times(path)[i + 1] = Times(path)[i] + Leg(path, i)
<1> DEFINE n == Len(path)
           h == CHOOSE t : AreTimes(t, path, n)
<1>1. AreTimes(h, path, n)
  BY TimesExist
<1>2. Times(path) = h
  BY DEF Times, AreTimes
<1>3. h = [i \in 1 .. n |-> IF i = 1 THEN 0 ELSE h[i - 1] + Leg(path, i - 1)]
  BY <1>1 DEF AreTimes
<1> HIDE DEF h
<1>4. h[1] = 0
  BY <1>3
<1>5. ASSUME NEW i \in 1 .. n - 1
      PROVE  h[i + 1] = h[i] + Leg(path, i)
  <2>1. i + 1 \in 1 .. n /\ i + 1 # 1 /\ (i + 1) - 1 = i
    OBVIOUS
  <2>2. h[i + 1] = h[(i + 1) - 1] + Leg(path, (i + 1) - 1)
    BY <1>3, <2>1
  <2>3. QED  BY <2>1, <2>2
<1>6. QED  BY <1>2, <1>4, <1>5

\* ... and only go up.
LEMMA TimesGrow ==
  ASSUME NEW path \in Seq(Point), path # << >>
  PROVE  /\ \A i \in 1 .. Len(path) : Times(path)[i] \in Nat
         /\ \A i, j \in 1 .. Len(path) : i <= j => Times(path)[i] <= Times(path)[j]
<1> DEFINE n == Len(path)
           t == Times(path)
           S == {m \in Nat : m \in 1 .. n => /\ t[m] \in Nat
                                             /\ \A i \in 1 .. m : t[i] \in Nat /\ t[i] <= t[m]}
<1>1. n \in Nat \ {0} /\ Len(path) = n
  BY EmptySeq
<1>2. t[1] = 0 /\ \A i \in 1 .. n - 1 : t[i + 1] = t[i] + Leg(path, i)
  BY <1>1, TimesRun
<1>3. \A i \in 1 .. n - 1 : Leg(path, i) \in Nat
  BY LegType
<1> HIDE DEF t, n
<1>4. 0 \in S
  OBVIOUS
<1>5. ASSUME NEW m \in Nat, m \in S
      PROVE  m + 1 \in S
  <2>1. CASE m = 0
    BY <1>2, <2>1
  <2>2. CASE m # 0 /\ m + 1 \in 1 .. n
    <3>1. m \in 1 .. n - 1 /\ m \in 1 .. n
      BY <1>1, <2>2
    <3>2. t[m] \in Nat /\ (\A i \in 1 .. m : t[i] \in Nat /\ t[i] <= t[m])
      BY <1>5, <3>1
    <3>3. t[m + 1] \in Nat /\ t[m] <= t[m + 1]
      BY <1>2, <1>3, <3>1, <3>2
    <3>4. ASSUME NEW i \in 1 .. m + 1
          PROVE  t[i] \in Nat /\ t[i] <= t[m + 1]
      BY <3>2, <3>3
    <3>5. QED  BY <3>3, <3>4
  <2>3. CASE ~(m + 1 \in 1 .. n)
    BY <2>3
  <2>4. QED  BY <2>1, <2>2, <2>3
<1>6. Nat \subseteq S
  <2> HIDE DEF S
  <2>1. QED  BY <1>4, <1>5, Induction
<1>7. ASSUME NEW j \in 1 .. n
      PROVE  t[j] \in Nat /\ \A i \in 1 .. n : i <= j => t[i] <= t[j]
  BY <1>1, <1>6
<1>8. QED  BY <1>7 DEF n, t

\* Where one is on a leg: there is only one that takes that time.
LEMMA PlaceBetween ==
  ASSUME NEW path \in Seq(Point), NEW i \in 1 .. Len(path) - 1, NEW ms,
         Times(path)[i] <= ms, ms < Times(path)[i + 1], ms \in Nat
  PROVE  PlaceAt(path, ms) = Lerp(path[i], path[i + 1], ms - Times(path)[i], Leg(path, i))
<1> DEFINE n == Len(path)
           t == Times(path)
           P(j) == t[j] <= ms /\ ms < t[j + 1]
           c == CHOOSE j \in 1 .. Len(path) - 1 : P(j)
<1>1. path # << >> /\ n \in Nat \ {0} /\ i \in 1 .. n /\ i + 1 \in 1 .. n /\ n \in 1 .. n
  BY EmptySeq
<1>2. /\ \A j \in 1 .. n : t[j] \in Nat
      /\ \A j, k \in 1 .. n : j <= k => t[j] <= t[k]
  BY <1>1, TimesGrow
<1>3. c \in 1 .. n - 1 /\ P(c)
  <2>1. \E j \in 1 .. n - 1 : P(j)
    OBVIOUS
  <2>2. QED  BY <2>1
<1>4. PlaceAt(path, ms) = IF ms >= t[n] THEN path[n]
                          ELSE Lerp(path[c], path[c + 1], ms - t[c], Leg(path, c))
  BY DEF PlaceAt
<1> HIDE DEF c
<1>5. ~(ms >= t[n])
  <2>1. t[i + 1] <= t[n]
    BY <1>1, <1>2
  <2>2. t[i + 1] \in Nat /\ t[n] \in Nat
    BY <1>1, <1>2
  <2>3. QED  BY <2>1, <2>2
<1>6. c = i
  <2>1. c \in 1 .. n /\ c + 1 \in 1 .. n
    BY <1>1, <1>3
  <2>2. t[c] \in Nat /\ t[c + 1] \in Nat /\ t[i] \in Nat /\ t[i + 1] \in Nat
    BY <1>1, <1>2, <2>1
  <2>3. ~(c + 1 <= i)
    <3>1. SUFFICES ASSUME c + 1 <= i
                   PROVE  FALSE
      OBVIOUS
    <3>2. t[c + 1] <= t[i]
      BY <1>1, <1>2, <2>1, <3>1
    <3>3. QED  BY <1>3, <2>2, <3>2
  <2>4. ~(i + 1 <= c)
    <3>1. SUFFICES ASSUME i + 1 <= c
                   PROVE  FALSE
      OBVIOUS
    <3>2. t[i + 1] <= t[c]
      BY <1>1, <1>2, <2>1, <3>1
    <3>3. QED  BY <1>3, <2>2, <3>2
  <2>5. QED  BY <1>1, <1>3, <2>3, <2>4
<1>7. QED  BY <1>4, <1>5, <1>6

-----------------------------------------------------------------------------
(* One call of update *)

\* What the monster is made of.
Walkers == [pos : Point, facing : Point, stamp : Nat, timer : Int, path : Seq(Point),
            idx : Nat, cum : Nat, seg : Nat]

\* A walker that is reset is one that stands where it was.
LEMMA ResetType ==
  ASSUME NEW m \in Walkers
  PROVE  /\ Reset(m) \in Walkers
         /\ Reset(m).timer = -1 /\ Reset(m).idx = 1 /\ Reset(m).cum = 0 /\ Reset(m).path = << >>
         /\ Reset(m).pos = m.pos
<1>1. << >> \in Seq(Point)
  OBVIOUS
<1> DEFINE a == [m EXCEPT !.timer = -1]
           b == [a EXCEPT !.idx = 1]
           c == [b EXCEPT !.cum = 0]
           d == [c EXCEPT !.seg = 0]
           e == [d EXCEPT !.path = << >>]
<1>2. Reset(m) = e
  BY DEF Reset
<1>3. a \in Walkers /\ a.timer = -1 /\ a.pos = m.pos
  BY DEF Walkers
<1> HIDE DEF a
<1>4. b \in Walkers /\ b.timer = -1 /\ b.pos = m.pos /\ b.idx = 1
  BY <1>3 DEF Walkers
<1> HIDE DEF b
<1>5. c \in Walkers /\ c.timer = -1 /\ c.pos = m.pos /\ c.idx = 1 /\ c.cum = 0
  BY <1>4 DEF Walkers
<1> HIDE DEF c
<1>6. d \in Walkers /\ d.timer = -1 /\ d.pos = m.pos /\ d.idx = 1 /\ d.cum = 0
  BY <1>5 DEF Walkers
<1> HIDE DEF d
<1>7. e \in Walkers /\ e.timer = -1 /\ e.pos = m.pos /\ e.idx = 1 /\ e.cum = 0 /\ e.path = << >>
  BY <1>1, <1>6 DEF Walkers
<1>8. QED  BY <1>2, <1>7

\* m is on a path, driven by that alarm, in the segment idx and cum ms behind its corner, which
\* makes that many ms from the first one.
Walks(m, path, id, ms) ==
    /\ m.path = path /\ m.timer = id
    /\ m.idx \in 1 .. Len(path) - 1
    /\ m.cum # 0 => m.seg = Leg(path, m.idx)
    /\ Times(path)[m.idx] + m.cum = ms

\* m is where it should be that many ms after it set out: on a leg, or at the end.
OnLeg(m, path, id, ms) ==
    /\ Walks(m, path, id, ms)
    /\ m.cum < Leg(path, m.idx)
    /\ m.pos = Lerp(path[m.idx], path[m.idx + 1], m.cum, Leg(path, m.idx))

Ended(m, path, ms) ==
    /\ m.timer = -1
    /\ m.pos = path[Len(path)]
    /\ ms >= Times(path)[Len(path)]

\* w after k calls of update: it is where it should be, or the next call is to take it on from
\* a corner behind the k-th.
Running(w, path, id, ms, k) ==
    /\ w \in [m : Walkers, d : Nat, done : BOOLEAN]
    /\ w.done => OnLeg(w.m, path, id, ms) \/ Ended(w.m, path, ms)
    /\ ~w.done => w.d <= ms /\ Walks(w.m, path, id, ms - w.d) /\ w.m.idx > k

\* A call takes it on.
LEMMA StrideKeeps ==
  ASSUME NEW w, NEW path \in Seq(Point), NEW id \in Int, NEW ms \in Nat, NEW k \in Nat, now \in Nat,
         Running(w, path, id, ms, k)
  PROVE  Running(Stride(w), path, id, ms, k + 1)
<1>1. w \in [m : Walkers, d : Nat, done : BOOLEAN]
  BY DEF Running
<1>2. CASE w.done
  <2>1. Stride(w) = w
    BY <1>2 DEF Stride
  <2>2. QED  BY <1>2, <2>1 DEF Running
<1>3. CASE ~w.done
  <2> DEFINE m   == Turned(w.m)
             cum == m.cum + w.d
             i   == w.m.idx
             leg == Leg(path, i)
  <2>1. w.m \in Walkers /\ w.d \in Nat /\ w.d <= ms /\ i > k
    BY <1>1, <1>3 DEF Running
  <2>2. Walks(w.m, path, id, ms - w.d)
    BY <1>3 DEF Running
  <2>3. i \in 1 .. Len(path) - 1 /\ w.m.path = path /\ w.m.timer = id
        /\ (w.m.cum # 0 => w.m.seg = leg) /\ Times(path)[i] + w.m.cum = ms - w.d
    BY <2>2 DEF Walks
  <2>4. leg \in Nat /\ path[i] \in Point /\ path[i + 1] \in Point
    <3>1. leg \in Nat
      BY <2>3, LegType
    <3>2. path[i] \in Point /\ path[i + 1] \in Point
      BY <2>3, ElementOfSeq
    <3>3. QED  BY <3>1, <3>2
  <2>5. /\ m \in Walkers /\ m.path = path /\ m.timer = id /\ m.idx = i /\ m.cum = w.m.cum
        /\ m.seg = leg
    <3>1. CASE w.m.cum # 0
      BY <2>1, <2>3, <3>1 DEF Turned
    <3>2. CASE w.m.cum = 0
      <4>1. m = [w.m EXCEPT !.seg = leg, !.facing = path[i + 1]]
        BY <2>3, <3>2 DEF Turned
      <4>2. QED  BY <2>1, <2>3, <2>4, <4>1 DEF Walkers
    <3>3. QED  BY <3>1, <3>2
  <2>6. cum \in Nat /\ Times(path)[i] \in Nat /\ Times(path)[i] + cum = ms
    <3>1. path # << >> /\ i \in 1 .. Len(path)
      BY <2>3
    <3>2. Times(path)[i] \in Nat
      BY <3>1, TimesGrow
    <3>3. w.m.cum \in Nat /\ m.cum = w.m.cum /\ w.d \in Nat
      BY <2>1, <2>5 DEF Walkers
    <3>4. Times(path)[i] + w.m.cum = ms - w.d
      BY <2>3
    <3> HIDE DEF m, i
    <3>5. ASSUME NEW t \in Nat, NEW c \in Nat, NEW d \in Nat, t + c = ms - d
          PROVE  t + (c + d) = ms
      BY <3>5
    <3>6. m.cum + w.d \in Nat
      BY <3>3
    <3>7. Times(path)[i] + (m.cum + w.d) = ms
      BY <3>2, <3>3, <3>4, <3>5
    <3>8. QED  BY <3>2, <3>6, <3>7
  <2>7. Len(path) \in Nat /\ Times(path)[i + 1] = Times(path)[i] + leg
    <3>1. Len(path) \in Nat \ {0}
      BY <2>3
    <3>2. QED  BY <2>3, <3>1, TimesRun
  <2>8. Stride(w) = IF cum < m.seg THEN [w EXCEPT !.m = Between(m, cum), !.done = TRUE]
                    ELSE IF m.idx >= Len(m.path) - 1 THEN [w EXCEPT !.m = AtEnd(m), !.done = TRUE]
                    ELSE [w EXCEPT !.m = [m EXCEPT !.seg = 0, !.cum = 0, !.idx = @ + 1], !.d = cum - m.seg]
    BY <1>3 DEF Stride
  <2> HIDE DEF m, cum, i, leg
  <2>9. CASE cum < leg
    <3> DEFINE v == Between(m, cum)
    <3>1. v = [m EXCEPT !.cum = cum, !.pos = Lerp(path[i], path[i + 1], cum, leg), !.stamp = now]
      BY <2>5 DEF Between
    <3>2. Lerp(path[i], path[i + 1], cum, leg) \in Point
      <4>1. leg \in Nat \ {0}
        BY <2>4, <2>6, <2>9
      <4>2. QED  BY <2>4, <2>6, <4>1, LerpType
    <3>3. /\ v \in Walkers /\ v.path = path /\ v.timer = id /\ v.idx = i /\ v.cum = cum /\ v.seg = leg
          /\ v.pos = Lerp(path[i], path[i + 1], cum, leg)
      BY <2>5, <2>6, <3>1, <3>2 DEF Walkers
    <3>4. Stride(w) = [w EXCEPT !.m = v, !.done = TRUE]
      BY <2>5, <2>8, <2>9
    <3> HIDE DEF v
    <3>5. Walks(v, path, id, ms)
      BY <2>3, <2>6, <3>3 DEF Walks, i, leg
    <3>6. OnLeg(v, path, id, ms)
      BY <2>9, <3>3, <3>5 DEF OnLeg, leg
    <3>7. Stride(w) \in [m : Walkers, d : Nat, done : BOOLEAN] /\ Stride(w).done /\ Stride(w).m = v
      BY <1>1, <3>3, <3>4
    <3>8. QED  BY <3>6, <3>7 DEF Running
  <2>10. CASE cum >= leg /\ i >= Len(path) - 1
    <3> DEFINE v == AtEnd(m)
    <3>1. i + 1 = Len(path)
      BY <2>3, <2>7, <2>10 DEF i
    <3>2. v = Reset([m EXCEPT !.pos = path[i + 1], !.stamp = now])
      BY <2>5 DEF AtEnd
    <3>3. v \in Walkers /\ v.timer = -1 /\ v.pos = path[Len(path)]
      <4> DEFINE u == [m EXCEPT !.pos = path[i + 1], !.stamp = now]
      <4>1. path[i + 1] \in Point /\ path[i + 1] = path[Len(path)]
        BY <2>4, <3>1
      <4>2. u \in Walkers /\ u.pos = path[i + 1]
        BY <2>5, <4>1 DEF Walkers
      <4>3. v = Reset(u)
        BY <3>2
      <4> HIDE DEF u, v
      <4>4. QED  BY <4>1, <4>2, <4>3, ResetType
    <3>4. Stride(w) = [w EXCEPT !.m = v, !.done = TRUE]
      BY <2>4, <2>5, <2>6, <2>8, <2>10
    <3> HIDE DEF v
    <3>5. Ended(v, path, ms)
      BY <2>4, <2>6, <2>7, <2>10, <3>1, <3>3 DEF Ended
    <3>6. Stride(w) \in [m : Walkers, d : Nat, done : BOOLEAN] /\ Stride(w).done /\ Stride(w).m = v
      BY <1>1, <3>3, <3>4
    <3>7. QED  BY <3>5, <3>6 DEF Running
  <2>11. CASE cum >= leg /\ i < Len(path) - 1
    <3> DEFINE v == [m EXCEPT !.seg = 0, !.cum = 0, !.idx = @ + 1]
               rest == cum - leg
    <3>1. i \in Nat /\ i + 1 \in 1 .. Len(path) - 1
      BY <2>3, <2>7, <2>11 DEF i
    <3>2. /\ v \in Walkers /\ v.path = path /\ v.timer = id /\ v.idx = i + 1 /\ v.cum = 0
      <4>1. v = [m EXCEPT !.seg = 0, !.cum = 0, !.idx = i + 1]
        BY <2>5
      <4>2. i + 1 \in Nat
        BY <3>1
      <4> HIDE DEF v
      <4>3. QED  BY <2>5, <4>1, <4>2 DEF Walkers
    <3>3. Stride(w) = [w EXCEPT !.m = v, !.d = rest]
      BY <2>4, <2>5, <2>6, <2>7, <2>8, <2>11, <3>1
    <3> HIDE DEF v
    <3>4. rest \in Nat /\ rest <= ms /\ Times(path)[i + 1] + 0 = ms - rest
      <4>1. rest \in Nat /\ rest = cum - leg
        BY <2>4, <2>6, <2>11
      <4>2. Times(path)[i + 1] = Times(path)[i] + leg
        BY <2>7
      <4> HIDE DEF rest
      <4>3. ASSUME NEW x \in Nat, NEW c \in Nat, NEW l \in Nat, x + c = ms, c - l \in Nat
            PROVE  c - l <= ms /\ x + l + 0 = ms - (c - l)
        BY <4>3
      <4>4. Times(path)[i] \in Nat /\ Times(path)[i] + cum = ms /\ cum \in Nat /\ leg \in Nat
        BY <2>4, <2>6
      <4>5. cum - leg \in Nat
        BY <4>1
      <4>6. cum - leg <= ms /\ Times(path)[i] + leg + 0 = ms - (cum - leg)
        BY <4>3, <4>4, <4>5
      <4>7. QED  BY <4>1, <4>2, <4>6
    <3> HIDE DEF rest
    <3>5. Walks(v, path, id, ms - rest)
      BY <3>1, <3>2, <3>4 DEF Walks
    <3>6. /\ Stride(w) \in [m : Walkers, d : Nat, done : BOOLEAN]
          /\ ~Stride(w).done /\ Stride(w).m = v /\ Stride(w).d = rest
      BY <1>1, <1>3, <3>2, <3>3, <3>4
    <3>7. v.idx > k + 1
      BY <2>1, <3>1, <3>2 DEF i
    <3>8. QED  BY <3>4, <3>5, <3>6, <3>7 DEF Running
  <2>12. QED  BY <2>3, <2>4, <2>6, <2>7, <2>9, <2>10, <2>11 DEF i
<1>4. QED  BY <1>1, <1>2, <1>3

\* The calls of one callback, n of them.
AreCalls(f, base, n) == f = [i \in 0 .. n |-> IF i = 0 THEN base ELSE Stride(f[i - 1])]

\* They can be made, any number of them.
LEMMA CallsExist ==
  ASSUME NEW base, NEW n \in Nat
  PROVE  \E f : AreCalls(f, base, n)
<1> DEFINE S == {m \in Nat : \E f : AreCalls(f, base, m)}
<1>1. 0 \in S
  <2>1. AreCalls([i \in 0 .. 0 |-> base], base, 0)
    BY DEF AreCalls
  <2>2. QED  BY <2>1
<1>2. ASSUME NEW m \in Nat, m \in S
      PROVE  m + 1 \in S
  <2>1. PICK f : AreCalls(f, base, m)
    BY <1>2
  <2>2. f = [i \in 0 .. m |-> IF i = 0 THEN base ELSE Stride(f[i - 1])]
    BY <2>1 DEF AreCalls
  <2> DEFINE g == [i \in 0 .. m + 1 |-> IF i = 0 THEN base ELSE Stride(f[i - 1])]
  <2>3. ASSUME NEW i \in 0 .. m + 1
        PROVE  g[i] = IF i = 0 THEN base ELSE Stride(g[i - 1])
    <3>1. CASE i = 0
      BY <3>1
    <3>2. CASE i # 0
      <4>1. i - 1 \in 0 .. m /\ i - 1 \in 0 .. m + 1
        BY <3>2
      <4>2. g[i - 1] = f[i - 1]
        BY <2>2, <4>1
      <4>3. QED  BY <3>2, <4>2
    <3>3. QED  BY <3>1, <3>2
  <2>4. AreCalls(g, base, m + 1)
    <3>1. g = [i \in 0 .. m + 1 |-> g[i]]
      OBVIOUS
    <3> HIDE DEF g
    <3>2. QED  BY <2>3, <3>1 DEF AreCalls
  <2>5. QED  BY <2>4
<1>3. Nat \subseteq S
  <2> HIDE DEF S
  <2>1. QED  BY <1>1, <1>2, Induction
<1>4. QED  BY <1>3

\* A callback brings the monster where it should be, however many corners it passes: there are
\* no more of them than the path has, so that the last call is never one too early.
LEMMA MovedRight ==
  ASSUME NEW m \in Walkers, NEW d \in Nat, NEW path \in Seq(Point), NEW id \in Int, NEW ms \in Nat,
         now \in Nat, Walks(m, path, id, ms)
  PROVE  /\ Moved(m, d) \in Walkers
         /\ OnLeg(Moved(m, d), path, id, ms + d) \/ Ended(Moved(m, d), path, ms + d)
<1> DEFINE n    == Len(path)
           base == [m |-> m, d |-> d, done |-> FALSE]
           h    == CHOOSE f : AreCalls(f, base, n)
           S    == {k \in Nat : k <= n => Running(h[k], path, id, ms + d, k)}
<1>1. n \in Nat /\ m.path = path /\ m.idx \in 1 .. n - 1
  BY DEF Walks
<1>2. AreCalls(h, base, n)
  <2> HIDE DEF base
  <2>1. QED  BY <1>1, CallsExist
<1>3. Moved(m, d) = h[n].m
  BY <1>1 DEF Moved, Through, AreCalls
<1>4. h = [i \in 0 .. n |-> IF i = 0 THEN base ELSE Stride(h[i - 1])]
  BY <1>2 DEF AreCalls
<1>5. Running(base, path, id, ms + d, 0)
  <2>1. base \in [m : Walkers, d : Nat, done : BOOLEAN] /\ ~base.done /\ base.m = m /\ base.d = d
    OBVIOUS
  <2>2. (ms + d) - d = ms /\ d <= ms + d /\ m.idx > 0
    BY <1>1
  <2> HIDE DEF base
  <2>3. QED  BY <2>1, <2>2 DEF Running
<1> HIDE DEF h, base
<1>6. 0 \in S
  BY <1>1, <1>4, <1>5
<1>7. ASSUME NEW k \in Nat, k \in S
      PROVE  k + 1 \in S
  <2>1. CASE k + 1 <= n
    <3>1. k <= n /\ h[k + 1] = Stride(h[k])
      <4>1. k + 1 \in 0 .. n /\ k + 1 # 0 /\ (k + 1) - 1 = k /\ k <= n
        BY <1>1, <2>1
      <4>2. h[k + 1] = Stride(h[(k + 1) - 1])
        BY <1>4, <4>1
      <4>3. QED  BY <4>1, <4>2
    <3>2. Running(h[k], path, id, ms + d, k)
      BY <1>7, <3>1
    <3>3. ms + d \in Nat
      OBVIOUS
    <3>4. Running(Stride(h[k]), path, id, ms + d, k + 1)
      BY <3>2, <3>3, StrideKeeps
    <3>5. QED  BY <3>1, <3>4
  <2>2. CASE ~(k + 1 <= n)
    BY <2>2
  <2>3. QED  BY <2>1, <2>2
<1>8. Nat \subseteq S
  <2> HIDE DEF S
  <2>1. QED  BY <1>6, <1>7, Induction
<1>9. Running(h[n], path, id, ms + d, n)
  BY <1>1, <1>8
<1>10. h[n] \in [m : Walkers, d : Nat, done : BOOLEAN] /\ h[n].done
  <2>1. h[n] \in [m : Walkers, d : Nat, done : BOOLEAN]
    BY <1>9 DEF Running
  <2>2. ASSUME ~h[n].done
        PROVE  FALSE
    <3>1. h[n].m.idx > n /\ h[n].m.idx \in 1 .. n - 1
      BY <1>9, <2>2 DEF Running, Walks
    <3>2. QED  BY <1>1, <3>1
  <2>3. QED  BY <2>1, <2>2
<1>11. OnLeg(h[n].m, path, id, ms + d) \/ Ended(h[n].m, path, ms + d)
  BY <1>9, <1>10 DEF Running
<1>12. QED  BY <1>3, <1>10, <1>11

-----------------------------------------------------------------------------
(* The invariant *)

WalkTypeOK ==
    /\ now \in Nat /\ frame \in Nat /\ next_id \in Nat
    /\ monster \in Walkers
    /\ trip \in [path : Seq(Point), since : Nat, calls : Nat]

\* There is an alarm exactly for the monster that walks, to ring once in each frame: what is
\* ringing is it, and then it is set again.
AlarmInv ==
    /\ DOMAIN alarms = AlarmsOf(monster)
    /\ ringing \in {-1} \cup AlarmsOf(monster)
    /\ \A t \in DOMAIN alarms :
           /\ alarms[t].interval = Interval /\ alarms[t].repeat
           /\ alarms[t].frame = trip.since + trip.calls + (IF ringing = -1 THEN 1 ELSE 2)

\* One call of update for each frame since the monster set out; that of this frame may be
\* still to come.
FrameInv ==
    /\ ringing # -1 => frame = trip.since + trip.calls + 1
    /\ monster.timer # -1 => frame \in trip.since + trip.calls .. trip.since + trip.calls + 1

\* The monster is where those calls put it.
PlaceInv ==
    LET ms == trip.calls * Interval
    IN  /\ monster.timer # -1 => Walks(monster, trip.path, monster.timer, ms)
        /\ trip.calls > 0 => OnLeg(monster, trip.path, monster.timer, ms) \/ Ended(monster, trip.path, ms)

WalkInv == WalkTypeOK /\ AlarmInv /\ FrameInv /\ PlaceInv

\* What an alarm of the monster is, that is set now.
LEMMA AlarmInRight ==
  ASSUME frame \in Nat
  PROVE  /\ AlarmIn(Interval, TRUE).interval = Interval /\ AlarmIn(Interval, TRUE).repeat
         /\ AlarmIn(Interval, TRUE).frame = frame + 1
<1>1. Interval \div Interval = 1
  <2>1. Interval \in Nat \ {0} /\ Interval \in Int /\ 1 \in Int /\ 1 * Interval <= Interval
        /\ Interval < 1 * Interval + Interval
    BY IntervalAssumption
  <2>2. QED  BY <2>1, QuotientUnique
<1>2. Frames(Interval) = 1
  BY <1>1 DEF Frames
<1>3. RingFrame(frame + 1, 1) = frame + 1
  BY WalkAssumption, IntervalAssumption DEF RingFrame
<1>4. QED  BY <1>2, <1>3 DEF AlarmIn

\* A monster that is sent somewhere stands at the start of its path, with a new alarm, or
\* stays where it is put.
LEMMA SentRight ==
  ASSUME NEW path \in Seq(Point), WalkTypeOK
  PROVE  /\ Sent(monster, path) \in Walkers
         /\ Sent(monster, path).path = path
         /\ Sent(monster, path).timer \in {-1, next_id}
         /\ Sent(monster, path).timer # -1 => Walks(Sent(monster, path), path, Sent(monster, path).timer, 0)
<1> DEFINE r == Reset(monster)
           m == Sent(monster, path)
<1>1. /\ r \in Walkers /\ r.timer = -1 /\ r.idx = 1 /\ r.cum = 0 /\ r.path = << >>
      /\ next_id \in Nat /\ Len(path) \in Nat
  BY ResetType DEF WalkTypeOK
<1> HIDE DEF r
<1>2. CASE Len(path) = 0
  <2>1. m = r /\ path = << >>
    BY <1>2 DEF Sent, r
  <2>2. QED  BY <1>1, <2>1
<1>3. CASE Len(path) = 1
  <2>1. m = [r EXCEPT !.path = path, !.facing = path[1], !.pos = path[1]]
    BY <1>3 DEF Sent, r
  <2>2. path[1] \in Point
    BY <1>3, ElementOfSeq
  <2> HIDE DEF m
  <2>3. m \in Walkers /\ m.path = path /\ m.timer = -1
    BY <1>1, <2>1, <2>2 DEF Walkers
  <2>4. QED  BY <2>3 DEF m
<1>4. CASE Len(path) > 1
  <2>1. m = [r EXCEPT !.path = path, !.timer = next_id]
    <3>1. \A n \in Nat : n > 1 => n # 0 /\ n # 1
      OBVIOUS
    <3>2. Len(path) \in Nat
      OBVIOUS
    <3>3. Len(path) # 0 /\ Len(path) # 1
      BY <1>4, <3>1, <3>2
    <3>4. QED  BY <3>3 DEF Sent, r
  <2> DEFINE u == [r EXCEPT !.path = path]
  <2>2. u \in Walkers /\ u.path = path /\ u.idx = 1 /\ u.cum = 0
    BY <1>1 DEF Walkers
  <2>3. m = [u EXCEPT !.timer = next_id] /\ next_id \in Int
    BY <1>1, <2>1
  <2> HIDE DEF m, u
  <2>4. m \in Walkers /\ m.path = path /\ m.timer = next_id /\ m.idx = 1 /\ m.cum = 0
    BY <2>2, <2>3 DEF Walkers
  <2>5. Times(path)[1] = 0 /\ 1 \in 1 .. Len(path) - 1
    BY <1>1, <1>4, TimesRun
  <2>6. Walks(m, path, m.timer, 0)
    BY <2>4, <2>5 DEF Walks
  <2>7. QED  BY <2>4, <2>6 DEF m
<1>5. Len(path) = 0 \/ Len(path) = 1 \/ Len(path) > 1
  <2>1. Len(path) \in Nat
    OBVIOUS
  <2>2. QED  BY <2>1
<1>6. QED  BY <1>2, <1>3, <1>4, <1>5

\* At first.
LEMMA InitRight == WalkInit => WalkInv
<1> SUFFICES ASSUME WalkInit
             PROVE  WalkInv
  OBVIOUS
<1>1. << >> \in Seq(Point) /\ Home \in Point
  BY WalkAssumption
<1>2. WalkTypeOK /\ monster.timer = -1 /\ trip.calls = 0
  BY <1>1 DEF WalkInit, TimersInit, WalkTypeOK, Walkers
<1>3. alarms = [t \in {} |-> 0] /\ ringing = -1
  BY DEF WalkInit, TimersInit
<1>4. AlarmInv
  BY <1>2, <1>3 DEF AlarmInv, AlarmsOf
<1>5. FrameInv /\ PlaceInv
  BY <1>2, <1>3 DEF FrameInv, PlaceInv
<1>6. QED  BY <1>2, <1>4, <1>5 DEF WalkInv

\* A monster that is sent elsewhere: the old alarm is gone, the new one rings in the next frame.
LEMMA MoveToKeeps ==
  ASSUME WalkInv, NEW path \in Seq(Point), MoveTo(path)
  PROVE  WalkInv'
<1> DEFINE m == Sent(monster, path)
           stays == DOMAIN alarms \ AlarmsOf(monster)
<1>1. WalkTypeOK /\ DOMAIN alarms = AlarmsOf(monster)
  BY DEF WalkInv, AlarmInv
<1>2. /\ m \in Walkers /\ m.path = path /\ m.timer \in {-1, next_id}
      /\ m.timer # -1 => Walks(m, path, m.timer, 0)
  BY <1>1, SentRight
<1>3. /\ monster' = m
      /\ alarms' = [t \in stays \cup AlarmsOf(m) |-> IF t = m.timer THEN AlarmIn(Interval, TRUE) ELSE alarms[t]]
      /\ next_id' = next_id + Cardinality(AlarmsOf(m))
      /\ trip' = [path |-> m.path, since |-> frame, calls |-> 0]
      /\ now' = now /\ frame' = frame /\ ringing' = -1
  BY DEF MoveTo, Departs, Quiet
<1> HIDE DEF m
<1>4. frame \in Nat /\ now \in Nat /\ next_id \in Nat
  BY <1>1 DEF WalkTypeOK
<1>5. WalkTypeOK'
  <2>1. Cardinality(AlarmsOf(m)) \in Nat
    <3>1. IsFiniteSet({m.timer} \ {-1})
      BY FS_Singleton, FS_Difference
    <3>2. QED  BY <3>1, FS_CardinalityType DEF AlarmsOf
  <2>2. next_id' \in Nat
    BY <1>3, <1>4, <2>1
  <2>3. trip' \in [path : Seq(Point), since : Nat, calls : Nat]
    BY <1>2, <1>3, <1>4
  <2>4. QED  BY <1>2, <1>3, <1>4, <2>2, <2>3 DEF WalkTypeOK
<1>6. trip'.path = path /\ trip'.since = frame /\ trip'.calls = 0
  BY <1>2, <1>3
<1>7. AlarmInv'
  <2>1. stays = {}
    BY <1>1
  <2>2. alarms' = [t \in AlarmsOf(m) |-> AlarmIn(Interval, TRUE)]
    BY <1>3, <2>1 DEF AlarmsOf
  <2>3. DOMAIN alarms' = AlarmsOf(monster')
    BY <1>3, <2>2
  <2>4. \A t \in DOMAIN alarms' : alarms'[t] = AlarmIn(Interval, TRUE)
    BY <2>2
  <2>5. AlarmIn(Interval, TRUE).frame = trip'.since + trip'.calls + 1
    <3>1. AlarmIn(Interval, TRUE).frame = frame + 1
      BY <1>4, AlarmInRight
    <3>2. trip'.since + trip'.calls + 1 = frame + 1
      BY <1>4, <1>6
    <3>3. QED  BY <3>1, <3>2
  <2>6. QED  BY <1>3, <1>4, <2>3, <2>4, <2>5, AlarmInRight DEF AlarmInv
<1>8. FrameInv'
  BY <1>3, <1>4, <1>6 DEF FrameInv
<1>9. PlaceInv'
  <2>1. trip'.calls * Interval = 0
    BY <1>6, IntervalAssumption
  <2>2. monster'.timer # -1 => Walks(monster', trip'.path, monster'.timer, trip'.calls * Interval)
    BY <1>2, <1>3, <1>6, <2>1
  <2>3. ~(trip'.calls > 0)
    BY <1>6
  <2>4. QED  BY <2>2, <2>3 DEF PlaceInv
<1>10. QED  BY <1>5, <1>7, <1>8, <1>9 DEF WalkInv

\* A callback, to its end: the monster keeps its alarm, or is at the end and has none.
LEMMA UpdateKeeps ==
  ASSUME WalkInv, Update
  PROVE  WalkInv'
<1> DEFINE m  == Moved(monster, Interval)
           ms == trip.calls * Interval
<1>1. WalkTypeOK /\ AlarmInv /\ FrameInv /\ PlaceInv
  BY DEF WalkInv
<1>2. /\ ringing # -1 /\ monster' = m
      /\ alarms' = [t \in DOMAIN alarms \ (AlarmsOf(monster) \ AlarmsOf(m)) |-> alarms[t]]
      /\ ringing' = -1
      /\ trip' = [trip EXCEPT !.calls = @ + 1]
      /\ now' = now /\ frame' = frame /\ next_id' = next_id
  BY DEF Update
<1>3. /\ now \in Nat /\ frame \in Nat /\ next_id \in Nat /\ monster \in Walkers
      /\ trip \in [path : Seq(Point), since : Nat, calls : Nat]
      /\ trip.path \in Seq(Point) /\ trip.since \in Nat /\ trip.calls \in Nat
  BY <1>1 DEF WalkTypeOK
<1>4. monster.timer # -1 /\ ringing = monster.timer /\ DOMAIN alarms = AlarmsOf(monster)
  BY <1>1, <1>2 DEF AlarmInv, AlarmsOf
<1>5. Interval \in Nat /\ ms \in Nat /\ monster.timer \in Int
  BY <1>3, IntervalAssumption DEF Walkers
<1>6. Walks(monster, trip.path, monster.timer, ms)
  BY <1>1, <1>4 DEF PlaceInv
<1> HIDE DEF ms
<1>7. /\ m \in Walkers
      /\ OnLeg(m, trip.path, monster.timer, ms + Interval) \/ Ended(m, trip.path, ms + Interval)
  BY <1>3, <1>5, <1>6, MovedRight
<1> HIDE DEF m
<1>8. m.timer \in {-1, monster.timer}
  BY <1>7 DEF OnLeg, Walks, Ended
<1>9. /\ trip' \in [path : Seq(Point), since : Nat, calls : Nat]
      /\ trip'.path = trip.path /\ trip'.since = trip.since /\ trip'.calls = trip.calls + 1
  BY <1>2, <1>3
<1>10. trip'.calls * Interval = ms + Interval
  <2>1. (trip.calls + 1) * Interval = trip.calls * Interval + Interval
    BY <1>3, <1>5
  <2>2. QED  BY <1>9, <2>1 DEF ms
<1>11. WalkTypeOK'
  BY <1>2, <1>3, <1>7, <1>9 DEF WalkTypeOK
<1>12. AlarmInv'
  <2>1. alarms' = [t \in AlarmsOf(m) |-> alarms[t]]
    <3>1. AlarmsOf(m) \subseteq AlarmsOf(monster)
      BY <1>8 DEF AlarmsOf
    <3>2. DOMAIN alarms \ (AlarmsOf(monster) \ AlarmsOf(m)) = AlarmsOf(m)
      BY <1>4, <3>1
    <3>3. QED  BY <1>2, <3>2
  <2>2. DOMAIN alarms' = AlarmsOf(monster')
    BY <1>2, <2>1
  <2>3. ASSUME NEW t \in DOMAIN alarms'
        PROVE  /\ alarms'[t].interval = Interval /\ alarms'[t].repeat
               /\ alarms'[t].frame = trip'.since + trip'.calls + 1
    <3>1. t \in DOMAIN alarms /\ alarms'[t] = alarms[t]
      BY <1>4, <1>8, <2>1 DEF AlarmsOf
    <3>2. /\ alarms[t].interval = Interval /\ alarms[t].repeat
          /\ alarms[t].frame = trip.since + trip.calls + 2
      BY <1>1, <1>2, <3>1 DEF AlarmInv
    <3>3. trip'.since + trip'.calls + 1 = trip.since + trip.calls + 2
      BY <1>3, <1>9
    <3>4. QED  BY <3>1, <3>2, <3>3
  <2>4. QED  BY <1>2, <2>2, <2>3 DEF AlarmInv
<1>13. FrameInv'
  <2>1. frame = trip'.since + trip'.calls
    BY <1>1, <1>2, <1>3, <1>9 DEF FrameInv
  <2>2. QED  BY <1>2, <1>3, <2>1 DEF FrameInv
<1>14. PlaceInv'
  <2>1. OnLeg(monster', trip'.path, monster.timer, trip'.calls * Interval)
        \/ Ended(monster', trip'.path, trip'.calls * Interval)
    BY <1>2, <1>7, <1>9, <1>10
  <2>2. monster'.timer # -1 => /\ OnLeg(monster', trip'.path, monster'.timer, trip'.calls * Interval)
                              /\ Walks(monster', trip'.path, monster'.timer, trip'.calls * Interval)
    BY <1>2, <1>8, <2>1 DEF OnLeg, Ended
  <2>3. monster'.timer = -1 => Ended(monster', trip'.path, trip'.calls * Interval)
    BY <1>4, <2>1 DEF OnLeg, Walks
  <2>4. QED  BY <2>2, <2>3 DEF PlaceInv
<1>15. QED  BY <1>11, <1>12, <1>13, <1>14 DEF WalkInv

\* Time passes; an alarm rings.
LEMMA ClockKeeps ==
  ASSUME WalkInv, Clock
  PROVE  WalkInv'
<1>1. WalkTypeOK /\ AlarmInv /\ FrameInv /\ PlaceInv
  BY DEF WalkInv
<1>2. /\ now \in Nat /\ frame \in Nat /\ next_id \in Nat
      /\ trip.since \in Nat /\ trip.calls \in Nat
  BY <1>1 DEF WalkTypeOK
<1>3. monster' = monster /\ trip' = trip
  BY DEF Clock
<1>4. PlaceInv'
  BY <1>1, <1>3 DEF PlaceInv
<1>5. ASSUME NEW d \in 1 .. MaxElapse, Pass(d)
      PROVE  WalkInv'
  <2>1. now' \in Nat /\ frame' = frame /\ alarms' = alarms /\ next_id' = next_id /\ ringing' = ringing
    BY <1>2, <1>5 DEF Pass
  <2>2. WalkTypeOK'
    BY <1>1, <1>3, <2>1 DEF WalkTypeOK
  <2>3. AlarmInv'
    BY <1>1, <1>3, <2>1 DEF AlarmInv
  <2>4. FrameInv'
    BY <1>1, <1>3, <2>1 DEF FrameInv
  <2>5. QED  BY <1>4, <2>2, <2>3, <2>4 DEF WalkInv
<1>6. CASE Tick
  <2>1. /\ now' = now /\ frame' = frame + 1 /\ alarms' = alarms /\ next_id' = next_id
        /\ ringing = -1 /\ ringing' = ringing /\ NothingDue
    BY <1>6 DEF Tick
  <2>2. WalkTypeOK'
    BY <1>1, <1>2, <1>3, <2>1 DEF WalkTypeOK
  <2>3. AlarmInv'
    BY <1>1, <1>3, <2>1 DEF AlarmInv
  <2>4. monster.timer # -1 => frame < trip.since + trip.calls + 1
    <3>1. SUFFICES ASSUME monster.timer # -1
                   PROVE  frame < trip.since + trip.calls + 1
      OBVIOUS
    <3>2. monster.timer \in DOMAIN alarms
      BY <1>1, <3>1 DEF AlarmInv, AlarmsOf
    <3>3. alarms[monster.timer].frame = trip.since + trip.calls + 1
      BY <1>1, <2>1, <3>2 DEF AlarmInv
    <3>4. ~(alarms[monster.timer].frame <= frame)
      BY <2>1, <3>2 DEF NothingDue, Due
    <3>5. QED  BY <1>2, <3>3, <3>4
  <2>5. FrameInv'
    BY <1>1, <1>2, <1>3, <2>1, <2>4 DEF FrameInv
  <2>6. QED  BY <1>4, <2>2, <2>3, <2>5 DEF WalkInv
<1>7. ASSUME NEW t \in DOMAIN alarms, Ring(t)
      PROVE  WalkInv'
  <2>1. t = monster.timer /\ t # -1 /\ DOMAIN alarms = {t} /\ DOMAIN alarms = AlarmsOf(monster)
    BY <1>1 DEF AlarmInv, AlarmsOf
  <2>2. ringing = -1 /\ alarms[t].frame <= frame /\ ringing' = t
        /\ now' = now /\ frame' = frame /\ next_id' = next_id
    BY <1>7 DEF Ring, Due
  <2>3. /\ alarms[t].interval = Interval /\ alarms[t].repeat
        /\ alarms[t].frame = trip.since + trip.calls + 1
    BY <1>1, <2>2 DEF AlarmInv
  <2>4. alarms' = [alarms EXCEPT ![t] = AlarmIn(alarms[t].interval, TRUE)]
    BY <1>7, <2>3 DEF Ring
  <2>5. DOMAIN alarms' = DOMAIN alarms /\ alarms'[t] = AlarmIn(Interval, TRUE)
    BY <2>3, <2>4
  <2>6. frame = trip.since + trip.calls + 1
    BY <1>1, <1>2, <2>1, <2>2, <2>3 DEF FrameInv
  <2>7. WalkTypeOK'
    BY <1>1, <1>3, <2>2 DEF WalkTypeOK
  <2>8. AlarmInv'
    <3>1. AlarmIn(Interval, TRUE).frame = trip'.since + trip'.calls + 2
      <4>1. AlarmIn(Interval, TRUE).frame = frame + 1
        BY <1>2, AlarmInRight
      <4>2. trip'.since + trip'.calls + 2 = frame + 1
        BY <1>2, <1>3, <2>6
      <4>3. QED  BY <4>1, <4>2
    <3>2. \A u \in DOMAIN alarms' : alarms'[u] = AlarmIn(Interval, TRUE)
      BY <2>1, <2>5
    <3>3. DOMAIN alarms' = AlarmsOf(monster') /\ ringing' \in {-1} \cup AlarmsOf(monster')
      BY <1>3, <2>1, <2>2, <2>5
    <3>4. QED  BY <1>2, <2>1, <2>2, <3>1, <3>2, <3>3, AlarmInRight DEF AlarmInv
  <2>9. FrameInv'
    BY <1>1, <1>2, <1>3, <2>2, <2>6 DEF FrameInv
  <2>10. QED  BY <1>4, <2>7, <2>8, <2>9 DEF WalkInv
<1>8. QED  BY <1>5, <1>6, <1>7 DEF Clock

\* The monster, its alarm, the frame and its place fit each other in every state.
THEOREM WalkInvariant == WalkSpec => []WalkInv
<1>1. WalkInv /\ [WalkNext]_walkVars => WalkInv'
  <2> SUFFICES ASSUME WalkInv, [WalkNext]_walkVars
               PROVE  WalkInv'
    OBVIOUS
  <2>1. CASE \E path \in Seq(Point) : MoveTo(path)
    BY <2>1, MoveToKeeps
  <2>2. CASE Update
    BY <2>2, UpdateKeeps
  <2>3. CASE Clock
    BY <2>3, ClockKeeps
  <2>4. CASE UNCHANGED walkVars
    BY <2>4 DEF walkVars, timerVars, WalkInv, WalkTypeOK, AlarmInv, FrameInv, PlaceInv
  <2>5. QED  BY <2>1, <2>2, <2>3, <2>4 DEF WalkNext
<1>2. QED  BY InitRight, <1>1, PTL DEF WalkSpec

\* What the invariant says of the monster's pace.
LEMMA InvariantKeepsPace == WalkInv => KeepsPace
<1> SUFFICES ASSUME WalkInv
             PROVE  KeepsPace
  OBVIOUS
<1> DEFINE ms == trip.calls * Interval
<1>1. WalkTypeOK /\ AlarmInv /\ FrameInv /\ PlaceInv
  BY DEF WalkInv
<1>2. /\ frame \in Nat /\ trip.path \in Seq(Point) /\ trip.since \in Nat /\ trip.calls \in Nat
      /\ monster \in Walkers
  BY <1>1 DEF WalkTypeOK
<1>3. ms \in Nat
  BY <1>2, IntervalAssumption
<1>4. trip.calls > 0 => OnLeg(monster, trip.path, monster.timer, ms) \/ Ended(monster, trip.path, ms)
  BY <1>1 DEF PlaceInv
<1>5. monster.timer # -1 => Walks(monster, trip.path, monster.timer, ms)
  BY <1>1 DEF PlaceInv
<1> HIDE DEF ms
<1>6. ASSUME OnLeg(monster, trip.path, monster.timer, ms)
      PROVE  monster.pos = PlaceAt(trip.path, ms)
  <2> DEFINE p == trip.path
             i == monster.idx
  <2>1. /\ i \in 1 .. Len(p) - 1 /\ Times(p)[i] + monster.cum = ms /\ monster.cum < Leg(p, i)
        /\ monster.pos = Lerp(p[i], p[i + 1], monster.cum, Leg(p, i))
    BY <1>6 DEF OnLeg, Walks
  <2>2. monster.cum \in Nat
    BY <1>2 DEF Walkers
  <2> HIDE DEF i
  <2>3. Leg(p, i) \in Nat
    BY <1>2, <2>1, LegType
  <2>4. Times(p)[i] \in Nat /\ Times(p)[i + 1] = Times(p)[i] + Leg(p, i)
    <3>1. p # << >> /\ Len(p) \in Nat \ {0} /\ i \in 1 .. Len(p)
      BY <1>2, <2>1
    <3>2. Times(p)[i] \in Nat
      BY <1>2, <3>1, TimesGrow
    <3>3. QED  BY <2>1, <3>1, <3>2, TimesRun
  <2>5. Times(p)[i] <= ms /\ ms < Times(p)[i + 1] /\ ms - Times(p)[i] = monster.cum
    BY <2>1, <2>2, <2>3, <2>4
  <2>6. PlaceAt(p, ms) = Lerp(p[i], p[i + 1], ms - Times(p)[i], Leg(p, i))
    BY <1>2, <1>3, <2>1, <2>5, PlaceBetween
  <2>7. QED  BY <2>1, <2>5, <2>6
<1>7. ASSUME Ended(monster, trip.path, ms)
      PROVE  monster.pos = PlaceAt(trip.path, ms)
  BY <1>7 DEF Ended, PlaceAt
<1>8. trip.calls > 0 => monster.pos = PlaceAt(trip.path, trip.calls * Interval)
  BY <1>4, <1>6, <1>7 DEF ms
<1>9. ASSUME monster.timer # -1, Quiet
      PROVE  trip.calls = frame - trip.since
  <2>1. ringing = -1 /\ monster.timer \in DOMAIN alarms
    BY <1>1, <1>9 DEF Quiet, AlarmInv, AlarmsOf
  <2>2. alarms[monster.timer].frame = trip.since + trip.calls + 1
    BY <1>1, <2>1 DEF AlarmInv
  <2>3. ~(alarms[monster.timer].frame <= frame)
    BY <1>9, <2>1 DEF Quiet, NothingDue, Due
  <2>4. frame \in trip.since + trip.calls .. trip.since + trip.calls + 1
    BY <1>1, <1>9 DEF FrameInv
  <2>5. QED  BY <1>2, <2>2, <2>3, <2>4
<1>10. QED  BY <1>1, <1>5, <1>8, <1>9 DEF KeepsPace, AlarmInv, Walks

\* The monster is always where the frames since it set out put it, on any path.
THEOREM AlwaysKeepsPace == WalkSpec => []KeepsPace
BY WalkInvariant, InvariantKeepsPace, PTL
=============================================================================
