----------------------------- MODULE DataLemmas -----------------------------
(* What the proofs of several modules need to know of numbers and sequences.       *)
EXTENDS Integers, SequencesExt, WellFoundedInduction, SequenceTheorems, TLAPS

-----------------------------------------------------------------------------
(* Induction *)

\* A set that holds 0 and with every number the next holds all of them.
LEMMA Induction ==
  ASSUME NEW S, 0 \in S, \A n \in Nat : n \in S => n + 1 \in S
  PROVE  Nat \subseteq S
<1> SUFFICES ASSUME Nat \ S # {}
             PROVE  FALSE
  OBVIOUS
<1> DEFINE R == OpToRel(<, Nat)
<1>1. IsWellFoundedOn(R, Nat)
  BY NatLessThanWellFounded
<1>2. \A x, y : <<x, y>> \in R <=> x \in Nat /\ y \in Nat /\ x < y
  BY DEF OpToRel
<1> HIDE DEF R
<1>3. PICK x \in Nat \ S : \A y \in Nat \ S : ~(<<y, x>> \in R)
  BY <1>1, WFMin
<1>4. x # 0 /\ x - 1 \in Nat /\ x - 1 < x /\ (x - 1) + 1 = x
  BY <1>3
<1>5. x - 1 \in Nat \ S
  BY <1>3, <1>4
<1>6. QED  BY <1>2, <1>3, <1>4, <1>5

-----------------------------------------------------------------------------
(* Quotients and remainders *)

\* A quotient and its remainder.
LEMMA Quotient ==
  ASSUME NEW x \in Int, NEW n \in Nat \ {0}
  PROVE  /\ x \div n \in Int /\ x % n \in 0 .. n - 1
         /\ (x \div n) * n + (x % n) = x
         /\ (x \div n) * n <= x /\ x < (x \div n) * n + n
         /\ x >= 0 => x \div n \in Nat
<1>1. x \div n \in Int
  OBVIOUS
<1>2. x % n \in 0 .. n - 1
  OBVIOUS
<1>3. x % n = x - n * (x \div n)
  OBVIOUS
<1>4. x >= 0 => x \div n >= 0
  OBVIOUS
<1> DEFINE q == x \div n
           r == x % n
<1>5. q \in Int /\ r \in 0 .. n - 1 /\ r = x - n * q /\ (x >= 0 => q >= 0)
  BY <1>1, <1>2, <1>3, <1>4
<1> HIDE DEF q, r
<1>6. n * q = q * n /\ q * n \in Int
  BY <1>5
<1>7. q \in Int /\ r \in 0 .. n - 1 /\ q * n + r = x /\ q * n <= x /\ x < q * n + n
      /\ (x >= 0 => q \in Nat)
  BY <1>5, <1>6
<1>8. QED  BY <1>7 DEF q, r

\* Products with a positive factor compare like their other factors.
LEMMA Products ==
  ASSUME NEW a \in Int, NEW b \in Int, NEW n \in Nat \ {0}
  PROVE  /\ a * n \in Int /\ (a >= 0 => a * n \in Nat)
         /\ (a + 1) * n = a * n + n /\ (a + 2) * n = a * n + n + n
         /\ (a + b) * n = a * n + b * n
         /\ a <= b => a * n <= b * n
         /\ a < b => a * n + n <= b * n
         /\ a * n < b * n => a < b
         /\ a * n = b * n => a = b
<1>1. /\ a * n \in Int /\ (a >= 0 => a * n \in Nat)
      /\ (a + 1) * n = a * n + n /\ (a + 2) * n = a * n + n + n
      /\ (a + b) * n = a * n + b * n
  OBVIOUS
<1>2. ASSUME NEW c \in Int, NEW d \in Int, c < d
      PROVE  c * n + n <= d * n
  <2>1. d = c + (d - c) /\ d - c \in Nat /\ d - c >= 1
    BY <1>2
  <2>2. d * n = c * n + (d - c) * n
    BY <2>1
  <2>3. (d - c) * n >= n
    BY <2>1
  <2>4. QED  BY <2>2, <2>3
<1>3. a * n \in Int /\ b * n \in Int
  OBVIOUS
<1>4. QED  BY <1>1, <1>2, <1>3

\* There is only one quotient.
LEMMA QuotientUnique ==
  ASSUME NEW x \in Int, NEW n \in Nat \ {0}, NEW q \in Int, q * n <= x, x < q * n + n
  PROVE  x \div n = q /\ x % n = x - q * n
<1> DEFINE p == x \div n
           r == x % n
<1>1. p \in Int /\ r \in Int /\ p * n + r = x /\ p * n <= x /\ x < p * n + n
  BY Quotient
<1> HIDE DEF p, r
<1>2. ~(p < q)
  <2> SUFFICES ASSUME p < q PROVE FALSE
    OBVIOUS
  <2>1. p * n + n <= q * n /\ p * n \in Int /\ q * n \in Int
    BY <1>1, Products
  <2>2. QED  BY <1>1, <2>1
<1>3. ~(q < p)
  <2> SUFFICES ASSUME q < p PROVE FALSE
    OBVIOUS
  <2>1. q * n + n <= p * n /\ p * n \in Int /\ q * n \in Int
    BY <1>1, Products
  <2>2. QED  BY <1>1, <2>1
<1>4. p = q
  BY <1>1, <1>2, <1>3
<1>5. p * n \in Int
  BY <1>1, Products
<1>6. QED  BY <1>1, <1>4, <1>5 DEF p, r

\* A remainder forgets multiples.
LEMMA RemainderShift ==
  ASSUME NEW x \in Int, NEW m \in Int, NEW n \in Nat \ {0}
  PROVE  (x + m * n) % n = x % n /\ (x + n) % n = x % n
<1> DEFINE q == x \div n
           r == x % n
<1>1. q \in Int /\ r \in 0 .. n - 1 /\ q * n + r = x
  BY Quotient
<1> HIDE DEF q, r
<1>2. (q + m) * n = q * n + m * n /\ q * n \in Int /\ m * n \in Int /\ (q + 1) * n = q * n + n
  BY <1>1, Products
<1>3. (x + m * n) % n = r
  <2>1. (x + m * n) - (q + m) * n = r
    BY <1>1, <1>2
  <2>2. (q + m) * n <= x + m * n /\ x + m * n < (q + m) * n + n
    BY <1>1, <1>2
  <2>3. x + m * n \in Int /\ q + m \in Int
    BY <1>1, <1>2
  <2>4. QED  BY <2>1, <2>2, <2>3, QuotientUnique
<1>4. (x + n) % n = r
  <2>1. (x + n) - (q + 1) * n = r
    BY <1>1, <1>2
  <2>2. (q + 1) * n <= x + n /\ x + n < (q + 1) * n + n
    BY <1>1, <1>2
  <2>3. x + n \in Int /\ q + 1 \in Int
    BY <1>1, <1>2
  <2>4. QED  BY <2>1, <2>2, <2>3, QuotientUnique
<1>5. QED  BY <1>3, <1>4 DEF r

\* Remainders may be taken before or after an addition.
LEMMA RemainderAdd ==
  ASSUME NEW x \in Int, NEW y \in Int, NEW n \in Nat \ {0}
  PROVE  ((x % n) + y) % n = (x + y) % n
<1> DEFINE q == x \div n
           r == x % n
<1>1. q \in Int /\ r \in Int /\ q * n + r = x
  BY Quotient
<1> HIDE DEF q, r
<1>2. r + y \in Int /\ q * n \in Int /\ (r + y) + q * n = x + y
  BY <1>1, Products
<1>3. ((r + y) + q * n) % n = (r + y) % n
  BY <1>1, <1>2, RemainderShift
<1>4. QED  BY <1>2, <1>3 DEF r

\* Numbers less than n apart with the same remainder are equal.
LEMMA RemainderUnique ==
  ASSUME NEW x \in Int, NEW y \in Int, NEW n \in Nat \ {0},
         x % n = y % n, x <= y, y < x + n
  PROVE  x = y
<1> DEFINE p == x \div n
           q == y \div n
           r == x % n
<1>1. p \in Int /\ q \in Int /\ r \in 0 .. n - 1 /\ p * n + r = x /\ q * n + r = y
  BY Quotient
<1> HIDE DEF p, q, r
<1>2. p * n \in Int /\ q * n \in Int /\ p * n <= q * n /\ q * n < p * n + n
  BY <1>1, Products
<1>3. p <= q
  <2>1. q < p => q * n + n <= p * n
    BY <1>1, Products
  <2>2. QED  BY <1>1, <1>2, <2>1
<1>4. ~(p < q)
  <2>1. p < q => p * n + n <= q * n
    BY <1>1, Products
  <2>2. QED  BY <1>1, <1>2, <2>1
<1>5. QED  BY <1>1, <1>3, <1>4

\* The number before a multiple belongs to the quotient before, any other to the same one.
LEMMA QuotientBefore ==
  ASSUME NEW x \in Int, NEW n \in Nat \ {0}
  PROVE  IF x % n = 0
         THEN x = (x \div n) * n /\ (x - 1) \div n = x \div n - 1
         ELSE (x - 1) \div n = x \div n
<1> DEFINE q == x \div n
           r == x % n
           e == x - 1
<1>1. q \in Int /\ r \in 0 .. n - 1 /\ q * n + r = x /\ q * n \in Int
  BY Quotient, Products
<1>2. e \in Int /\ e + 1 = x
  OBVIOUS
<1> HIDE DEF q, r, e
<1>3. ASSUME r # 0
      PROVE  e \div n = q
  <2>1. q * n <= e /\ e < q * n + n
    BY <1>1, <1>2, <1>3
  <2>2. QED  BY <1>1, <1>2, <2>1, QuotientUnique
<1>4. ASSUME r = 0
      PROVE  x = q * n /\ e \div n = q - 1
  <2>1. (q - 1) * n + n = q * n /\ (q - 1) * n \in Int /\ q - 1 \in Int
    <3>1. q - 1 \in Int /\ (q - 1) + 1 = q
      BY <1>1
    <3>2. ((q - 1) + 1) * n = (q - 1) * n + n /\ (q - 1) * n \in Int
      BY <3>1, Products
    <3>3. QED  BY <3>1, <3>2
  <2>2. (q - 1) * n <= e /\ e < (q - 1) * n + n
    BY <1>1, <1>2, <1>4, <2>1
  <2>3. e \div n = q - 1
    BY <1>2, <2>1, <2>2, QuotientUnique, Zenon
  <2>4. QED  BY <1>1, <1>4, <2>3
<1>5. QED  BY <1>3, <1>4 DEF q, r, e

\* A multiple leaves no remainder.
LEMMA Multiple ==
  ASSUME NEW m \in Int, NEW n \in Nat \ {0}
  PROVE  (m * n) % n = 0 /\ (m * n) \div n = m
<1> DEFINE x == m * n
<1>1. x \in Int
  BY Products
<1>2. m * n = x
  OBVIOUS
<1> HIDE DEF x
<1>3. m * n <= x /\ x < m * n + n /\ x - m * n = 0
  BY <1>1, <1>2
<1>4. x \div n = m /\ x % n = 0
  BY <1>1, <1>3, QuotientUnique
<1>5. QED  BY <1>4 DEF x

\* The multiples of a square.
LEMMA MultipleOfSquare ==
  ASSUME NEW x \in Int, NEW n \in Nat \ {0}
  PROVE  x % (n * n) = 0 <=> x % n = 0 /\ (x \div n) % n = 0
<1> DEFINE s == n * n
<1>1. s \in Nat \ {0}
  <2>1. n * n \in Nat /\ n * n >= n
    <3>1. 1 * n <= n * n /\ n * n \in Nat
      BY Products
    <3>2. QED  BY <3>1
  <2>2. QED  BY <2>1
<1>2. \A m \in Int : m * s = (m * n) * n /\ m * n \in Int
  BY Products
<1>3. ASSUME x % s = 0
      PROVE  x % n = 0 /\ (x \div n) % n = 0
  <2> HIDE DEF s
  <2>1. PICK m \in Int : x = m * s
    <3>1. x \div s \in Int
      BY <1>1, Quotient
    <3>2. x = (x \div s) * s
      BY <1>1, <1>3, QuotientBefore
    <3>3. QED  BY <3>1, <3>2, Zenon
  <2>2. x = (m * n) * n /\ m * n \in Int
    BY <1>2, <2>1
  <2>3. x % n = 0 /\ x \div n = m * n
    BY <2>2, Multiple, Zenon
  <2>4. (m * n) % n = 0
    BY Multiple
  <2>5. QED  BY <2>3, <2>4
<1>4. ASSUME x % n = 0, (x \div n) % n = 0
      PROVE  x % s = 0
  <2> DEFINE q == x \div n
             m == q \div n
  <2>1. q \in Int /\ m \in Int /\ x = q * n /\ q = m * n
    <3>1. q \in Int
      BY Quotient
    <3>2. x = q * n
      BY <1>4, QuotientBefore
    <3>3. q % n = 0
      BY <1>4
    <3> HIDE DEF q
    <3>4. m \in Int /\ q = m * n
      BY <3>1, <3>3, Quotient, QuotientBefore
    <3>5. QED  BY <3>1, <3>2, <3>4
  <2> HIDE DEF q, m, s
  <2>2. x = m * s
    BY <1>2, <2>1
  <2>3. (m * s) % s = 0
    BY <1>1, <2>1, Multiple
  <2>4. QED  BY <2>2, <2>3
<1>5. QED  BY <1>3, <1>4 DEF s

-----------------------------------------------------------------------------
(* Concatenation *)

\* Concatenation under a name: the provers handle nested ones better.
Concat(a, b) == a \o b

\* Where three sequences are cut makes no difference.
LEMMA Associative ==
  ASSUME NEW S, NEW a \in Seq(S), NEW b \in Seq(S), NEW c \in Seq(S)
  PROVE  Concat(Concat(a, b), c) = Concat(a, Concat(b, c))
<1>1. /\ a \o b \in Seq(S) /\ b \o c \in Seq(S)
      /\ (a \o b) \o c \in Seq(S) /\ a \o (b \o c) \in Seq(S)
  OBVIOUS
<1>2. Len((a \o b) \o c) = Len(a \o (b \o c))
  OBVIOUS
<1>3. ASSUME NEW i \in 1 .. Len((a \o b) \o c)
      PROVE  ((a \o b) \o c)[i] = (a \o (b \o c))[i]
  OBVIOUS
<1>4. (a \o b) \o c = a \o (b \o c)
  BY <1>1, <1>2, <1>3, SeqEqual, Zenon
<1>5. QED  BY <1>4 DEF Concat

\* s has the elements of a, then those of b.
Joined(s, a, b) ==
    /\ Len(s) = Len(a) + Len(b)
    /\ \A i \in 1 .. Len(a) : s[i] = a[i]
    /\ \A i \in 1 .. Len(b) : s[Len(a) + i] = b[i]

\* The elements of a concatenation.
LEMMA JoinType ==
  ASSUME NEW S, NEW a \in Seq(S), NEW b \in Seq(S)
  PROVE  Concat(a, b) \in Seq(S) /\ Joined(Concat(a, b), a, b)
BY DEF Concat, Joined

\* Nothing added changes nothing.
LEMMA JoinEmpty ==
  ASSUME NEW S, NEW a \in Seq(S)
  PROVE  Concat(a, <<>>) = a /\ Concat(<<>>, a) = a
BY DEF Concat

\* The first n elements and the others.
LEMMA JoinCut ==
  ASSUME NEW S, NEW a \in Seq(S), NEW n \in 0 .. Len(a)
  PROVE  /\ SubSeq(a, 1, n) \in Seq(S) /\ Len(SubSeq(a, 1, n)) = n
         /\ SubSeq(a, n + 1, Len(a)) \in Seq(S) /\ Len(SubSeq(a, n + 1, Len(a))) = Len(a) - n
         /\ Concat(SubSeq(a, 1, n), SubSeq(a, n + 1, Len(a))) = a
<1> DEFINE b == SubSeq(a, 1, n)
           c == SubSeq(a, n + 1, Len(a))
           d == Concat(b, c)
<1>1. n \in Nat /\ Len(a) \in Nat /\ n <= Len(a)
  OBVIOUS
<1>2. b \in Seq(S) /\ Len(b) = n /\ \A i \in 1 .. n : b[i] = a[i]
  BY <1>1
<1>3. c \in Seq(S) /\ Len(c) = Len(a) - n /\ \A i \in 1 .. Len(a) - n : c[i] = a[n + i]
  BY <1>1
<1> HIDE DEF b, c
<1>4. /\ d \in Seq(S) /\ Len(d) = Len(b) + Len(c)
      /\ \A i \in 1 .. Len(b) : d[i] = b[i]
      /\ \A i \in 1 .. Len(c) : d[Len(b) + i] = c[i]
  <2>1. d \in Seq(S) /\ Joined(d, b, c)
    BY <1>2, <1>3, JoinType
  <2>2. QED  BY <2>1 DEF Joined
<1> HIDE DEF d
<1>5. ASSUME NEW i \in 1 .. Len(d)
      PROVE  d[i] = a[i]
  <2>1. CASE i <= n
    BY <1>1, <1>2, <1>4, <2>1
  <2>2. CASE ~(i <= n)
    <3>1. i - n \in 1 .. Len(a) - n /\ n + (i - n) = i
      BY <1>1, <1>2, <1>3, <1>4, <2>2
    <3>2. d[i] = c[i - n]
      BY <1>2, <1>3, <1>4, <3>1
    <3>3. c[i - n] = a[i]
      BY <1>3, <3>1
    <3>4. QED  BY <3>2, <3>3
  <2>3. QED  BY <2>1, <2>2
<1>6. Len(d) = Len(a)
  BY <1>1, <1>2, <1>3, <1>4
<1>7. d = a
  BY <1>4, <1>5, <1>6, SeqEqual
<1>8. QED  BY <1>2, <1>3, <1>7 DEF b, c, d

\* Two sequences joined tell which they were, if one of the lengths is known.
LEMMA JoinUnique ==
  ASSUME NEW S, NEW a \in Seq(S), NEW b \in Seq(S), NEW c \in Seq(S), NEW d \in Seq(S),
         Len(a) = Len(c), Concat(a, b) = Concat(c, d)
  PROVE  a = c /\ b = d
<1>1. /\ Len(Concat(a, b)) = Len(a) + Len(b) /\ Len(Concat(c, d)) = Len(c) + Len(d)
      /\ \A i \in 1 .. Len(a) : Concat(a, b)[i] = a[i]
      /\ \A i \in 1 .. Len(c) : Concat(c, d)[i] = c[i]
      /\ \A i \in 1 .. Len(b) : Concat(a, b)[Len(a) + i] = b[i]
      /\ \A i \in 1 .. Len(d) : Concat(c, d)[Len(c) + i] = d[i]
  <2>1. Joined(Concat(a, b), a, b) /\ Joined(Concat(c, d), c, d)
    BY JoinType
  <2>2. QED  BY <2>1 DEF Joined
<1>2. Len(b) = Len(d)
  BY <1>1
<1>3. a = c
  BY <1>1, SeqEqual
<1>4. \A i \in 1 .. Len(b) : b[i] = d[i]
  BY <1>1, <1>2
<1>5. b = d
  BY <1>2, <1>4, SeqEqual
<1>6. QED  BY <1>3, <1>5

\* An element moves from the head of one to the end of the other.
LEMMA JoinMove ==
  ASSUME NEW S, NEW a \in Seq(S), NEW b \in Seq(S), b # <<>>
  PROVE  /\ Append(a, Head(b)) \in Seq(S) /\ Tail(b) \in Seq(S)
         /\ Concat(Append(a, Head(b)), Tail(b)) = Concat(a, b)
<1> DEFINE x == Append(a, Head(b))
           y == Tail(b)
           s == Concat(x, y)
           t == Concat(a, b)
<1>1. /\ Len(a) \in Nat /\ Len(b) \in Nat \ {0} /\ Head(b) = b[1] /\ Head(b) \in S
      /\ y \in Seq(S) /\ Len(y) = Len(b) - 1 /\ \A i \in 1 .. Len(b) - 1 : y[i] = b[i + 1]
  OBVIOUS
<1>2. /\ x \in Seq(S) /\ Len(x) = Len(a) + 1 /\ x[Len(a) + 1] = b[1]
      /\ \A i \in 1 .. Len(a) : x[i] = a[i]
  BY <1>1
<1> HIDE DEF x, y
<1>3. /\ s \in Seq(S) /\ Len(s) = Len(x) + Len(y)
      /\ \A i \in 1 .. Len(x) : s[i] = x[i]
      /\ \A i \in 1 .. Len(y) : s[Len(x) + i] = y[i]
  <2>1. s \in Seq(S) /\ Joined(s, x, y)
    BY <1>1, <1>2, JoinType
  <2>2. QED  BY <2>1 DEF Joined
<1>4. /\ t \in Seq(S) /\ Len(t) = Len(a) + Len(b)
      /\ \A i \in 1 .. Len(a) : t[i] = a[i]
      /\ \A i \in 1 .. Len(b) : t[Len(a) + i] = b[i]
  <2>1. t \in Seq(S) /\ Joined(t, a, b)
    BY JoinType
  <2>2. QED  BY <2>1 DEF Joined
<1> HIDE DEF s, t
<1>5. ASSUME NEW i \in 1 .. Len(s)
      PROVE  s[i] = t[i]
  <2>1. CASE i <= Len(a)
    BY <1>1, <1>2, <1>3, <1>4, <2>1
  <2>2. CASE i = Len(a) + 1
    BY <1>1, <1>2, <1>3, <1>4, <2>2
  <2>3. CASE i > Len(a) + 1
    <3>1. /\ i - (Len(a) + 1) \in 1 .. Len(y) /\ Len(x) + (i - (Len(a) + 1)) = i
          /\ (i - (Len(a) + 1)) + 1 = i - Len(a) /\ i - Len(a) \in 1 .. Len(b)
          /\ Len(a) + (i - Len(a)) = i /\ i - (Len(a) + 1) \in 1 .. Len(b) - 1
      BY <1>1, <1>2, <1>3, <2>3
    <3>2. s[i] = y[i - (Len(a) + 1)]
      BY <1>3, <3>1
    <3>3. y[i - (Len(a) + 1)] = b[i - Len(a)]
      BY <1>1, <3>1
    <3>4. t[i] = b[i - Len(a)]
      BY <1>4, <3>1
    <3>5. QED  BY <3>2, <3>3, <3>4
  <2>4. QED  BY <1>1, <2>1, <2>2, <2>3
<1>6. Len(s) = Len(t)
  BY <1>1, <1>2, <1>3, <1>4
<1>7. s = t
  BY <1>3, <1>4, <1>5, <1>6, SeqEqual
<1>8. QED  BY <1>1, <1>2, <1>7 DEF x, y, s, t

-----------------------------------------------------------------------------
(* Sequences one behind the other *)

\* What is in a sequence of sequences, up to each of them.
IsFlat(f, w, n) == f = [i \in 1 .. n |-> IF i = 1 THEN w[i] ELSE f[i - 1] \o w[i]]

\* A flattening can be computed of any length.
LEMMA FlatExists ==
  ASSUME NEW w, NEW n \in Nat
  PROVE  \E f : IsFlat(f, w, n)
<1> DEFINE S == {k \in Nat : \E f : IsFlat(f, w, k)}
<1>1. 0 \in S
  <2>1. IsFlat([i \in 1 .. 0 |-> w], w, 0)
    BY DEF IsFlat
  <2>2. QED  BY <2>1
<1>2. ASSUME NEW k \in Nat, k \in S
      PROVE  k + 1 \in S
  <2>1. PICK f : IsFlat(f, w, k)
    BY <1>2
  <2> DEFINE g == [i \in 1 .. k + 1 |->
                     IF i # k + 1 THEN f[i] ELSE IF i = 1 THEN w[i] ELSE f[k] \o w[i]]
  <2>2. f = [i \in 1 .. k |-> IF i = 1 THEN w[i] ELSE f[i - 1] \o w[i]]
    BY <2>1 DEF IsFlat
  <2>3. ASSUME NEW i \in 1 .. k + 1
        PROVE  g[i] = IF i = 1 THEN w[i] ELSE g[i - 1] \o w[i]
    <3>1. CASE i # k + 1
      <4>1. i \in 1 .. k
        BY <3>1
      <4>2. f[i] = IF i = 1 THEN w[i] ELSE f[i - 1] \o w[i]
        BY <2>2, <4>1
      <4>3. g[i] = f[i]
        BY <3>1
      <4>4. i # 1 => g[i - 1] = f[i - 1]
        BY <4>1
      <4>5. QED  BY <4>2, <4>3, <4>4
    <3>2. CASE i = k + 1
      <4>1. g[i] = IF i = 1 THEN w[i] ELSE f[k] \o w[i]
        BY <3>2
      <4>2. i # 1 => g[i - 1] = f[k]
        BY <3>2
      <4>3. QED  BY <4>1, <4>2
    <3>3. QED  BY <3>1, <3>2
  <2>4. IsFlat(g, w, k + 1)
    <3>1. g = [i \in 1 .. k + 1 |-> g[i]]
      OBVIOUS
    <3> HIDE DEF g
    <3>2. [i \in 1 .. k + 1 |-> g[i]] =
             [i \in 1 .. k + 1 |-> IF i = 1 THEN w[i] ELSE g[i - 1] \o w[i]]
      BY <2>3
    <3>3. QED  BY <3>1, <3>2 DEF IsFlat
  <2>5. QED  BY <2>4
<1>3. Nat \subseteq S
  <2> HIDE DEF S
  <2>1. QED  BY <1>1, <1>2, Induction
<1>4. QED  BY <1>3

\* FlattenSeq takes the last of them.
LEMMA FlattenRuns ==
  ASSUME NEW S, NEW w \in Seq(Seq(S)), w # <<>>
  PROVE  \E f : IsFlat(f, w, Len(w)) /\ FlattenSeq(w) = f[Len(w)]
<1> DEFINE n == Len(w)
           r == CHOOSE f : IsFlat(f, w, n)
<1>1. n \in Nat /\ n # 0
  OBVIOUS
<1>2. IsFlat(r, w, n)
  <2>1. \E f : IsFlat(f, w, n)
    BY <1>1, FlatExists
  <2>2. QED  BY <2>1
<1>3. FlattenSeq(w) = r[n]
  BY <1>1 DEF FlattenSeq, IsFlat
<1>4. QED  BY <1>2, <1>3

\* What has been flattened depends on what came until there only.
LEMMA FlatUnique ==
  ASSUME NEW w, NEW x, NEW n \in Nat, NEW f, NEW g, IsFlat(f, w, n),
         NEW k \in Nat \ {0}, k <= n, IsFlat(g, x, k), \A i \in 1 .. k : w[i] = x[i]
  PROVE  f[k] = g[k]
<1> DEFINE S == {i \in Nat : i # 0 /\ i <= k => f[i] = g[i]}
<1>1. 0 \in S
  OBVIOUS
<1>2. ASSUME NEW i \in Nat, i \in S
      PROVE  i + 1 \in S
  <2> SUFFICES ASSUME i + 1 <= k
               PROVE  f[i + 1] = g[i + 1]
    OBVIOUS
  <2>1. i + 1 \in 1 .. n /\ i + 1 \in 1 .. k /\ (i + 1) - 1 = i /\ w[i + 1] = x[i + 1]
    OBVIOUS
  <2>2. f[i + 1] = IF i + 1 = 1 THEN w[i + 1] ELSE f[i] \o w[i + 1]
    BY <2>1 DEF IsFlat
  <2>3. g[i + 1] = IF i + 1 = 1 THEN x[i + 1] ELSE g[i] \o x[i + 1]
    BY <2>1 DEF IsFlat
  <2>4. i # 0 => f[i] = g[i]
    BY <1>2
  <2>5. QED  BY <2>1, <2>2, <2>3, <2>4
<1>3. Nat \subseteq S
  <2> HIDE DEF S
  <2>1. QED  BY <1>1, <1>2, Induction
<1>4. QED  BY <1>3

\* Nothing flattened is nothing.
LEMMA FlattenEmpty ==
  FlattenSeq(<<>>) = <<>>
BY DEF FlattenSeq

\* One sequence is itself.
LEMMA FlattenOne ==
  ASSUME NEW S, NEW a \in Seq(S)
  PROVE  FlattenSeq(<<a>>) = a
<1>1. <<a>> \in Seq(Seq(S)) /\ <<a>> # <<>> /\ Len(<<a>>) = 1 /\ <<a>>[1] = a
  OBVIOUS
<1>2. PICK f : IsFlat(f, <<a>>, 1) /\ FlattenSeq(<<a>>) = f[1]
  BY <1>1, FlattenRuns
<1>3. f[1] = <<a>>[1]
  BY <1>2 DEF IsFlat
<1>4. QED  BY <1>1, <1>2, <1>3

\* A sequence added comes last.
LEMMA FlattenAppend ==
  ASSUME NEW S, NEW w \in Seq(Seq(S)), NEW a \in Seq(S)
  PROVE  FlattenSeq(Append(w, a)) = FlattenSeq(w) \o a
<1>1. CASE w = <<>>
  <2>1. Append(w, a) = <<a>> /\ <<>> \o a = a
    BY <1>1
  <2>2. QED  BY <1>1, <2>1, FlattenEmpty, FlattenOne
<1>2. CASE w # <<>>
  <2> DEFINE n == Len(w)
             x == Append(w, a)
  <2>1. /\ n \in Nat \ {0} /\ x \in Seq(Seq(S)) /\ x # <<>> /\ Len(x) = n + 1
        /\ x[n + 1] = a
        /\ \A i \in 1 .. n : x[i] = w[i]
    BY <1>2
  <2>2. PICK f : IsFlat(f, x, n + 1) /\ FlattenSeq(x) = f[n + 1]
    BY <2>1, FlattenRuns
  <2>3. PICK g : IsFlat(g, w, n) /\ FlattenSeq(w) = g[n]
    BY <1>2, FlattenRuns
  <2> HIDE DEF n, x
  <2>4. f[n] = g[n]
    BY <2>1, <2>2, <2>3, FlatUnique
  <2>5. f[n + 1] = f[n] \o x[n + 1]
    <3>1. n + 1 # 1 /\ n + 1 \in 1 .. n + 1 /\ (n + 1) - 1 = n
      BY <2>1
    <3>2. QED  BY <2>2, <3>1 DEF IsFlat
  <2>6. QED  BY <2>1, <2>2, <2>3, <2>4, <2>5 DEF x
<1>3. QED  BY <1>1, <1>2

\* All its logs are logs, and the first stands in front of the others.
LEMMA FlattenHead ==
  ASSUME NEW S, NEW w \in Seq(Seq(S)), w # <<>>
  PROVE  FlattenSeq(Tail(w)) \in Seq(S) /\ FlattenSeq(w) = Head(w) \o FlattenSeq(Tail(w))
<1> DEFINE n == Len(w)
           x == Tail(w)
<1>1. /\ n \in Nat \ {0} /\ x \in Seq(Seq(S)) /\ Len(x) = n - 1 /\ Head(w) = w[1]
      /\ \A i \in 1 .. n - 1 : x[i] = w[i + 1]
      /\ \A i \in 1 .. n : w[i] \in Seq(S)
  OBVIOUS
<1>2. PICK f : IsFlat(f, w, n) /\ FlattenSeq(w) = f[n]
  BY FlattenRuns
<1>3. CASE x = <<>>
  <2>1. n = 1
    <3> HIDE DEF n, x
    <3>1. Len(x) = 0
      BY <1>3
    <3>2. QED  BY <1>1, <3>1
  <2>2. f[1] = w[1]
    BY <1>2, <2>1 DEF IsFlat
  <2>3. w[1] \o <<>> = w[1]
    BY <1>1
  <2>4. FlattenSeq(x) = <<>>
    BY <1>3, FlattenEmpty
  <2>5. <<>> \in Seq(S)
    OBVIOUS
  <2>6. FlattenSeq(w) = w[1]
    BY <1>2, <2>1, <2>2
  <2> HIDE DEF n, x
  <2>7. FlattenSeq(x) \in Seq(S) /\ FlattenSeq(w) = Head(w) \o FlattenSeq(x)
    BY <1>1, <2>3, <2>4, <2>5, <2>6
  <2>8. QED  BY <2>7 DEF x
<1>4. CASE x # <<>>
  <2>1. PICK g : IsFlat(g, x, n - 1) /\ FlattenSeq(x) = g[n - 1]
    BY <1>1, <1>4, FlattenRuns
  <2>2. n - 1 \in Nat \ {0}
    <3>1. Len(x) # 0
      BY <1>1, <1>4, EmptySeq
    <3>2. QED  BY <1>1, <3>1
  <2> HIDE DEF n, x
  <2> DEFINE T == {i \in Nat : i # 0 /\ i <= n - 1 =>
                                 g[i] \in Seq(S) /\ f[i + 1] = w[1] \o g[i]}
  <2>3. 0 \in T
    OBVIOUS
  <2>4. ASSUME NEW i \in Nat, i \in T
        PROVE  i + 1 \in T
    <3> SUFFICES ASSUME i + 1 <= n - 1
                 PROVE  g[i + 1] \in Seq(S) /\ f[i + 2] = w[1] \o g[i + 1]
      <4>1. (i + 1) + 1 = i + 2 /\ i + 1 \in Nat
        OBVIOUS
      <4>2. QED  BY <4>1
    <3>1. /\ i + 1 \in 1 .. n - 1 /\ (i + 1) - 1 = i
          /\ i + 2 \in 1 .. n /\ (i + 2) - 1 = i + 1 /\ i + 2 # 1 /\ (i + 1) + 1 = i + 2
      BY <1>1, <2>2
    <3>2. x[i + 1] = w[i + 2] /\ w[i + 2] \in Seq(S) /\ w[1] \in Seq(S)
      BY <1>1, <3>1
    <3>3. f[i + 2] = f[i + 1] \o w[i + 2]
      BY <1>2, <3>1 DEF IsFlat
    <3>4. CASE i = 0
      <4>1. f[1] = w[1] /\ g[1] = x[1]
        BY <1>1, <1>2, <2>1, <2>2 DEF IsFlat
      <4>2. i + 1 = 1
        BY <3>4
      <4>3. QED  BY <3>2, <3>3, <4>1, <4>2
    <3>5. CASE i # 0
      <4>1. g[i] \in Seq(S) /\ f[i + 1] = w[1] \o g[i]
        <5>1. i <= n - 1
          BY <1>1, <2>2
        <5>2. QED  BY <2>4, <3>5, <5>1
      <4>2. g[i + 1] = g[i] \o x[i + 1]
        <5>1. i + 1 # 1
          BY <3>5
        <5>2. QED  BY <2>1, <3>1, <5>1 DEF IsFlat
      <4>3. (w[1] \o g[i]) \o w[i + 2] = w[1] \o (g[i] \o w[i + 2])
        <5>1. w[1] \in Seq(S) /\ g[i] \in Seq(S) /\ w[i + 2] \in Seq(S)
          BY <3>2, <4>1
        <5>2. Concat(Concat(w[1], g[i]), w[i + 2]) = Concat(w[1], Concat(g[i], w[i + 2]))
          <6> HIDE DEF T
          <6> QED  BY <5>1, Associative
        <5>3. QED  BY <5>2 DEF Concat
      <4>4. g[i] \o w[i + 2] \in Seq(S)
        BY <3>2, <4>1
      <4>5. QED  BY <3>2, <3>3, <4>1, <4>2, <4>3, <4>4
    <3>6. QED  BY <3>4, <3>5
  <2>5. Nat \subseteq T
    <3> HIDE DEF T
    <3>1. QED  BY <2>3, <2>4, Induction
  <2>6. g[n - 1] \in Seq(S) /\ f[n] = w[1] \o g[n - 1]
    <3>1. n - 1 \in T
      <4> HIDE DEF T
      <4>1. QED  BY <2>2, <2>5
    <3>2. n - 1 # 0 /\ n - 1 <= n - 1 /\ (n - 1) + 1 = n
      BY <1>1, <2>2
    <3>3. QED  BY <3>1, <3>2
  <2>7. QED  BY <1>1, <1>2, <2>1, <2>6 DEF x
<1>5. QED  BY <1>3, <1>4

\* The elements keep their type.
LEMMA FlattenType ==
  ASSUME NEW S, NEW w \in Seq(Seq(S))
  PROVE  FlattenSeq(w) \in Seq(S)
<1>1. CASE w = <<>>
  <2>1. <<>> \in Seq(S)
    OBVIOUS
  <2>2. QED  BY <1>1, <2>1, FlattenEmpty
<1>2. CASE w # <<>>
  <2>1. FlattenSeq(Tail(w)) \in Seq(S) /\ FlattenSeq(w) = Head(w) \o FlattenSeq(Tail(w))
    BY <1>2, FlattenHead
  <2>2. Head(w) \in Seq(S)
    BY <1>2
  <2>3. QED  BY <2>1, <2>2
<1>3. QED  BY <1>1, <1>2

\* The second and the third of three sequences are found again in their concatenation.
LEMMA JoinPieces ==
  ASSUME NEW S, NEW a \in Seq(S), NEW b \in Seq(S), NEW c \in Seq(S)
  PROVE  LET s == Concat(a, Concat(b, c))
         IN  /\ SubSeq(s, Len(a) + 1, Len(a) + Len(b)) = b
             /\ SubSeq(s, Len(a) + Len(b) + 1, Len(s)) = c
<1> DEFINE m == Len(a)
           n == Len(b)
           k == Len(c)
           d == Concat(b, c)
<1>1. d \in Seq(S) /\ Joined(d, b, c)
  BY JoinType
<1>2. PICK s \in Seq(S) : s = Concat(a, d) /\ Joined(s, a, d)
  BY <1>1, JoinType
<1>3. m \in Nat /\ n \in Nat /\ k \in Nat
  OBVIOUS
<1>4. /\ Len(d) = n + k /\ \A i \in 1 .. n : d[i] = b[i]
      /\ \A i \in 1 .. k : d[n + i] = c[i]
  BY <1>1 DEF Joined
<1>5. Len(s) = m + (n + k) /\ \A i \in 1 .. n + k : s[m + i] = d[i]
  BY <1>2, <1>4 DEF Joined
<1> HIDE DEF d
<1>6. SubSeq(s, m + 1, m + n) = b
  <2> DEFINE x == SubSeq(s, m + 1, m + n)
  <2> HIDE DEF m, n, k
  <2>1. x \in Seq(S) /\ Len(x) = n /\ \A i \in 1 .. n : x[i] = s[m + i]
    BY <1>2, <1>3, <1>5
  <2>2. ASSUME NEW i \in 1 .. n
        PROVE  x[i] = b[i]
    <3>1. i \in 1 .. n + k
      BY <1>3
    <3>2. QED  BY <1>4, <1>5, <2>1, <3>1
  <2> HIDE DEF x
  <2>3. x = b
    BY <2>1, <2>2, SeqEqual DEF n
  <2>4. QED  BY <2>3 DEF x
<1>7. SubSeq(s, m + n + 1, Len(s)) = c
  <2> DEFINE x == SubSeq(s, m + n + 1, Len(s))
  <2> HIDE DEF m, n, k
  <2>1. x \in Seq(S) /\ Len(x) = k /\ \A i \in 1 .. k : x[i] = s[m + (n + i)]
    BY <1>2, <1>3, <1>5
  <2>2. ASSUME NEW i \in 1 .. k
        PROVE  x[i] = c[i]
    <3>1. n + i \in 1 .. n + k
      BY <1>3
    <3>2. QED  BY <1>4, <1>5, <2>1, <3>1
  <2> HIDE DEF x
  <2>3. x = c
    BY <2>1, <2>2, SeqEqual DEF k
  <2>4. QED  BY <2>3 DEF x
<1>8. QED  BY <1>2, <1>6, <1>7 DEF d


\* One more element of the second part is one more of the whole.
LEMMA JoinAppend ==
  ASSUME NEW S, NEW a \in Seq(S), NEW b \in Seq(S), NEW x \in S
  PROVE  Concat(a, Append(b, x)) = Append(Concat(a, b), x)
<1>1. PICK c \in Seq(S) : c = <<x>>
  <2>1. <<x>> \in Seq(S)
    OBVIOUS
  <2>2. QED  BY <2>1
<1>2. \A s \in Seq(S) : Append(s, x) = Concat(s, c)
  BY <1>1 DEF Concat
<1>3. Concat(a, b) \in Seq(S)
  BY JoinType
<1>4. Concat(Concat(a, b), c) = Concat(a, Concat(b, c))
  BY Associative
<1>5. QED  BY <1>2, <1>3, <1>4

\* The first part is the beginning.
LEMMA JoinPrefix ==
  ASSUME NEW S, NEW a \in Seq(S), NEW b \in Seq(S)
  PROVE  Len(a) \in 0 .. Len(Concat(a, b)) /\ SubSeq(Concat(a, b), 1, Len(a)) = a
<1>1. PICK s \in Seq(S) : s = Concat(a, b) /\ Joined(s, a, b)
  BY JoinType
<1>2. Len(a) \in Nat /\ Len(b) \in Nat /\ Len(s) = Len(a) + Len(b)
  BY <1>1 DEF Joined
<1>3. Len(a) \in 0 .. Len(s)
  BY <1>2
<1>4. PICK c \in Seq(S), d \in Seq(S) :
         c = SubSeq(s, 1, Len(a)) /\ Len(c) = Len(a) /\ Concat(c, d) = s
  <2>1. PICK n \in 0 .. Len(s) : n = Len(a)
    BY <1>3
  <2>2. /\ SubSeq(s, 1, n) \in Seq(S) /\ Len(SubSeq(s, 1, n)) = n
        /\ SubSeq(s, n + 1, Len(s)) \in Seq(S)
        /\ Concat(SubSeq(s, 1, n), SubSeq(s, n + 1, Len(s))) = s
    BY JoinCut
  <2>3. QED  BY <2>1, <2>2
<1>5. c = a
  BY <1>1, <1>4, JoinUnique
<1>6. QED  BY <1>1, <1>3, <1>4, <1>5


=============================================================================
