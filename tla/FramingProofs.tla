---------------------------- MODULE FramingProofs ----------------------------
(* Proofs about Framing, for any radix, sizes of buffers, names and payloads.       *)
EXTENDS Framing, DataLemmas

-----------------------------------------------------------------------------
(* Lengths as bytes *)

\* The radix and its use as a divisor.
LEMMA RadixIs ==
  Radix \in Nat \ {0} /\ Radix >= 2
BY FramingAssumption

\* What >>= 7 leaves is smaller; with the seven bits written it is the number.
LEMMA Shifted ==
  ASSUME NEW v \in Nat, v >= Radix
  PROVE  /\ v \div Radix \in Nat /\ v \div Radix < v
         /\ v % Radix \in 0 .. Radix - 1
         /\ (v % Radix) + Radix * (v \div Radix) = v
<1> DEFINE q == v \div Radix
           r == v % Radix
<1>1. q \in Nat /\ r \in 0 .. Radix - 1 /\ q * Radix + r = v
  <2>1. v \in Int /\ v >= 0 /\ Radix \in Nat \ {0}
    BY RadixIs
  <2>2. QED  BY <2>1, Quotient, Zenon
<1> HIDE DEF q, r
<1>2. Radix * q = q * Radix /\ q * Radix \in Nat
  BY <1>1, RadixIs
<1>3. q < v
  <2>1. CASE q = 0
    BY <2>1, RadixIs
  <2>2. CASE q # 0
    <3>1. q * Radix >= q * 2
      BY <1>1, RadixIs
    <3>2. q * 2 > q
      BY <1>1, <2>2
    <3>3. QED  BY <1>1, <1>2, <3>1, <3>2
  <2>3. QED  BY <2>1, <2>2
<1>4. QED  BY <1>1, <1>2, <1>3 DEF q, r

\* The bytes of a number, of those of the number without its lowest seven bits.
Encoded(f, v) ==
    IF v < Radix THEN <<v>> ELSE <<(v % Radix) + Radix>> \o f[v \div Radix]

EncodesTo(f, n) == \A v \in 0 .. n : f[v] = Encoded(f, v)

\* The bytes of all numbers up to n can be written down ...
LEMMA EncodesExists ==
  ASSUME NEW n \in Nat
  PROVE  \E f : EncodesTo(f, n)
<1> DEFINE S == {k \in Nat : \E f : EncodesTo(f, k)}
<1>1. 0 \in S
  <2>1. EncodesTo([v \in {0} |-> <<0>>], 0)
    BY RadixIs DEF EncodesTo, Encoded
  <2>2. QED  BY <2>1
<1>2. ASSUME NEW k \in Nat, k \in S
      PROVE  k + 1 \in S
  <2>1. PICK f : EncodesTo(f, k)
    BY <1>2
  <2>2. PICK e : e = Encoded(f, k + 1)
    OBVIOUS
  <2> DEFINE g == [v \in 0 .. k + 1 |-> IF v = k + 1 THEN e ELSE f[v]]
  <2>3. g[k + 1] = e /\ \A v \in 0 .. k : g[v] = f[v]
    OBVIOUS
  <2> HIDE DEF g
  <2>4. ASSUME NEW v \in 0 .. k + 1
        PROVE  Encoded(g, v) = Encoded(f, v)
    <3>1. CASE v < Radix
      BY <3>1 DEF Encoded
    <3>2. CASE ~(v < Radix)
      <4>1. v \in Nat /\ v >= Radix
        BY <3>2, RadixIs
      <4>2. v \div Radix \in Nat /\ v \div Radix < v
        BY <4>1, Shifted
      <4>3. PICK q \in Nat : q = v \div Radix
        BY <4>2
      <4>4. q \in 0 .. k
        BY <4>2, <4>3
      <4>5. g[v \div Radix] = f[v \div Radix]
        BY <2>3, <4>3, <4>4
      <4>6. QED  BY <3>2, <4>5 DEF Encoded
    <3>3. QED  BY <3>1, <3>2
  <2>5. ASSUME NEW v \in 0 .. k + 1
        PROVE  g[v] = Encoded(g, v)
    <3>1. CASE v = k + 1
      BY <2>2, <2>3, <2>4, <3>1
    <3>2. CASE v # k + 1
      <4>1. v \in 0 .. k
        BY <3>2
      <4>2. QED  BY <2>1, <2>3, <2>4, <4>1 DEF EncodesTo
    <3>3. QED  BY <3>1, <3>2
  <2>6. EncodesTo(g, k + 1)
    BY <2>5 DEF EncodesTo
  <2>7. QED  BY <2>6
<1>3. Nat \subseteq S
  <2> HIDE DEF S
  <2>1. QED  BY <1>1, <1>2, Induction
<1>4. QED  BY <1>3

\* ... in one way.
LEMMA EncodesUnique ==
  ASSUME NEW m \in Nat, NEW n \in Nat, NEW f, NEW g, EncodesTo(f, m), EncodesTo(g, n),
         NEW v \in Nat, v <= m, v <= n
  PROVE  f[v] = g[v]
<1> DEFINE S == {k \in Nat : \A w \in 0 .. k : w <= m /\ w <= n => f[w] = g[w]}
<1>1. ASSUME NEW w \in Nat, w <= m, w <= n,
             \A u \in Nat : u < w => f[u] = g[u]
      PROVE  f[w] = g[w]
  <2>1. f[w] = Encoded(f, w) /\ g[w] = Encoded(g, w)
    BY <1>1 DEF EncodesTo
  <2>2. Encoded(f, w) = Encoded(g, w)
    <3>1. CASE w < Radix
      BY <3>1 DEF Encoded
    <3>2. CASE ~(w < Radix)
      <4>1. w \div Radix \in Nat /\ w \div Radix < w
        BY <3>2, RadixIs, Shifted
      <4>2. f[w \div Radix] = g[w \div Radix]
        BY <1>1, <4>1
      <4>3. QED  BY <3>2, <4>2 DEF Encoded
    <3>3. QED  BY <3>1, <3>2
  <2>3. QED  BY <2>1, <2>2
<1>2. 0 \in S
  <2>1. \A u \in Nat : u < 0 => f[u] = g[u]
    OBVIOUS
  <2>2. f[0] = g[0]
    BY <1>1, <2>1
  <2>3. QED  BY <2>2
<1>3. ASSUME NEW k \in Nat, k \in S
      PROVE  k + 1 \in S
  <2>1. \A w \in 0 .. k : w <= m /\ w <= n => f[w] = g[w]
    BY <1>3
  <2>2. k + 1 <= m /\ k + 1 <= n => f[k + 1] = g[k + 1]
    BY <1>1, <2>1
  <2>3. QED  BY <2>1, <2>2
<1>4. Nat \subseteq S
  <2> HIDE DEF S
  <2>1. QED  BY <1>2, <1>3, Induction
<1>5. v \in S
  <2> HIDE DEF S
  <2>1. QED  BY <1>4
<1>6. QED  BY <1>5

\* write_7bit_encoded_int is defined by its equation.
LEMMA Written ==
  ASSUME NEW v \in Nat
  PROVE  write_7bit_encoded_int[v] = Encoded(write_7bit_encoded_int, v)
<1> DEFINE F(n) == CHOOSE f : EncodesTo(f, n)
           g == [n \in Nat |-> F(n)[n]]
           Is(h) == h = [value \in Nat |-> Encoded(h, value)]
<1>1. \A n \in Nat : EncodesTo(F(n), n)
  BY EncodesExists
<1>2. ASSUME NEW n \in Nat
      PROVE  g[n] = Encoded(g, n)
  <2>1. g[n] = F(n)[n]
    OBVIOUS
  <2>2. F(n)[n] = Encoded(F(n), n)
    BY <1>1 DEF EncodesTo
  <2>3. Encoded(F(n), n) = Encoded(g, n)
    <3>1. CASE n < Radix
      BY <3>1 DEF Encoded
    <3>2. CASE ~(n < Radix)
      <4>1. n \div Radix \in Nat /\ n \div Radix < n
        BY <3>2, RadixIs, Shifted
      <4>2. PICK q \in Nat : q = n \div Radix
        BY <4>1
      <4>3. g[q] = F(q)[q]
        OBVIOUS
      <4> HIDE DEF F
      <4>4. F(n)[q] = F(q)[q]
        BY <1>1, <4>1, <4>2, EncodesUnique
      <4>5. F(n)[n \div Radix] = g[n \div Radix]
        BY <4>2, <4>3, <4>4
      <4> HIDE DEF g
      <4>6. QED  BY <3>2, <4>5 DEF Encoded
    <3>3. QED  BY <3>1, <3>2
  <2>4. QED  BY <2>1, <2>2, <2>3
<1>3. Is(g)
  <2>1. g = [n \in Nat |-> g[n]]
    OBVIOUS
  <2> HIDE DEF g
  <2>2. [n \in Nat |-> g[n]] = [n \in Nat |-> Encoded(g, n)]
    BY <1>2
  <2>3. QED  BY <2>1, <2>2
<1>4. write_7bit_encoded_int = CHOOSE h : Is(h)
  BY DEF write_7bit_encoded_int, Encoded
<1>5. Is(write_7bit_encoded_int)
  BY <1>3, <1>4
<1>6. QED  BY <1>5

\* The first n bytes of s are a number.
Ends(s, n) == n \in 1 .. Len(s) /\ ~More(s[n]) /\ \A i \in 1 .. n - 1 : More(s[i])

\* What the bytes from each on are worth.
IsValue(f, s, n) ==
    f = [i \in 1 .. n |-> IF i = n THEN s[i] ELSE (s[i] - Radix) + Radix * f[i + 1]]

\* What is written for v is a number, and v when it is read.
Readable(v) ==
    LET e == write_7bit_encoded_int[v]
    IN  /\ e \in Bytes
        /\ Ends(e, Len(e))
        /\ \E f : IsValue(f, e, Len(e)) /\ f[1] = v

\* A number below the radix is its own byte.
LEMMA ReadableShort ==
  ASSUME NEW v \in Nat, v < Radix
  PROVE  Readable(v)
<1> DEFINE e == write_7bit_encoded_int[v]
<1>1. e = <<v>>
  BY Written DEF Encoded
<1>2. v \in 0 .. (2 * Radix - 1)
  BY RadixIs
<1> HIDE DEF e
<1>3. e \in Bytes /\ Len(e) = 1 /\ e[1] = v
  BY <1>1, <1>2 DEF Bytes
<1>4. Ends(e, Len(e))
  BY <1>3, RadixIs DEF Ends, More
<1> DEFINE f == [i \in 1 .. 1 |-> v]
<1>5. f[1] = v
  OBVIOUS
<1>6. f = [i \in 1 .. 1 |-> IF i = 1 THEN e[i] ELSE (e[i] - Radix) + Radix * f[i + 1]]
  BY <1>3
<1> HIDE DEF f
<1>7. IsValue(f, e, Len(e))
  BY <1>3, <1>6 DEF IsValue
<1>8. QED  BY <1>3, <1>4, <1>5, <1>7 DEF Readable, e

\* Another byte in front reads as another seven bits.
LEMMA ReadableLong ==
  ASSUME NEW v \in Nat, v >= Radix, Readable(v \div Radix)
  PROVE  Readable(v)
<1> DEFINE q == v \div Radix
           r == v % Radix
           d == write_7bit_encoded_int[q]
           e == write_7bit_encoded_int[v]
           n == Len(d)
<1>1. /\ q \in Nat /\ r \in 0 .. Radix - 1 /\ r + Radix * q = v
  BY Shifted
<1>2. e = <<r + Radix>> \o d
  <2>1. ~(v < Radix)
    BY RadixIs
  <2>2. QED  BY <2>1, Written DEF Encoded
<1>3. d \in Bytes /\ Ends(d, n) /\ \E g : IsValue(g, d, n) /\ g[1] = q
  BY DEF Readable
<1> HIDE DEF q, r, d, e
<1>4. r + Radix \in 0 .. (2 * Radix - 1) /\ r + Radix >= Radix /\ (r + Radix) - Radix = r
  BY <1>1, RadixIs
<1>5. /\ e \in Bytes /\ Len(e) = n + 1 /\ e[1] = r + Radix /\ n \in Nat
      /\ \A i \in 1 .. n : e[i + 1] = d[i]
  BY <1>2, <1>3, <1>4 DEF Bytes
<1>6. n \in Nat \ {0} /\ ~More(d[n]) /\ \A i \in 1 .. n - 1 : More(d[i])
  BY <1>3, <1>5 DEF Ends
<1> HIDE DEF n
<1>7. Ends(e, n + 1)
  <2>1. More(e[1])
    BY <1>4, <1>5 DEF More
  <2>2. ~More(e[n + 1])
    <3>1. e[n + 1] = d[n]
      BY <1>5, <1>6
    <3>2. QED  BY <1>6, <3>1
  <2>3. ASSUME NEW i \in 1 .. (n + 1) - 1
        PROVE  More(e[i])
    <3>1. CASE i = 1
      BY <2>1, <3>1
    <3>2. CASE i # 1
      <4>1. i - 1 \in 1 .. n - 1 /\ i - 1 \in 1 .. n /\ (i - 1) + 1 = i
        BY <1>6, <3>2
      <4>2. e[i] = d[i - 1]
        BY <1>5, <4>1
      <4>3. QED  BY <1>6, <4>1, <4>2
    <3>3. QED  BY <3>1, <3>2
  <2>4. n + 1 \in 1 .. Len(e)
    BY <1>5
  <2>5. QED  BY <2>2, <2>3, <2>4 DEF Ends
<1>8. PICK g : IsValue(g, d, n) /\ g[1] = q
  BY <1>3
<1> DEFINE f == [i \in 1 .. n + 1 |-> IF i = 1 THEN v ELSE g[i - 1]]
<1>9. f[1] = v /\ \A i \in 1 .. n : f[i + 1] = g[i]
  BY <1>6
<1>10. f = [i \in 1 .. n + 1 |-> f[i]]
  OBVIOUS
<1> HIDE DEF f
<1>11. ASSUME NEW i \in 1 .. n + 1
       PROVE  f[i] = IF i = n + 1 THEN e[i] ELSE (e[i] - Radix) + Radix * f[i + 1]
  <2>1. CASE i = 1
    <3>1. 1 \in 1 .. n /\ i # n + 1
      BY <1>6, <2>1
    <3>2. f[1 + 1] = q
      BY <1>8, <1>9, <3>1
    <3>3. e[1] - Radix = r
      BY <1>4, <1>5
    <3>4. f[1] = (e[1] - Radix) + Radix * f[1 + 1]
      BY <1>1, <1>9, <3>2, <3>3
    <3>5. QED  BY <2>1, <3>1, <3>4
  <2>2. CASE i # 1
    <3>1. PICK j \in 1 .. n : i = j + 1
      <4>1. i - 1 \in 1 .. n /\ i = (i - 1) + 1
        BY <1>6, <2>2
      <4>2. QED  BY <4>1
    <3>2. g[j] = IF j = n THEN d[j] ELSE (d[j] - Radix) + Radix * g[j + 1]
      BY <1>8 DEF IsValue
    <3>3. f[i] = g[j] /\ e[i] = d[j]
      BY <1>5, <1>9, <3>1
    <3>4. CASE j = n
      BY <3>1, <3>2, <3>3, <3>4
    <3>5. CASE j # n
      <4>1. i # n + 1 /\ j + 1 \in 1 .. n
        BY <1>6, <3>1, <3>5
      <4>2. f[i + 1] = g[j + 1]
        BY <1>9, <3>1, <4>1
      <4>3. g[j] = (d[j] - Radix) + Radix * g[j + 1]
        BY <3>2, <3>5
      <4>4. f[i] = (e[i] - Radix) + Radix * f[i + 1]
        BY <3>3, <4>2, <4>3
      <4>5. QED  BY <4>1, <4>4
    <3>6. QED  BY <3>4, <3>5
  <2>3. QED  BY <2>1, <2>2
<1>12. IsValue(f, e, n + 1)
  <2>1. [i \in 1 .. n + 1 |-> f[i]] =
           [i \in 1 .. n + 1 |-> IF i = n + 1 THEN e[i] ELSE (e[i] - Radix) + Radix * f[i + 1]]
    BY <1>11
  <2>2. QED  BY <1>10, <2>1 DEF IsValue
<1>13. QED  BY <1>5, <1>7, <1>9, <1>12 DEF Readable, e

\* read_7bit_encoded_int inverts write_7bit_encoded_int, for every number.
LEMMA AllReadable ==
  ASSUME NEW v \in Nat
  PROVE  Readable(v)
<1> DEFINE S == {k \in Nat : \A w \in 0 .. k : Readable(w)}
<1>1. ASSUME NEW w \in Nat, \A u \in Nat : u < w => Readable(u)
      PROVE  Readable(w)
  <2>1. CASE w < Radix
    BY <2>1, ReadableShort
  <2>2. CASE w >= Radix
    <3>1. w \div Radix \in Nat /\ w \div Radix < w
      BY <2>2, Shifted
    <3>2. Readable(w \div Radix)
      BY <1>1, <3>1
    <3>3. QED  BY <2>2, <3>2, ReadableLong
  <2>3. QED  BY <2>1, <2>2, RadixIs
<1>2. 0 \in S
  <2>1. \A u \in Nat : u < 0 => Readable(u)
    OBVIOUS
  <2>2. Readable(0)
    BY <1>1, <2>1
  <2>3. QED  BY <2>2
<1>3. ASSUME NEW k \in Nat, k \in S
      PROVE  k + 1 \in S
  <2>1. \A w \in 0 .. k : Readable(w)
    BY <1>3
  <2>2. Readable(k + 1)
    BY <1>1, <2>1
  <2>3. QED  BY <2>1, <2>2
<1>4. Nat \subseteq S
  <2> HIDE DEF S
  <2>1. QED  BY <1>2, <1>3, Induction
<1>5. v \in S
  <2> HIDE DEF S
  <2>1. QED  BY <1>4
<1>6. QED  BY <1>5

\* The bytes of a number decide what it is worth.
LEMMA ValueUnique ==
  ASSUME NEW n \in Nat \ {0}, NEW s, NEW t, \A i \in 1 .. n : s[i] = t[i],
         NEW f, NEW g, IsValue(f, s, n), IsValue(g, t, n)
  PROVE  f[1] = g[1]
<1> DEFINE S == {j \in Nat : j < n => f[n - j] = g[n - j]}
<1>1. 0 \in S
  <2>1. n \in 1 .. n /\ n - 0 = n
    OBVIOUS
  <2>2. f[n] = s[n] /\ g[n] = t[n]
    BY <2>1 DEF IsValue
  <2>3. QED  BY <2>1, <2>2
<1>2. ASSUME NEW j \in Nat, j \in S
      PROVE  j + 1 \in S
  <2> SUFFICES ASSUME j + 1 < n
               PROVE  f[n - (j + 1)] = g[n - (j + 1)]
    OBVIOUS
  <2>1. PICK i \in 1 .. n : i = n - (j + 1) /\ i # n /\ i + 1 = n - j
    <3>1. n - (j + 1) \in 1 .. n /\ n - (j + 1) # n /\ (n - (j + 1)) + 1 = n - j
      OBVIOUS
    <3>2. QED  BY <3>1
  <2>2. f[i + 1] = g[i + 1]
    BY <1>2, <2>1
  <2>3. f[i] = (s[i] - Radix) + Radix * f[i + 1]
    BY <2>1 DEF IsValue
  <2>4. g[i] = (t[i] - Radix) + Radix * g[i + 1]
    BY <2>1 DEF IsValue
  <2>5. f[i] = g[i]
    BY <2>2, <2>3, <2>4
  <2>6. QED  BY <2>1, <2>5
<1>3. Nat \subseteq S
  <2> HIDE DEF S
  <2>1. QED  BY <1>1, <1>2, Induction
<1>4. n - 1 \in S
  <2> HIDE DEF S
  <2>1. QED  BY <1>3
<1>5. n - (n - 1) = 1
  OBVIOUS
<1>6. QED  BY <1>4, <1>5

\* Only one number begins a sequence.
LEMMA EndsUnique ==
  ASSUME NEW s \in Bytes, NEW m, NEW n, Ends(s, m), Ends(s, n)
  PROVE  m = n
<1>1. Len(s) \in Nat
  BY DEF Bytes
<1>2. m \in 1 .. Len(s) /\ n \in 1 .. Len(s)
  BY DEF Ends
<1>3. ~(m < n)
  <2>1. m < n => m \in 1 .. n - 1
    BY <1>1, <1>2
  <2>2. QED  BY <2>1 DEF Ends
<1>4. ~(n < m)
  <2>1. n < m => n \in 1 .. m - 1
    BY <1>1, <1>2
  <2>2. QED  BY <2>1 DEF Ends
<1>5. QED  BY <1>1, <1>2, <1>3, <1>4

\* EncodedLen finds where a number ends.
LEMMA EncodedLenIs ==
  ASSUME NEW s \in Bytes, NEW n, Ends(s, n)
  PROVE  EncodedLen(s) = n
<1> DEFINE Q(i) == ~More(s[i]) /\ \A j \in 1 .. (i - 1) : More(s[j])
<1>1. n \in 1 .. Len(s) /\ Q(n)
  BY DEF Ends
<1>2. EncodedLen(s) = CHOOSE i \in 1 .. Len(s) : Q(i)
  BY DEF EncodedLen
<1>3. \A i \in 1 .. Len(s) : Q(i) => Ends(s, i)
  BY DEF Ends
<1> HIDE DEF Q
<1>4. EncodedLen(s) \in 1 .. Len(s) /\ Q(EncodedLen(s))
  BY <1>1, <1>2
<1>5. Ends(s, EncodedLen(s))
  BY <1>3, <1>4
<1>6. QED  BY <1>5, EndsUnique

\* The bytes of a length.
Enc(v) == write_7bit_encoded_int[v]

\* The bytes of a length are bytes, one at least, and end as a number does.
LEMMA EncType ==
  ASSUME NEW v \in Nat
  PROVE  Enc(v) \in Bytes /\ Len(Enc(v)) \in Nat \ {0} /\ Ends(Enc(v), Len(Enc(v)))
<1>1. Enc(v) \in Bytes /\ Ends(Enc(v), Len(Enc(v)))
  BY AllReadable DEF Readable, Enc
<1>2. Len(Enc(v)) \in Nat
  BY <1>1 DEF Bytes
<1>3. QED  BY <1>1, <1>2 DEF Ends

\* A length is read from the front of what follows it.
LEMMA EncEnds ==
  ASSUME NEW v \in Nat, NEW z \in Bytes
  PROVE  /\ Concat(Enc(v), z) \in Bytes /\ Ends(Concat(Enc(v), z), Len(Enc(v)))
         /\ \A i \in 1 .. Len(Enc(v)) : Concat(Enc(v), z)[i] = Enc(v)[i]
<1>1. PICK e \in Bytes : e = Enc(v)
  BY EncType
<1>2. PICK s : s = Concat(e, z)
  OBVIOUS
<1>3. s \in Bytes /\ Joined(s, e, z)
  BY <1>1, <1>2, JoinType DEF Bytes
<1>4. Ends(e, Len(e)) /\ Len(e) \in Nat \ {0} /\ Len(z) \in Nat
  BY <1>1, EncType DEF Bytes
<1>5. Len(e) \in 1 .. Len(s) /\ \A i \in 1 .. Len(e) : s[i] = e[i]
  BY <1>3, <1>4 DEF Joined
<1>6. Ends(s, Len(e))
  <2>1. Len(e) \in 1 .. Len(e) /\ \A i \in 1 .. Len(e) - 1 : i \in 1 .. Len(e)
    BY <1>4
  <2>2. QED  BY <1>4, <1>5, <2>1 DEF Ends
<1>7. QED  BY <1>1, <1>2, <1>3, <1>5, <1>6

\* A length is read right whatever follows it.
LEMMA ReadIs ==
  ASSUME NEW v \in Nat, NEW z \in Bytes
  PROVE  /\ EncodedLen(Concat(Enc(v), z)) = Len(Enc(v))
         /\ read_7bit_encoded_int(Concat(Enc(v), z)) = v
<1>1. PICK s \in Bytes : s = Concat(Enc(v), z)
  BY EncEnds
<1>2. PICK n \in Nat \ {0} : n = Len(Enc(v))
  BY EncType
<1>3. EncodedLen(s) = n /\ \A i \in 1 .. n : Enc(v)[i] = s[i]
  BY <1>1, <1>2, EncEnds, EncodedLenIs
<1>4. PICK g : IsValue(g, Enc(v), n) /\ g[1] = v
  BY <1>2, AllReadable DEF Readable, Enc
<1> DEFINE r == CHOOSE f : IsValue(f, s, n)
<1>5. read_7bit_encoded_int(s) = r[1]
  BY <1>3 DEF read_7bit_encoded_int, IsValue
<1>6. IsValue(g, s, n)
  <2>1. [i \in 1 .. n |-> IF i = n THEN s[i] ELSE (s[i] - Radix) + Radix * g[i + 1]]
          = [i \in 1 .. n |-> IF i = n THEN Enc(v)[i] ELSE (Enc(v)[i] - Radix) + Radix * g[i + 1]]
    BY <1>3
  <2>2. QED  BY <1>4, <2>1 DEF IsValue
<1>7. IsValue(r, s, n)
  BY <1>6
<1> HIDE DEF r
<1>8. r[1] = g[1]
  BY <1>6, <1>7, ValueUnique
<1>9. QED  BY <1>1, <1>2, <1>3, <1>4, <1>5, <1>8

\* Bytes that end as a length does, in front of a stream, are the length.
LEMMA EncPrefix ==
  ASSUME NEW p \in Bytes, Ends(p, Len(p)), NEW q \in Bytes, NEW v \in Nat, NEW z \in Bytes,
         Concat(p, q) = Concat(Enc(v), z)
  PROVE  p = Enc(v) /\ q = z
<1>1. PICK s \in Bytes : s = Concat(Enc(v), z) /\ Ends(s, Len(Enc(v)))
  BY EncEnds
<1>2. Joined(s, p, q)
  BY <1>1, JoinType DEF Bytes
<1>3. Len(p) \in Nat /\ Len(q) \in Nat /\ Len(p) \in 1 .. Len(p)
  BY DEF Bytes, Ends
<1>4. Ends(s, Len(p))
  <2>1. \A i \in 1 .. Len(p) - 1 : i \in 1 .. Len(p)
    BY <1>3
  <2>2. Len(p) \in 1 .. Len(s) /\ \A i \in 1 .. Len(p) : s[i] = p[i]
    BY <1>2, <1>3 DEF Joined
  <2>3. QED  BY <1>3, <2>1, <2>2 DEF Ends
<1>5. Len(p) = Len(Enc(v))
  BY <1>1, <1>4, EndsUnique
<1>6. PICK e \in Bytes : e = Enc(v)
  BY EncType
<1>7. p = e /\ q = z
  BY <1>5, <1>6, JoinUnique DEF Bytes
<1>8. QED  BY <1>6, <1>7

\* A length and what follows it can be told apart in one way.
LEMMA EncUnique ==
  ASSUME NEW u \in Nat, NEW y \in Bytes, NEW v \in Nat, NEW z \in Bytes,
         Concat(Enc(u), y) = Concat(Enc(v), z)
  PROVE  u = v /\ y = z
<1>1. u = v
  BY ReadIs
<1>2. PICK e \in Bytes : e = Enc(v)
  BY EncType
<1>3. y = z
  BY <1>1, <1>2, JoinUnique DEF Bytes
<1>4. QED  BY <1>1, <1>3

\* Bytes that are all of a length but its end are shorter.
LEMMA EncLonger ==
  ASSUME NEW p \in Bytes, \A i \in 1 .. Len(p) : More(p[i]), NEW q \in Bytes,
         NEW v \in Nat, NEW z \in Bytes, Concat(p, q) = Concat(Enc(v), z)
  PROVE  Len(p) < Len(Enc(v))
<1>1. PICK s \in Bytes : s = Concat(Enc(v), z) /\ Ends(s, Len(Enc(v)))
  BY EncEnds
<1>2. Joined(s, p, q)
  BY <1>1, JoinType DEF Bytes
<1>3. Len(p) \in Nat /\ Len(Enc(v)) \in Nat \ {0}
  BY EncType DEF Bytes
<1>4. CASE Len(Enc(v)) \in 1 .. Len(p)
  BY <1>1, <1>2, <1>4 DEF Joined, Ends
<1>5. QED  BY <1>3, <1>4

-----------------------------------------------------------------------------
(* Frames *)

\* What a message is to the stream: some bytes, which a buffer must have room for.
Package == {b \in Bytes : Len(b) \in 1 .. SendBufferSize}

Frame(b) == Concat(Enc(Len(b)), b)

Stream(bs) == FlattenSeq([i \in 1 .. Len(bs) |-> Frame(bs[i])])

\* A frame is bytes.
LEMMA FrameType ==
  ASSUME NEW b \in Package
  PROVE  Frame(b) \in Bytes
<1>1. b \in Bytes /\ Len(b) \in Nat
  BY FramingAssumption DEF Package
<1>2. PICK e \in Bytes : e = Enc(Len(b))
  BY <1>1, EncType
<1>3. QED  BY <1>1, <1>2, JoinType DEF Bytes, Frame

\* The frames of some packages.
LEMMA FramesType ==
  ASSUME NEW bs \in Seq(Package), NEW fs, fs = [i \in 1 .. Len(bs) |-> Frame(bs[i])]
  PROVE  /\ fs \in Seq(Bytes) /\ Len(fs) = Len(bs)
         /\ \A i \in 1 .. Len(bs) : fs[i] = Frame(bs[i])
<1>1. \A i \in 1 .. Len(bs) : Frame(bs[i]) \in Bytes
  BY FrameType
<1>2. QED  BY <1>1

\* No frames, no bytes.
LEMMA StreamEmpty ==
  Stream(<<>>) = <<>>
<1>1. [i \in 1 .. Len(<<>>) |-> Frame(<<>>[i])] = <<>>
  OBVIOUS
<1>2. QED  BY <1>1, FlattenEmpty DEF Stream

\* A stream is bytes.
LEMMA StreamType ==
  ASSUME NEW bs \in Seq(Package)
  PROVE  Stream(bs) \in Bytes
<1>1. PICK fs : fs = [i \in 1 .. Len(bs) |-> Frame(bs[i])]
  OBVIOUS
<1>2. fs \in Seq(Bytes)
  BY <1>1, FramesType
<1>3. FlattenSeq(fs) \in Bytes
  BY <1>2, FlattenType DEF Bytes
<1>4. QED  BY <1>1, <1>3 DEF Stream

\* A stream begins with its first frame.
LEMMA StreamHead ==
  ASSUME NEW bs \in Seq(Package), bs # <<>>
  PROVE  Stream(bs) = Concat(Frame(Head(bs)), Stream(Tail(bs)))
<1>1. PICK fs : fs = [i \in 1 .. Len(bs) |-> Frame(bs[i])]
  OBVIOUS
<1>2. PICK cs \in Seq(Package) : cs = Tail(bs)
  <2>1. Tail(bs) \in Seq(Package)
    BY HeadTailProperties
  <2>2. QED  BY <2>1
<1>3. PICK gs : gs = [i \in 1 .. Len(cs) |-> Frame(cs[i])]
  OBVIOUS
<1>4. /\ Len(bs) \in Nat \ {0} /\ Len(cs) = Len(bs) - 1 /\ Head(bs) = bs[1]
      /\ \A i \in 1 .. Len(bs) - 1 : cs[i] = bs[i + 1]
  BY <1>2
<1>5. fs \in Seq(Bytes) /\ Len(fs) = Len(bs) /\ \A i \in 1 .. Len(bs) : fs[i] = Frame(bs[i])
  BY <1>1, FramesType
<1>6. gs \in Seq(Bytes) /\ Len(gs) = Len(cs) /\ \A i \in 1 .. Len(cs) : gs[i] = Frame(cs[i])
  BY <1>3, FramesType
<1>7. fs # <<>> /\ Head(fs) = Frame(Head(bs))
  BY <1>4, <1>5
<1>8. Tail(fs) = gs
  <2>1. PICK ts : ts = Tail(fs)
    OBVIOUS
  <2>2. /\ ts \in Seq(Bytes) /\ Len(ts) = Len(fs) - 1
        /\ \A i \in 1 .. Len(fs) - 1 : ts[i] = fs[i + 1]
    BY <1>5, <1>7, <2>1
  <2>3. ASSUME NEW i \in 1 .. Len(ts)
        PROVE  ts[i] = gs[i]
    <3>1. i \in 1 .. Len(bs) - 1 /\ i + 1 \in 1 .. Len(bs) /\ i \in 1 .. Len(cs)
      BY <1>4, <1>5, <2>2
    <3>2. ts[i] = Frame(bs[i + 1])
      BY <1>5, <2>2, <3>1
    <3>3. gs[i] = Frame(bs[i + 1])
      BY <1>4, <1>6, <3>1
    <3>4. QED  BY <3>2, <3>3
  <2>4. Len(ts) = Len(gs)
    BY <1>4, <1>5, <1>6, <2>2
  <2>5. ts = gs
    BY <1>6, <2>2, <2>3, <2>4, SeqEqual
  <2>6. QED  BY <2>1, <2>5
<1>9. FlattenSeq(fs) = Concat(Head(fs), FlattenSeq(Tail(fs)))
  BY <1>5, <1>7, FlattenHead DEF Bytes, Concat
<1>10. QED  BY <1>1, <1>2, <1>3, <1>7, <1>8, <1>9 DEF Stream

\* A further frame is added at the end.
LEMMA StreamAppend ==
  ASSUME NEW bs \in Seq(Package), NEW b \in Package
  PROVE  Stream(Append(bs, b)) = Concat(Stream(bs), Frame(b))
<1>1. PICK fs : fs = [i \in 1 .. Len(bs) |-> Frame(bs[i])]
  OBVIOUS
<1>2. PICK cs \in Seq(Package) : cs = Append(bs, b)
  <2>1. Append(bs, b) \in Seq(Package)
    OBVIOUS
  <2>2. QED  BY <2>1
<1>3. PICK gs : gs = [i \in 1 .. Len(cs) |-> Frame(cs[i])]
  OBVIOUS
<1>4. /\ Len(bs) \in Nat /\ Len(cs) = Len(bs) + 1 /\ cs[Len(bs) + 1] = b
      /\ \A i \in 1 .. Len(bs) : cs[i] = bs[i]
  BY <1>2
<1>5. fs \in Seq(Bytes) /\ Len(fs) = Len(bs) /\ \A i \in 1 .. Len(bs) : fs[i] = Frame(bs[i])
  BY <1>1, FramesType
<1>6. gs \in Seq(Bytes) /\ Len(gs) = Len(cs) /\ \A i \in 1 .. Len(cs) : gs[i] = Frame(cs[i])
  BY <1>3, FramesType
<1>7. PICK f \in Bytes : f = Frame(b)
  BY FrameType
<1>8. gs = Append(fs, f)
  <2>1. PICK ts : ts = Append(fs, f)
    OBVIOUS
  <2>2. /\ ts \in Seq(Bytes) /\ Len(ts) = Len(fs) + 1 /\ ts[Len(fs) + 1] = f
        /\ \A i \in 1 .. Len(fs) : ts[i] = fs[i]
    BY <1>5, <2>1
  <2>3. ASSUME NEW i \in 1 .. Len(ts)
        PROVE  ts[i] = gs[i]
    <3>1. i \in 1 .. Len(cs)
      BY <1>4, <1>5, <2>2
    <3>2. CASE i = Len(bs) + 1
      BY <1>4, <1>5, <1>6, <1>7, <2>2, <3>1, <3>2
    <3>3. CASE i # Len(bs) + 1
      <4>1. i \in 1 .. Len(bs)
        BY <1>4, <1>5, <2>2, <3>3
      <4>2. QED  BY <1>4, <1>5, <1>6, <2>2, <3>1, <4>1
    <3>4. QED  BY <3>2, <3>3
  <2>4. Len(ts) = Len(gs)
    BY <1>4, <1>5, <1>6, <2>2
  <2>5. ts = gs
    BY <1>6, <2>2, <2>3, <2>4, SeqEqual
  <2>6. QED  BY <2>1, <2>5
<1>9. FlattenSeq(Append(fs, f)) = Concat(FlattenSeq(fs), f)
  BY <1>5, FlattenAppend DEF Bytes, Concat
<1>10. QED  BY <1>1, <1>2, <1>3, <1>7, <1>8, <1>9 DEF Stream

-----------------------------------------------------------------------------
(* Cutting *)

Buffer == [stage : {"LEN", "DATA"}, lenBytes : Bytes, need : Nat, buffer : Bytes, size : Nat]

\* A RecvBuffer reads a length that has not ended, or a frame it has room for.
RecvOK(rb) ==
    /\ rb \in Buffer
    /\ \/ /\ rb.stage = "LEN" /\ rb.need = 1 /\ rb.buffer = <<>> /\ rb.size = 0
          /\ \A i \in 1 .. Len(rb.lenBytes) : More(rb.lenBytes[i])
       \/ /\ rb.stage = "DATA" /\ rb.lenBytes = <<>> /\ rb.need # 0
          /\ Len(rb.buffer) + rb.need = rb.size

\* What it has read of the next frame.
Held(rb) == IF rb.stage = "LEN" THEN rb.lenBytes ELSE Concat(Enc(rb.size), rb.buffer)

Cursors == [rb : Buffer, left : Bytes, msgs : Seq(Bytes)]

\* The packages are still to come: what is held, what is left and what follows are they.
Holds(c, ds, t) ==
    /\ c \in Cursors /\ RecvOK(c.rb)
    /\ Concat(Held(c.rb), Concat(c.left, t)) = Stream(ds)

\* Bytes are of packages.
LEMMA StreamFirst ==
  ASSUME NEW ds \in Seq(Package), NEW a \in Bytes, NEW b \in Bytes, Concat(a, b) = Stream(ds),
         a # <<>> \/ b # <<>>
  PROVE  /\ ds # <<>> /\ Head(ds) \in Bytes /\ Len(Head(ds)) \in 1 .. SendBufferSize
         /\ Stream(Tail(ds)) \in Bytes
         /\ Stream(ds) = Concat(Enc(Len(Head(ds))), Concat(Head(ds), Stream(Tail(ds))))
<1>1. ds # <<>>
  <2>1. Joined(Concat(a, b), a, b)
    BY JoinType DEF Bytes
  <2>2. Len(Concat(a, b)) = Len(a) + Len(b) /\ Len(a) \in Nat /\ Len(b) \in Nat
    BY <2>1 DEF Joined, Bytes
  <2>3. Len(a) # 0 \/ Len(b) # 0
    BY DEF Bytes
  <2>4. Len(Stream(ds)) # 0
    BY <2>2, <2>3
  <2>5. QED  BY <2>4, StreamEmpty
<1>2. Head(ds) \in Package /\ Tail(ds) \in Seq(Package)
  BY <1>1, HeadTailProperties
<1>3. PICK b1 \in Bytes : b1 = Head(ds) /\ Len(b1) \in 1 .. SendBufferSize
  BY <1>2 DEF Package
<1>4. PICK r \in Bytes : r = Stream(Tail(ds))
  BY <1>2, StreamType
<1>5. PICK e \in Bytes : e = Enc(Len(b1))
  <2>1. Len(b1) \in Nat
    BY DEF Bytes
  <2>2. QED  BY <2>1, EncType
<1>6. Concat(Concat(e, b1), r) = Concat(e, Concat(b1, r))
  BY Associative DEF Bytes
<1>7. Stream(ds) = Concat(Concat(e, b1), r)
  BY <1>1, <1>3, <1>4, <1>5, StreamHead DEF Frame
<1>8. QED  BY <1>1, <1>3, <1>4, <1>5, <1>6, <1>7

\* Four pieces may be put together in any way.
LEMMA Pieces ==
  ASSUME NEW a \in Bytes, NEW b \in Bytes, NEW c \in Bytes, NEW d \in Bytes
  PROVE  Concat(Concat(a, b), Concat(c, d)) = Concat(a, Concat(b, Concat(c, d)))
<1>1. PICK x \in Bytes : x = Concat(c, d)
  BY JoinType DEF Bytes
<1>2. Concat(Concat(a, b), x) = Concat(a, Concat(b, x))
  BY Associative DEF Bytes
<1>3. QED  BY <1>1, <1>2

\* The same of other four.
LEMMA InnerPieces ==
  ASSUME NEW a \in Bytes, NEW b \in Bytes, NEW c \in Bytes, NEW d \in Bytes
  PROVE  Concat(Concat(a, Concat(b, c)), d) = Concat(a, Concat(b, Concat(c, d)))
<1>1. PICK y \in Bytes : y = Concat(b, c)
  BY JoinType DEF Bytes
<1>2. Concat(Concat(a, y), d) = Concat(a, Concat(y, d))
  BY Associative DEF Bytes
<1>3. Concat(Concat(b, c), d) = Concat(b, Concat(c, d))
  BY Associative DEF Bytes
<1>4. QED  BY <1>1, <1>2, <1>3

\* No bytes are bytes.
LEMMA NoBytes ==
  <<>> \in Bytes
BY DEF Bytes

\* The receiver at the start of a length.
LEMMA RecvBufferOK ==
  RecvOK(RecvBuffer) /\ Held(RecvBuffer) = <<>>
<1>1. PICK e \in Bytes : e = <<>> /\ Len(e) = 0
  BY NoBytes
<1>2. RecvBuffer \in Buffer
  BY <1>1 DEF RecvBuffer, Buffer
<1>3. /\ RecvBuffer.stage = "LEN" /\ RecvBuffer.need = 1 /\ RecvBuffer.size = 0
      /\ RecvBuffer.lenBytes = <<>> /\ RecvBuffer.buffer = <<>>
  BY DEF RecvBuffer
<1>4. QED  BY <1>2, <1>3 DEF RecvOK, Held

\* What TakeLen does to the cursor.
LEMMA TakeLenIs ==
  ASSUME NEW c \in Cursors, c.left # <<>>, NEW p \in Bytes, p = Append(c.rb.lenBytes, Head(c.left)),
         ~More(Head(c.left)) => read_7bit_encoded_int(p) \in Nat
  PROVE  LET d == TakeLen(c)
         IN  /\ d \in Cursors /\ d.left = Tail(c.left) /\ d.msgs = c.msgs
             /\ d.rb.buffer = c.rb.buffer
             /\ More(Head(c.left)) => /\ d.rb.stage = c.rb.stage /\ d.rb.lenBytes = p
                                      /\ d.rb.need = c.rb.need /\ d.rb.size = c.rb.size
             /\ ~More(Head(c.left)) => /\ d.rb.stage = "DATA" /\ d.rb.lenBytes = <<>>
                                       /\ d.rb.need = read_7bit_encoded_int(p)
                                       /\ d.rb.size = read_7bit_encoded_int(p)
<1>1. PICK l \in Bytes : l = Tail(c.left)
  <2>1. Tail(c.left) \in Bytes
    BY DEF Cursors, Bytes
  <2>2. QED  BY <2>1
<1>2. PICK z \in Bytes : z = <<>>
  BY NoBytes
<1>3. PICK v : v = read_7bit_encoded_int(p)
  OBVIOUS
<1>4. c.rb \in Buffer
  BY DEF Cursors
<1>5. CASE More(Head(c.left))
  <2> DEFINE rb == [c.rb EXCEPT !.lenBytes = p]
  <2>1. rb \in Buffer
    BY <1>4 DEF Buffer
  <2>2. /\ rb.stage = c.rb.stage /\ rb.lenBytes = p /\ rb.need = c.rb.need
        /\ rb.buffer = c.rb.buffer /\ rb.size = c.rb.size
    BY <1>4 DEF Buffer
  <2>3. TakeLen(c) = [c EXCEPT !.left = l, !.rb = rb]
    BY <1>1, <1>5 DEF TakeLen
  <2> HIDE DEF rb
  <2>4. TakeLen(c) \in Cursors
    BY <2>1, <2>3 DEF Cursors
  <2>5. TakeLen(c).left = l /\ TakeLen(c).rb = rb /\ TakeLen(c).msgs = c.msgs
    BY <2>3 DEF Cursors
  <2>6. QED  BY <1>1, <1>5, <2>2, <2>4, <2>5
<1>6. CASE ~More(Head(c.left))
  <2> DEFINE rb == [c.rb EXCEPT !.lenBytes = z, !.stage = "DATA", !.need = v, !.size = v]
  <2>1. rb \in Buffer
    BY <1>3, <1>4, <1>6 DEF Buffer
  <2>2. /\ rb.stage = "DATA" /\ rb.lenBytes = z /\ rb.need = v
        /\ rb.buffer = c.rb.buffer /\ rb.size = v
    BY <1>4 DEF Buffer
  <2>3. TakeLen(c) = [c EXCEPT !.left = l, !.rb = rb]
    BY <1>1, <1>2, <1>3, <1>6 DEF TakeLen
  <2> HIDE DEF rb
  <2>4. TakeLen(c) \in Cursors
    BY <2>1, <2>3 DEF Cursors
  <2>5. TakeLen(c).left = l /\ TakeLen(c).rb = rb /\ TakeLen(c).msgs = c.msgs
    BY <2>3 DEF Cursors
  <2>6. QED  BY <1>1, <1>2, <1>3, <1>6, <2>2, <2>4, <2>5
<1>7. QED  BY <1>5, <1>6

\* What TakeData does to it.
LEMMA TakeDataIs ==
  ASSUME NEW c \in Cursors, NEW n \in Nat, n = Len(c.left), NEW k \in Nat, k = c.rb.need
  PROVE  LET d == TakeData(c)
         IN  /\ d \in Cursors
             /\ n < k => /\ d.left = <<>> /\ d.msgs = c.msgs
                         /\ d.rb.stage = c.rb.stage /\ d.rb.lenBytes = c.rb.lenBytes
                         /\ d.rb.need = k - n /\ d.rb.size = c.rb.size
                         /\ d.rb.buffer = Concat(c.rb.buffer, c.left)
             /\ n >= k => /\ d.left = SubSeq(c.left, k + 1, n) /\ d.rb = RecvBuffer
                          /\ d.msgs = Append(c.msgs, Concat(c.rb.buffer, SubSeq(c.left, 1, k)))
<1>1. c.rb \in Buffer /\ c.left \in Bytes /\ c.msgs \in Seq(Bytes)
  BY DEF Cursors
<1>2. CASE n < k
  <2>1. PICK m \in Nat : m = k - n
    BY <1>2
  <2>2. PICK b \in Bytes : b = c.rb.buffer \o c.left
    BY <1>1, JoinType DEF Buffer, Bytes, Concat
  <2>3. PICK z \in Bytes : z = <<>>
    BY NoBytes
  <2> DEFINE rb == [c.rb EXCEPT !.buffer = b, !.need = m]
  <2>4. rb \in Buffer
    BY <1>1 DEF Buffer
  <2>5. /\ rb.stage = c.rb.stage /\ rb.lenBytes = c.rb.lenBytes /\ rb.need = m
        /\ rb.buffer = b /\ rb.size = c.rb.size
    BY <1>1 DEF Buffer
  <2>6. TakeData(c) = [c EXCEPT !.left = z, !.rb = rb]
    BY <1>1, <1>2, <2>1, <2>2, <2>3 DEF TakeData, Cursors, Buffer
  <2> HIDE DEF rb
  <2>7. TakeData(c) \in Cursors
    BY <2>4, <2>6 DEF Cursors
  <2>8. TakeData(c).left = z /\ TakeData(c).rb = rb /\ TakeData(c).msgs = c.msgs
    BY <2>6 DEF Cursors
  <2>9. b = Concat(c.rb.buffer, c.left)
    BY <2>2 DEF Concat
  <2>10. QED  BY <1>2, <2>1, <2>3, <2>5, <2>7, <2>8, <2>9
<1>3. CASE ~(n < k)
  <2>1. PICK x \in Bytes : x = SubSeq(c.left, 1, k)
    <3>1. PICK w : w = c.left
      OBVIOUS
    <3>2. w \in Bytes /\ k \in 0 .. Len(w) /\ n = Len(w)
      BY <1>1, <1>3, <3>1
    <3>3. SubSeq(w, 1, k) \in Bytes
      BY <3>2, JoinCut DEF Bytes
    <3>4. QED  BY <3>1, <3>3
  <2>2. PICK y \in Bytes : y = SubSeq(c.left, k + 1, n)
    <3>1. PICK w : w = c.left
      OBVIOUS
    <3>2. w \in Bytes /\ k \in 0 .. Len(w) /\ n = Len(w)
      BY <1>1, <1>3, <3>1
    <3>3. SubSeq(w, k + 1, n) \in Bytes
      BY <3>2, JoinCut DEF Bytes
    <3>4. QED  BY <3>1, <3>3
  <2>3. PICK b \in Bytes : b = c.rb.buffer \o x
    BY <1>1, JoinType DEF Buffer, Bytes, Concat
  <2>4. PICK ms \in Seq(Bytes) : ms = Append(c.msgs, b)
    <3>1. Append(c.msgs, b) \in Seq(Bytes)
      BY <1>1
    <3>2. QED  BY <3>1
  <2>5. TakeData(c) = [c EXCEPT !.left = y, !.msgs = ms, !.rb = RecvBuffer]
    BY <1>3, <2>1, <2>2, <2>3, <2>4 DEF TakeData
  <2>6. TakeData(c) \in Cursors
    BY <2>5, RecvBufferOK DEF Cursors, RecvOK
  <2>7. TakeData(c).left = y /\ TakeData(c).rb = RecvBuffer /\ TakeData(c).msgs = ms
    BY <2>5 DEF Cursors
  <2>8. QED  BY <1>3, <2>1, <2>2, <2>3, <2>4, <2>6, <2>7 DEF Concat
<1>4. QED  BY <1>2, <1>3

\* A byte of a length read, the packages are still to come.
LEMMA TakeLenHolds ==
  ASSUME NEW c, NEW ds \in Seq(Package), NEW t \in Bytes, Holds(c, ds, t),
         c.rb.stage = "LEN", c.left # <<>>
  PROVE  /\ Holds(TakeLen(c), ds, t)
         /\ TakeLen(c).left = Tail(c.left) /\ TakeLen(c).msgs = c.msgs
<1>1. /\ c \in Cursors /\ RecvOK(c.rb) /\ c.rb \in Buffer
      /\ Concat(c.rb.lenBytes, Concat(c.left, t)) = Stream(ds)
  BY DEF Holds, Held, RecvOK
<1>2. /\ c.rb.need = 1 /\ c.rb.buffer = <<>> /\ c.rb.size = 0
      /\ \A i \in 1 .. Len(c.rb.lenBytes) : More(c.rb.lenBytes[i])
  BY <1>1 DEF RecvOK
<1>3. PICK a \in Bytes : a = c.rb.lenBytes
  BY <1>1 DEF Buffer
<1>4. PICK l \in Bytes : l = c.left /\ l # <<>>
  BY <1>1 DEF Cursors
<1>5. PICK p \in Bytes, l1 \in Bytes : p = Append(a, Head(l)) /\ l1 = Tail(l) /\ Concat(p, l1) = Concat(a, l)
  <2>1. PICK S : Bytes = Seq(S)
    BY DEF Bytes
  <2>2. a \in Seq(S) /\ l \in Seq(S) /\ l # <<>>
    BY <1>4, <2>1
  <2>3. /\ Append(a, Head(l)) \in Seq(S) /\ Tail(l) \in Seq(S)
        /\ Concat(Append(a, Head(l)), Tail(l)) = Concat(a, l)
    BY <2>2, JoinMove
  <2>4. QED  BY <2>1, <2>3
<1>6. PICK q \in Bytes : q = Concat(l1, t)
  BY JoinType DEF Bytes
<1>7. PICK x \in Bytes : x = Concat(l, t)
  BY JoinType DEF Bytes
<1>8. Concat(p, q) = Stream(ds)
  <2>1. Concat(Concat(p, l1), t) = Concat(p, q)
    BY <1>6, Associative DEF Bytes
  <2>2. Concat(Concat(a, l), t) = Concat(a, x)
    BY <1>7, Associative DEF Bytes
  <2>3. QED  BY <1>1, <1>3, <1>4, <1>5, <1>7, <2>1, <2>2
<1>9. /\ Len(a) \in Nat /\ Len(p) = Len(a) + 1 /\ p[Len(a) + 1] = Head(l)
      /\ \A i \in 1 .. Len(a) : p[i] = a[i]
  <2>1. PICK h \in 0 .. (2 * Radix - 1) : h = Head(l)
    BY <1>4, HeadTailProperties DEF Bytes
  <2>2. QED  BY <1>5, <2>1 DEF Bytes
<1>10. \A i \in 1 .. Len(a) : More(p[i])
  BY <1>2, <1>3, <1>9
<1>11. CASE More(Head(l))
  <2>1. \A i \in 1 .. Len(p) : More(p[i])
    BY <1>9, <1>10, <1>11
  <2>2. PICK d : d = TakeLen(c)
    OBVIOUS
  <2>3. /\ d \in Cursors /\ d.left = l1 /\ d.msgs = c.msgs
        /\ d.rb.buffer = <<>> /\ d.rb.stage = "LEN" /\ d.rb.lenBytes = p
        /\ d.rb.need = 1 /\ d.rb.size = 0
    BY <1>1, <1>2, <1>3, <1>4, <1>5, <1>11, <2>2, TakeLenIs
  <2>4. RecvOK(d.rb)
    BY <2>1, <2>3 DEF RecvOK, Cursors
  <2>5. Concat(Held(d.rb), Concat(d.left, t)) = Stream(ds)
    BY <1>6, <1>8, <2>3 DEF Held
  <2>6. QED  BY <1>4, <1>5, <2>2, <2>3, <2>4, <2>5 DEF Holds
<1>12. CASE ~More(Head(l))
  <2>1. Ends(p, Len(p))
    BY <1>9, <1>10, <1>12 DEF Ends
  <2>2. p # <<>>
    BY <1>9 DEF Bytes
  <2>3. PICK b \in Bytes, r \in Bytes :
           /\ b = Head(ds) /\ r = Stream(Tail(ds)) /\ Len(b) \in 1 .. SendBufferSize
           /\ Stream(ds) = Concat(Enc(Len(b)), Concat(b, r))
    BY <1>8, <2>2, StreamFirst
  <2>4. PICK v \in Nat \ {0} : v = Len(b)
    BY <2>3, FramingAssumption
  <2>5. PICK z \in Bytes : z = Concat(b, r)
    BY JoinType DEF Bytes
  <2>6. p = Enc(v) /\ q = z
    BY <1>8, <2>1, <2>3, <2>4, <2>5, EncPrefix
  <2>7. Concat(p, <<>>) = p
    BY JoinEmpty DEF Bytes
  <2>8. read_7bit_encoded_int(p) = v
    <3>1. read_7bit_encoded_int(Concat(Enc(v), <<>>)) = v
      BY NoBytes, ReadIs
    <3>2. QED  BY <2>6, <2>7, <3>1
  <2>9. PICK d : d = TakeLen(c)
    OBVIOUS
  <2>10. /\ d \in Cursors /\ d.left = l1 /\ d.msgs = c.msgs
         /\ d.rb.buffer = <<>> /\ d.rb.stage = "DATA" /\ d.rb.lenBytes = <<>>
         /\ d.rb.need = v /\ d.rb.size = v
    BY <1>1, <1>2, <1>3, <1>4, <1>5, <1>12, <2>8, <2>9, TakeLenIs
  <2>11. RecvOK(d.rb)
    <3>1. Len(<<>>) + v = v /\ v # 0
      OBVIOUS
    <3>2. QED  BY <2>10, <3>1 DEF RecvOK, Cursors
  <2>12. Held(d.rb) = p
    BY <2>6, <2>7, <2>10 DEF Held
  <2>13. Concat(Held(d.rb), Concat(d.left, t)) = Stream(ds)
    BY <1>6, <1>8, <2>10, <2>12
  <2>14. QED  BY <1>4, <1>5, <2>9, <2>10, <2>11, <2>13 DEF Holds
<1>13. QED  BY <1>11, <1>12

\* Bytes of a frame read, its package is still to come or is the next message.
LEMMA TakeDataHolds ==
  ASSUME NEW c, NEW ds \in Seq(Package), NEW t \in Bytes, Holds(c, ds, t),
         c.rb.stage = "DATA", c.left # <<>>
  PROVE  \/ /\ Holds(TakeData(c), ds, t)
            /\ TakeData(c).left = <<>> /\ TakeData(c).msgs = c.msgs
         \/ /\ ds # <<>> /\ Holds(TakeData(c), Tail(ds), t)
            /\ TakeData(c).msgs = Append(c.msgs, Head(ds))
            /\ Len(TakeData(c).left) < Len(c.left)
<1>1. /\ c \in Cursors /\ RecvOK(c.rb) /\ c.rb \in Buffer
      /\ Concat(Concat(Enc(c.rb.size), c.rb.buffer), Concat(c.left, t)) = Stream(ds)
  BY DEF Holds, Held, RecvOK
<1>2. PICK s \in Nat, k \in Nat, u \in Bytes, l \in Bytes :
         s = c.rb.size /\ k = c.rb.need /\ u = c.rb.buffer /\ l = c.left
  BY <1>1 DEF Buffer, Cursors
<1>3. /\ c.rb.lenBytes = <<>> /\ k # 0 /\ Len(u) + k = s
  BY <1>1, <1>2 DEF RecvOK
<1>4. PICK e \in Bytes : e = Enc(s) /\ e # <<>>
  <2>1. Enc(s) \in Bytes /\ Len(Enc(s)) # 0
    BY EncType
  <2>2. QED  BY <2>1
<1>5. PICK x \in Bytes : x = Concat(u, Concat(l, t))
  <2>1. Concat(u, Concat(l, t)) \in Bytes
    <3>1. PICK y \in Bytes : y = Concat(l, t)
      BY JoinType DEF Bytes
    <3>2. Concat(u, y) \in Bytes
      BY JoinType DEF Bytes
    <3>3. QED  BY <3>1, <3>2
  <2>2. QED  BY <2>1
<1>6. Concat(e, x) = Stream(ds)
  <2>1. Concat(Concat(e, u), Concat(l, t)) = Concat(e, Concat(u, Concat(l, t)))
    BY Pieces
  <2>2. QED  BY <1>1, <1>2, <1>4, <1>5, <2>1
<1>7. PICK b \in Bytes, r \in Bytes :
         /\ ds # <<>> /\ b = Head(ds) /\ r = Stream(Tail(ds)) /\ Len(b) \in 1 .. SendBufferSize
         /\ Stream(ds) = Concat(Enc(Len(b)), Concat(b, r))
  BY <1>4, <1>6, StreamFirst
<1>8. s = Len(b) /\ x = Concat(b, r)
  <2>1. Len(b) \in Nat
    BY DEF Bytes
  <2>2. PICK z \in Bytes : z = Concat(b, r)
    BY JoinType DEF Bytes
  <2>3. Concat(Enc(s), x) = Concat(Enc(Len(b)), z)
    BY <1>4, <1>6, <1>7, <2>2
  <2>4. QED  BY <2>1, <2>2, <2>3, EncUnique
<1>9. PICK n \in Nat : n = Len(l) /\ n # 0
  BY <1>2 DEF Bytes
<1>10. PICK d : d = TakeData(c)
  OBVIOUS
<1>11. CASE n < k
  <2>1. /\ d \in Cursors /\ d.left = <<>> /\ d.msgs = c.msgs
        /\ d.rb.stage = "DATA" /\ d.rb.lenBytes = <<>> /\ d.rb.need = k - n
        /\ d.rb.size = s /\ d.rb.buffer = Concat(u, l)
    BY <1>1, <1>2, <1>3, <1>9, <1>10, <1>11, TakeDataIs
  <2>2. Len(Concat(u, l)) = Len(u) + n /\ Len(u) \in Nat
    <3>1. Joined(Concat(u, l), u, l)
      BY JoinType DEF Bytes
    <3>2. QED  BY <1>9, <3>1 DEF Joined, Bytes
  <2>3. k - n # 0 /\ (Len(u) + n) + (k - n) = s
    BY <1>3, <1>11, <2>2
  <2>4. RecvOK(d.rb)
    BY <2>1, <2>2, <2>3 DEF RecvOK, Cursors
  <2>5. Concat(Concat(e, Concat(u, l)), t) = Concat(e, Concat(u, Concat(l, t)))
    BY InnerPieces
  <2>6. Concat(<<>>, t) = t
    BY JoinEmpty DEF Bytes
  <2>7. Concat(Held(d.rb), Concat(d.left, t)) = Stream(ds)
    BY <1>4, <1>5, <1>6, <2>1, <2>5, <2>6 DEF Held
  <2>8. QED  BY <1>10, <2>1, <2>4, <2>7 DEF Holds
<1>12. CASE ~(n < k)
  <2>1. PICK f \in Bytes, g \in Bytes :
           /\ f = SubSeq(l, 1, k) /\ g = SubSeq(l, k + 1, n) /\ Concat(f, g) = l
           /\ Len(f) = k /\ Len(g) = n - k
    <3>1. k \in 0 .. Len(l)
      BY <1>9, <1>12
    <3>2. /\ SubSeq(l, 1, k) \in Bytes /\ Len(SubSeq(l, 1, k)) = k
          /\ SubSeq(l, k + 1, Len(l)) \in Bytes /\ Len(SubSeq(l, k + 1, Len(l))) = Len(l) - k
          /\ Concat(SubSeq(l, 1, k), SubSeq(l, k + 1, Len(l))) = l
      BY <3>1, JoinCut DEF Bytes
    <3>3. QED  BY <1>9, <3>2
  <2>2. /\ d \in Cursors /\ d.left = g /\ d.rb = RecvBuffer
        /\ d.msgs = Append(c.msgs, Concat(u, f))
    <3>1. n >= k /\ n = Len(c.left) /\ k = c.rb.need
      BY <1>2, <1>9, <1>12
    <3>2. /\ TakeData(c) \in Cursors
          /\ TakeData(c).left = SubSeq(c.left, k + 1, n) /\ TakeData(c).rb = RecvBuffer
          /\ TakeData(c).msgs = Append(c.msgs, Concat(c.rb.buffer, SubSeq(c.left, 1, k)))
      BY <1>1, <3>1, TakeDataIs
    <3>3. QED  BY <1>2, <1>10, <2>1, <3>2
  <2>3. PICK w \in Bytes, y \in Bytes : w = Concat(u, f) /\ y = Concat(g, t)
    <3>1. Concat(u, f) \in Bytes /\ Concat(g, t) \in Bytes
      BY JoinType DEF Bytes
    <3>2. QED  BY <3>1
  <2>4. Concat(w, y) = Concat(b, r)
    <3>1. Concat(Concat(u, f), Concat(g, t)) = Concat(u, Concat(f, Concat(g, t)))
      BY Pieces
    <3>2. Concat(Concat(u, Concat(f, g)), t) = Concat(u, Concat(f, Concat(g, t)))
      BY InnerPieces
    <3>3. Concat(Concat(u, l), t) = Concat(u, Concat(l, t))
      BY Associative DEF Bytes
    <3>4. QED  BY <1>5, <1>8, <2>1, <2>3, <3>1, <3>2, <3>3
  <2>5. Len(w) = Len(b)
    <3>1. Joined(w, u, f)
      BY <2>3, JoinType DEF Bytes
    <3>2. QED  BY <1>3, <1>8, <2>1, <3>1 DEF Joined
  <2>6. w = b /\ y = r
    BY <2>4, <2>5, JoinUnique DEF Bytes
  <2>7. Concat(Held(d.rb), Concat(d.left, t)) = Stream(Tail(ds))
    <3>1. Concat(<<>>, y) = y
      BY JoinEmpty DEF Bytes
    <3>2. QED  BY <1>7, <2>2, <2>3, <2>6, <3>1, RecvBufferOK
  <2>8. Holds(d, Tail(ds), t)
    BY <2>2, <2>7, RecvBufferOK DEF Holds
  <2>9. Len(d.left) < Len(c.left)
    <3>1. n - k < n
      BY <1>3
    <3>2. QED  BY <1>2, <1>9, <2>1, <2>2, <3>1
  <2>10. QED  BY <1>7, <1>10, <2>2, <2>3, <2>6, <2>8, <2>9
<1>13. QED  BY <1>11, <1>12

\* Some of the packages have been cut, the others are still to come.
Serves(c, bs, t) ==
    \E ms, ds \in Seq(Package) : c.msgs = ms /\ Concat(ms, ds) = bs /\ Holds(c, ds, t)

\* A turn of the loop takes a byte and loses no package.
LEMMA TurnServes ==
  ASSUME NEW c, NEW bs, NEW t \in Bytes, Serves(c, bs, t), c.left # <<>>
  PROVE  Serves(Turn(c), bs, t) /\ Len(Turn(c).left) < Len(c.left)
<1>1. PICK ms \in Seq(Package), ds \in Seq(Package) :
         c.msgs = ms /\ Concat(ms, ds) = bs /\ Holds(c, ds, t)
  BY DEF Serves
<1>2. c \in Cursors /\ RecvOK(c.rb)
  BY <1>1 DEF Holds
<1>3. c.left \in Bytes /\ Len(c.left) \in Nat
  BY <1>2 DEF Cursors, Bytes
<1>4. c.rb.need # 0 /\ c.rb.stage \in {"LEN", "DATA"}
  BY <1>2 DEF RecvOK
<1>5. PICK d : d = Turn(c)
  OBVIOUS
<1>6. CASE c.rb.stage = "LEN"
  <2>1. d = TakeLen(c)
    BY <1>4, <1>5, <1>6 DEF Turn
  <2>2. Holds(d, ds, t) /\ d.left = Tail(c.left) /\ d.msgs = c.msgs
    BY <1>1, <1>6, <2>1, TakeLenHolds
  <2>3. Len(Tail(c.left)) < Len(c.left)
    BY <1>3 DEF Bytes
  <2>4. QED  BY <1>1, <1>5, <2>2, <2>3 DEF Serves
<1>7. CASE c.rb.stage = "DATA"
  <2>1. d = TakeData(c)
    BY <1>4, <1>5, <1>7 DEF Turn
  <2>2. CASE Holds(d, ds, t) /\ d.left = <<>> /\ d.msgs = c.msgs
    <3>1. Len(d.left) < Len(c.left)
      BY <1>3, <2>2 DEF Bytes
    <3>2. QED  BY <1>1, <1>5, <2>2, <3>1 DEF Serves
  <2>3. CASE /\ ds # <<>> /\ Holds(d, Tail(ds), t) /\ d.msgs = Append(c.msgs, Head(ds))
             /\ Len(d.left) < Len(c.left)
    <3>1. /\ Append(ms, Head(ds)) \in Seq(Package) /\ Tail(ds) \in Seq(Package)
          /\ Concat(Append(ms, Head(ds)), Tail(ds)) = Concat(ms, ds)
      BY <2>3, JoinMove
    <3>2. QED  BY <1>1, <1>5, <2>3, <3>1 DEF Serves
  <2>4. QED  BY <1>1, <1>7, <2>1, <2>2, <2>3, TakeDataHolds
<1>8. QED  BY <1>4, <1>6, <1>7

\* The cursor after each of n turns.
IsCut(f, c, n) == f = [i \in 0 .. n |-> IF i = 0 THEN c ELSE Turn(f[i - 1])]

\* The loop can be run for any number of turns.
LEMMA CutExists ==
  ASSUME NEW c, NEW n \in Nat
  PROVE  \E f : IsCut(f, c, n)
<1> DEFINE S == {k \in Nat : \E f : IsCut(f, c, k)}
<1>1. 0 \in S
  <2>1. IsCut([i \in 0 .. 0 |-> c], c, 0)
    BY DEF IsCut
  <2>2. QED  BY <2>1
<1>2. ASSUME NEW k \in Nat, k \in S
      PROVE  k + 1 \in S
  <2>1. PICK f : IsCut(f, c, k)
    BY <1>2
  <2> DEFINE g == [i \in 0 .. k + 1 |-> IF i = k + 1 THEN Turn(f[k]) ELSE f[i]]
  <2>2. f = [i \in 0 .. k |-> IF i = 0 THEN c ELSE Turn(f[i - 1])]
    BY <2>1 DEF IsCut
  <2>3. ASSUME NEW i \in 0 .. k + 1
        PROVE  g[i] = IF i = 0 THEN c ELSE Turn(g[i - 1])
    <3>1. CASE i = 0
      BY <2>2, <3>1
    <3>2. CASE i # 0 /\ i # k + 1
      <4>1. i \in 0 .. k /\ i - 1 \in 0 .. k + 1 /\ i - 1 # k + 1
        BY <3>2
      <4>2. f[i] = Turn(f[i - 1])
        BY <2>2, <3>2, <4>1
      <4>3. g[i] = f[i] /\ g[i - 1] = f[i - 1]
        BY <3>2, <4>1
      <4>4. QED  BY <3>2, <4>2, <4>3
    <3>3. CASE i = k + 1
      <4>1. k \in 0 .. k + 1 /\ k # k + 1 /\ (k + 1) - 1 = k /\ k + 1 # 0
        OBVIOUS
      <4>2. g[k] = f[k] /\ g[k + 1] = Turn(f[k])
        BY <4>1
      <4>3. QED  BY <3>3, <4>1, <4>2
    <3>4. QED  BY <3>1, <3>2, <3>3
  <2>4. IsCut(g, c, k + 1)
    <3>1. g = [i \in 0 .. k + 1 |-> g[i]]
      OBVIOUS
    <3> HIDE DEF g
    <3>2. [i \in 0 .. k + 1 |-> g[i]] =
             [i \in 0 .. k + 1 |-> IF i = 0 THEN c ELSE Turn(g[i - 1])]
      BY <2>3
    <3>3. QED  BY <3>1, <3>2 DEF IsCut
  <2>5. QED  BY <2>4
<1>3. Nat \subseteq S
  <2> HIDE DEF S
  <2>1. QED  BY <1>1, <1>2, Induction
<1>4. QED  BY <1>3

\* The loop ends with nothing left, and has cut or holds all that it was given.
LEMMA CutServes ==
  ASSUME NEW c, NEW bs, NEW t \in Bytes, Serves(c, bs, t)
  PROVE  Serves(Cut(c), bs, t) /\ Cut(c).left = <<>>
<1>1. \A d : Serves(d, bs, t) => d.left \in Bytes /\ Len(d.left) \in Nat
  BY DEF Serves, Holds, Cursors, Bytes
<1>2. PICK n \in Nat : n = Len(c.left)
  BY <1>1
<1> DEFINE r == CHOOSE f : IsCut(f, c, n)
<1>3. IsCut(r, c, n)
  BY CutExists
<1>4. Cut(c) = r[n]
  BY <1>2 DEF Cut, IsCut
<1> HIDE DEF r
<1> DEFINE S == {i \in Nat : i <= n => Serves(r[i], bs, t) /\ Len(r[i].left) <= n - i}
<1>5. 0 \in S
  <2>1. r[0] = c /\ n <= n - 0
    BY <1>3 DEF IsCut
  <2>2. QED  BY <1>2, <2>1
<1>6. ASSUME NEW i \in Nat, i \in S
      PROVE  i + 1 \in S
  <2> SUFFICES ASSUME i + 1 <= n
               PROVE  Serves(r[i + 1], bs, t) /\ Len(r[i + 1].left) <= n - (i + 1)
    OBVIOUS
  <2>1. Serves(r[i], bs, t) /\ Len(r[i].left) <= n - i
    BY <1>6
  <2>2. r[i + 1] = Turn(r[i])
    BY <1>3 DEF IsCut
  <2>3. CASE r[i].left = <<>>
    <3>1. r[i + 1] = r[i] /\ Len(r[i].left) = 0
      BY <2>2, <2>3 DEF Turn
    <3>2. QED  BY <2>1, <3>1
  <2>4. CASE r[i].left # <<>>
    <3>1. Serves(r[i + 1], bs, t) /\ Len(r[i + 1].left) < Len(r[i].left)
      BY <2>1, <2>2, <2>4, TurnServes
    <3>2. Len(r[i + 1].left) \in Nat /\ Len(r[i].left) \in Nat
      BY <1>1, <2>1, <3>1
    <3>3. QED  BY <2>1, <3>1, <3>2
  <2>5. QED  BY <2>3, <2>4
<1>7. Nat \subseteq S
  <2> HIDE DEF S
  <2>1. QED  BY <1>5, <1>6, Induction
<1>8. Serves(r[n], bs, t) /\ Len(r[n].left) <= n - n
  BY <1>7
<1>9. Len(r[n].left) = 0 /\ r[n].left \in Bytes
  BY <1>1, <1>8
<1>10. r[n].left = <<>>
  BY <1>9 DEF Bytes
<1>11. QED  BY <1>4, <1>8, <1>10


-----------------------------------------------------------------------------
(* Messages *)

\* What send_raw_msg hands to send_msg.
Body(m) == Concat(Enc(Len(m.name)), Concat(m.name, m.payload))

\* The messages whose frame may fit the send buffer.
Sendable == {m \in Message : Body(m) \in Package}

Bodies(ms) == [i \in 1 .. Len(ms) |-> Body(ms[i])]

\* The parts of a message are bytes, and so is the whole.
LEMMA BodyType ==
  ASSUME NEW m \in Message
  PROVE  /\ m.name \in Bytes /\ m.payload \in Bytes /\ Len(m.name) \in Nat
         /\ Enc(Len(m.name)) \in Bytes /\ Concat(m.name, m.payload) \in Bytes
         /\ Body(m) \in Bytes
<1>1. PICK w \in Bytes, p \in Bytes : w = m.name /\ p = m.payload
  BY FramingAssumption DEF Message, Bytes
<1>2. Len(w) \in Nat
  BY DEF Bytes
<1>3. PICK e \in Bytes : e = Enc(Len(w))
  BY <1>2, EncType
<1>4. PICK z \in Bytes : z = Concat(w, p)
  BY JoinType DEF Bytes
<1>5. Concat(e, z) \in Bytes
  BY JoinType DEF Bytes
<1>6. QED  BY <1>1, <1>2, <1>3, <1>4, <1>5 DEF Body

\* handle_msg finds the name and the rest of a message again.
LEMMA SplitIs ==
  ASSUME NEW m \in Message
  PROVE  Split(Body(m)) = m
<1>1. PICK w \in Bytes, p \in Bytes : w = m.name /\ p = m.payload /\ Len(w) \in Nat
  BY BodyType
<1>2. PICK e \in Bytes : e = Enc(Len(w)) /\ Len(e) \in Nat
  BY <1>1, BodyType, EncType
<1>3. PICK z \in Bytes : z = Concat(w, p)
  BY JoinType DEF Bytes
<1>4. PICK s \in Bytes : s = Body(m)
  BY BodyType
<1>5. s = Concat(e, z)
  BY <1>1, <1>2, <1>3, <1>4 DEF Body
<1>6. EncodedLen(s) = Len(e) /\ read_7bit_encoded_int(s) = Len(w)
  BY <1>1, <1>2, <1>5, ReadIs
<1>7. /\ SubSeq(s, Len(e) + 1, Len(e) + Len(w)) = w
      /\ SubSeq(s, Len(e) + Len(w) + 1, Len(s)) = p
  <2>1. s = Concat(e, Concat(w, p))
    BY <1>3, <1>5
  <2>2. \A x, y, t \in Bytes :
           /\ SubSeq(Concat(x, Concat(y, t)), Len(x) + 1, Len(x) + Len(y)) = y
           /\ SubSeq(Concat(x, Concat(y, t)), Len(x) + Len(y) + 1, Len(Concat(x, Concat(y, t)))) = t
    BY JoinPieces, Zenon DEF Bytes
  <2>3. SubSeq(Concat(e, Concat(w, p)), Len(e) + 1, Len(e) + Len(w)) = w
    BY <2>2
  <2>4. SubSeq(Concat(e, Concat(w, p)), Len(e) + Len(w) + 1, Len(Concat(e, Concat(w, p)))) = p
    BY <2>2
  <2>5. QED  BY <2>1, <2>3, <2>4
<1>8. Split(s) = [name |-> w, payload |-> p]
  BY <1>6, <1>7 DEF Split
<1>9. m = [name |-> m.name, payload |-> m.payload]
  BY DEF Message
<1>10. QED  BY <1>1, <1>4, <1>8, <1>9

\* The packages of messages, one for each.
LEMMA BodiesType ==
  ASSUME NEW ms \in Seq(Sendable)
  PROVE  /\ Bodies(ms) \in Seq(Package) /\ Len(Bodies(ms)) = Len(ms)
         /\ \A i \in 1 .. Len(ms) : Bodies(ms)[i] = Body(ms[i])
<1>1. \A i \in 1 .. Len(ms) : Body(ms[i]) \in Package
  BY DEF Sendable
<1>2. QED  BY <1>1 DEF Bodies

\* One more message is one more package.
LEMMA BodiesAppend ==
  ASSUME NEW ms \in Seq(Sendable), NEW m \in Sendable
  PROVE  Bodies(Append(ms, m)) = Append(Bodies(ms), Body(m))
<1>1. PICK b \in Package : b = Body(m)
  BY DEF Sendable
<1>2. PICK ns \in Seq(Sendable) : ns = Append(ms, m)
  <2>1. Append(ms, m) \in Seq(Sendable)
    OBVIOUS
  <2>2. QED  BY <2>1
<1>3. /\ Len(ms) \in Nat /\ Len(ns) = Len(ms) + 1 /\ ns[Len(ms) + 1] = m
      /\ \A i \in 1 .. Len(ms) : ns[i] = ms[i]
  BY <1>2
<1>4. PICK bs \in Seq(Package) :
         bs = Bodies(ms) /\ Len(bs) = Len(ms) /\ \A i \in 1 .. Len(ms) : bs[i] = Body(ms[i])
  BY BodiesType
<1>5. PICK cs \in Seq(Package) :
         cs = Bodies(ns) /\ Len(cs) = Len(ns) /\ \A i \in 1 .. Len(ns) : cs[i] = Body(ns[i])
  BY BodiesType
<1>6. PICK ds \in Seq(Package) :
         /\ ds = Append(bs, b) /\ Len(ds) = Len(bs) + 1 /\ ds[Len(bs) + 1] = b
         /\ \A i \in 1 .. Len(bs) : ds[i] = bs[i]
  <2>1. /\ Append(bs, b) \in Seq(Package) /\ Len(Append(bs, b)) = Len(bs) + 1
        /\ Append(bs, b)[Len(bs) + 1] = b
        /\ \A i \in 1 .. Len(bs) : Append(bs, b)[i] = bs[i]
    BY <1>4
  <2>2. QED  BY <2>1
<1>7. ASSUME NEW i \in 1 .. Len(cs)
      PROVE  cs[i] = ds[i]
  <2>1. i \in 1 .. Len(ns)
    BY <1>5
  <2>2. CASE i = Len(ms) + 1
    BY <1>1, <1>3, <1>4, <1>5, <1>6, <2>1, <2>2
  <2>3. CASE i # Len(ms) + 1
    <3>1. i \in 1 .. Len(ms)
      BY <1>3, <2>1, <2>3
    <3>2. QED  BY <1>3, <1>4, <1>5, <1>6, <2>1, <3>1
  <2>4. QED  BY <2>2, <2>3
<1>8. Len(cs) = Len(ds)
  BY <1>3, <1>4, <1>5, <1>6
<1>9. cs = ds
  BY <1>7, <1>8, SeqEqual
<1>10. QED  BY <1>1, <1>2, <1>4, <1>5, <1>6, <1>9

\* Where the packages are cut, the messages are.
LEMMA BodiesCut ==
  ASSUME NEW ns \in Seq(Sendable), NEW bs \in Seq(Package), NEW ds \in Seq(Package),
         Concat(bs, ds) = Bodies(ns)
  PROVE  \E hs, cs \in Seq(Sendable) :
            /\ Concat(hs, cs) = ns /\ ds = Bodies(cs)
            /\ [i \in 1 .. Len(bs) |-> Split(bs[i])] = hs
<1>1. /\ Len(bs) \in Nat /\ Len(ds) \in Nat /\ Len(ns) = Len(bs) + Len(ds)
      /\ \A i \in 1 .. Len(bs) : bs[i] = Body(ns[i])
      /\ \A i \in 1 .. Len(ds) : ds[i] = Body(ns[Len(bs) + i])
  <2>1. Joined(Concat(bs, ds), bs, ds)
    BY JoinType
  <2>2. Len(bs) \in Nat /\ Len(ds) \in Nat
    OBVIOUS
  <2>3. Len(ns) = Len(bs) + Len(ds)
    BY <2>1, BodiesType DEF Joined
  <2>4. \A i \in 1 .. Len(bs) : i \in 1 .. Len(ns)
    BY <2>2, <2>3
  <2>5. \A i \in 1 .. Len(ds) : Len(bs) + i \in 1 .. Len(ns)
    BY <2>2, <2>3
  <2>6. QED  BY <2>1, <2>2, <2>3, <2>4, <2>5, BodiesType DEF Joined
<1>2. PICK k \in Nat : k = Len(bs) /\ k \in 0 .. Len(ns)
  BY <1>1
<1>3. PICK hs \in Seq(Sendable), cs \in Seq(Sendable) :
         Concat(hs, cs) = ns /\ Len(hs) = k /\ Len(cs) = Len(ns) - k
  <2>1. k \in 0 .. Len(ns)
    BY <1>2
  <2>2. /\ SubSeq(ns, 1, k) \in Seq(Sendable) /\ Len(SubSeq(ns, 1, k)) = k
        /\ SubSeq(ns, k + 1, Len(ns)) \in Seq(Sendable)
        /\ Len(SubSeq(ns, k + 1, Len(ns))) = Len(ns) - k
        /\ Concat(SubSeq(ns, 1, k), SubSeq(ns, k + 1, Len(ns))) = ns
    BY <2>1, JoinCut
  <2>3. QED  BY <2>2
<1>4. /\ \A i \in 1 .. k : ns[i] = hs[i]
      /\ \A i \in 1 .. Len(cs) : ns[k + i] = cs[i]
  <2>1. Joined(Concat(hs, cs), hs, cs)
    BY JoinType
  <2>2. QED  BY <1>3, <2>1 DEF Joined
<1>5. ds = Bodies(cs)
  <2>1. /\ Bodies(cs) \in Seq(Package) /\ Len(Bodies(cs)) = Len(cs)
        /\ \A i \in 1 .. Len(cs) : Bodies(cs)[i] = Body(cs[i])
    BY BodiesType
  <2>2. Len(cs) = Len(ds)
    BY <1>1, <1>2, <1>3
  <2>3. \A i \in 1 .. Len(ds) : ds[i] = Bodies(cs)[i]
    BY <1>1, <1>2, <1>4, <2>1, <2>2
  <2>4. QED  BY <2>1, <2>2, <2>3, SeqEqual
<1>6. [i \in 1 .. Len(bs) |-> Split(bs[i])] = hs
  <2>1. ASSUME NEW i \in 1 .. k
        PROVE  Split(bs[i]) = hs[i] /\ hs[i] \in Sendable
    <3>1. hs[i] \in Sendable
      BY <1>3, ElementOfSeq
    <3>2. bs[i] = Body(hs[i]) /\ hs[i] \in Message
      BY <1>1, <1>2, <1>4, <3>1 DEF Sendable
    <3>3. QED  BY <3>1, <3>2, SplitIs
  <2>2. PICK x : x = [i \in 1 .. k |-> Split(bs[i])]
    OBVIOUS
  <2>3. x \in Seq(Sendable) /\ Len(x) = k /\ \A i \in 1 .. k : x[i] = hs[i]
    BY <2>1, <2>2
  <2>4. x = hs
    BY <1>3, <2>3, SeqEqual
  <2>5. QED  BY <1>2, <2>2, <2>4
<1>7. QED  BY <1>3, <1>5, <1>6


-----------------------------------------------------------------------------
(* The invariant *)

\* What is held, what is under way and the rest of the stream are the frames of the
\* messages still to come; the rest is the output buffer, unless that has been dropped.
Wired ==
    \E to \in Seq(Sendable), rest \in Bytes :
        /\ Concat(received, to) = sent
        /\ lost \/ rest = out
        /\ Concat(Held(recv), Concat(net, rest)) = Stream(Bodies(to))

WireInv ==
    /\ out \in Bytes /\ Len(out) <= SendBufferSize
    /\ net \in Bytes
    /\ RecvOK(recv)
    /\ lost \in BOOLEAN /\ fault \in BOOLEAN /\ (lost => out = <<>>)
    /\ sent \in Seq(Sendable) /\ received \in Seq(Sendable)
    /\ Wired

\* What is held is bytes.
LEMMA HeldType ==
  ASSUME NEW rb, RecvOK(rb)
  PROVE  Held(rb) \in Bytes
<1>1. rb.lenBytes \in Bytes /\ rb.buffer \in Bytes /\ rb.size \in Nat
  BY DEF RecvOK, Buffer
<1>2. PICK e \in Bytes : e = Enc(rb.size)
  BY <1>1, EncType
<1>3. Concat(e, rb.buffer) \in Bytes
  BY <1>1, JoinType DEF Bytes
<1>4. QED  BY <1>1, <1>2, <1>3 DEF Held

\* A stream of some packages has bytes.
LEMMA StreamNotEmpty ==
  ASSUME NEW bs \in Seq(Package), Stream(bs) = <<>>
  PROVE  bs = <<>>
<1> SUFFICES ASSUME bs # <<>>
             PROVE  FALSE
  OBVIOUS
<1>1. Head(bs) \in Package /\ Tail(bs) \in Seq(Package)
  BY HeadTailProperties
<1>2. PICK b \in Bytes : b = Head(bs) /\ Len(b) \in 1 .. SendBufferSize
  BY <1>1 DEF Package
<1>3. PICK f \in Bytes : f = Frame(b)
  BY <1>1, <1>2, FrameType
<1>4. PICK r \in Bytes : r = Stream(Tail(bs))
  BY <1>1, StreamType
<1>5. Stream(bs) = Concat(f, r)
  BY <1>2, <1>3, <1>4, StreamHead
<1>6. Joined(Concat(f, r), f, r)
  BY JoinType DEF Bytes
<1>7. Len(f) # 0
  <2>1. Len(b) \in Nat \ {0}
    BY <1>2, FramingAssumption
  <2>2. PICK e \in Bytes : e = Enc(Len(b)) /\ Len(e) \in Nat \ {0}
    BY <2>1, EncType
  <2>3. Joined(f, e, b)
    BY <1>3, <2>2, JoinType DEF Bytes, Frame
  <2>4. QED  BY <2>1, <2>2, <2>3 DEF Joined
<1>8. Len(Concat(f, r)) = Len(f) + Len(r) /\ Len(f) \in Nat /\ Len(r) \in Nat
  BY <1>6 DEF Joined, Bytes
<1>9. Len(<<>>) = 0
  OBVIOUS
<1>10. QED  BY <1>5, <1>7, <1>8, <1>9

\* An empty stream and an empty RecvBuffer satisfy it.
LEMMA InitWireInv ==
  Init => WireInv
<1> SUFFICES ASSUME Init
             PROVE  WireInv
  OBVIOUS
<1>1. PICK z \in Bytes : z = <<>> /\ Len(z) = 0
  BY NoBytes
<1>2. PICK ms \in Seq(Sendable) : ms = <<>>
  <2>1. <<>> \in Seq(Sendable)
    OBVIOUS
  <2>2. QED  BY <2>1
<1>3. out = z /\ net = z /\ ~lost /\ ~fault /\ sent = ms /\ received = ms
  BY <1>1, <1>2 DEF Init
<1>4. RecvOK(recv) /\ Held(recv) = z
  BY <1>1, RecvBufferOK DEF Init
<1>5. Wired
  <2>1. Concat(z, Concat(z, z)) = z
    BY <1>1, JoinEmpty DEF Bytes
  <2>2. Bodies(ms) = <<>>
    BY <1>2 DEF Bodies
  <2>3. Concat(ms, ms) = ms
    BY <1>2, JoinEmpty
  <2>4. Stream(Bodies(ms)) = z
    BY <1>1, <2>2, StreamEmpty
  <2>5. Concat(received, ms) = sent /\ Concat(Held(recv), Concat(net, z)) = Stream(Bodies(ms))
    BY <1>3, <1>4, <2>1, <2>3, <2>4
  <2>6. QED  BY <1>3, <2>5 DEF Wired
<1>6. Len(z) <= SendBufferSize /\ lost \in BOOLEAN /\ fault \in BOOLEAN
  <2>1. Len(z) <= SendBufferSize
    BY <1>1, FramingAssumption
  <2>2. lost \in BOOLEAN /\ fault \in BOOLEAN
    BY Zenon DEF Init
  <2>3. QED  BY <2>1, <2>2
<1>7. QED  BY <1>3, <1>4, <1>5, <1>6 DEF WireInv

\* The bytes kept of a length fit _len_bytes.
LEMMA LenBytesFit ==
  ASSUME WireInv
  PROVE  Len(recv.lenBytes) < MaxLenSize
<1>1. RecvOK(recv) /\ net \in Bytes /\ recv.lenBytes \in Bytes
  BY DEF WireInv, RecvOK, Buffer
<1>2. PICK a \in Bytes : a = recv.lenBytes
  BY <1>1
<1>3. CASE a = <<>>
  <2>1. Len(a) = 0
    BY <1>3
  <2>2. QED  BY <1>2, <2>1, FramingAssumption
<1>4. CASE a # <<>>
  <2>1. Held(recv) = a /\ \A i \in 1 .. Len(a) : More(a[i])
    BY <1>1, <1>2, <1>4 DEF RecvOK, Held
  <2>2. PICK to \in Seq(Sendable), rest \in Bytes : Concat(a, Concat(net, rest)) = Stream(Bodies(to))
    BY <2>1 DEF WireInv, Wired
  <2>3. PICK ds \in Seq(Package) : ds = Bodies(to)
    BY BodiesType
  <2>4. PICK q \in Bytes : q = Concat(net, rest)
    BY <1>1, JoinType DEF Bytes
  <2>5. Concat(a, q) = Stream(ds)
    BY <2>2, <2>3, <2>4
  <2>6. PICK b \in Bytes, r \in Bytes :
           Len(b) \in 1 .. SendBufferSize /\ Stream(ds) = Concat(Enc(Len(b)), Concat(b, r))
    BY <1>4, <2>5, StreamFirst
  <2>7. PICK v \in Nat : v = Len(b) /\ v \in 0 .. SendBufferSize
    BY <2>6, FramingAssumption
  <2>8. PICK z \in Bytes : z = Concat(b, r)
    BY JoinType DEF Bytes
  <2>9. Concat(a, q) = Concat(Enc(v), z)
    BY <2>5, <2>6, <2>7, <2>8
  <2>10. Len(a) < Len(Enc(v))
    BY <2>1, <2>9, EncLonger
  <2>11. Len(Enc(v)) <= MaxLenSize
    BY <2>7, LengthsFit DEF Enc
  <2>12. Len(a) \in Nat /\ Len(Enc(v)) \in Nat
    <3>1. Len(Enc(v)) \in Nat
      BY EncType
    <3>2. QED  BY <3>1 DEF Bytes
  <2>13. QED  BY <1>2, <2>10, <2>11, <2>12, FramingAssumption
<1>5. QED  BY <1>3, <1>4

\* No frame is too long: its length is that of a package.
LEMMA SizeFits ==
  ASSUME WireInv
  PROVE  recv.size <= SendBufferSize
<1>1. RecvOK(recv) /\ net \in Bytes
  BY DEF WireInv
<1>2. PICK k \in Nat, u \in Bytes : k = recv.size /\ u = recv.buffer
  BY <1>1 DEF RecvOK, Buffer
<1>3. CASE recv.stage = "DATA"
  <2>1. PICK e \in Bytes : e = Enc(k) /\ e # <<>>
    <3>1. Enc(k) \in Bytes /\ Len(Enc(k)) # 0
      BY EncType
    <3>2. QED  BY <3>1
  <2>2. Held(recv) = Concat(e, u)
    BY <1>2, <1>3, <2>1 DEF Held
  <2>3. PICK to \in Seq(Sendable), rest \in Bytes :
           Concat(Concat(e, u), Concat(net, rest)) = Stream(Bodies(to))
    BY <2>2 DEF WireInv, Wired
  <2>4. PICK ds \in Seq(Package) : ds = Bodies(to)
    BY BodiesType
  <2>5. PICK x \in Bytes : x = Concat(u, Concat(net, rest))
    <3>1. PICK y \in Bytes : y = Concat(net, rest)
      BY <1>1, JoinType DEF Bytes
    <3>2. Concat(u, y) \in Bytes
      BY JoinType DEF Bytes
    <3>3. QED  BY <3>1, <3>2
  <2>6. Concat(e, x) = Stream(ds)
    <3>1. Concat(Concat(e, u), Concat(net, rest)) = Concat(e, Concat(u, Concat(net, rest)))
      BY <1>1, Pieces
    <3>2. QED  BY <2>3, <2>4, <2>5, <3>1
  <2>7. PICK b \in Bytes, r \in Bytes :
           Len(b) \in 1 .. SendBufferSize /\ Stream(ds) = Concat(Enc(Len(b)), Concat(b, r))
    BY <2>1, <2>6, StreamFirst
  <2>8. PICK v \in Nat : v = Len(b) /\ v <= SendBufferSize
    BY <2>7, FramingAssumption
  <2>9. PICK z \in Bytes : z = Concat(b, r)
    BY JoinType DEF Bytes
  <2>10. Concat(Enc(k), x) = Concat(Enc(v), z)
    BY <2>1, <2>6, <2>7, <2>8, <2>9
  <2>11. k = v
    BY <2>10, EncUnique
  <2>12. QED  BY <1>2, <2>8, <2>11
<1>4. CASE recv.stage = "LEN"
  BY <1>1, <1>4, FramingAssumption DEF RecvOK
<1>5. QED  BY <1>1, <1>3, <1>4 DEF RecvOK

\* A receiver never holds the whole stream, for it would have handled its packages.
LEMMA HeldNotStream ==
  ASSUME NEW rb, RecvOK(rb), NEW ds \in Seq(Package), Held(rb) = Stream(ds)
  PROVE  ds = <<>> /\ rb = RecvBuffer
<1>1. /\ rb.lenBytes \in Bytes /\ rb.buffer \in Bytes /\ rb.size \in Nat /\ rb.need \in Nat
      /\ rb.stage \in {"LEN", "DATA"} /\ rb \in Buffer
  BY DEF RecvOK, Buffer
<1>2. PICK h \in Bytes : h = Held(rb)
  BY HeldType
<1>3. Concat(h, <<>>) = h
  BY JoinEmpty DEF Bytes
<1>4. h = <<>>
  <2> SUFFICES ASSUME h # <<>>
               PROVE  FALSE
    OBVIOUS
  <2>1. PICK z \in Bytes : z = <<>> /\ Len(z) = 0
    BY NoBytes
  <2>2. Concat(h, z) = Stream(ds)
    BY <1>2, <1>3, <2>1
  <2>3. PICK b \in Bytes, r \in Bytes :
           Len(b) \in 1 .. SendBufferSize /\ Stream(ds) = Concat(Enc(Len(b)), Concat(b, r))
    BY <2>2, StreamFirst
  <2>4. PICK v \in Nat \ {0} : v = Len(b)
    BY <2>3, FramingAssumption
  <2>5. PICK y \in Bytes : y = Concat(b, r)
    BY JoinType DEF Bytes
  <2>6. h = Concat(Enc(v), y)
    BY <1>2, <2>3, <2>4, <2>5
  <2>7. CASE rb.stage = "LEN"
    <3>1. \A i \in 1 .. Len(h) : More(h[i])
      BY <1>2, <2>7 DEF RecvOK, Held
    <3>2. Len(h) < Len(Enc(v))
      BY <1>3, <2>1, <2>6, <3>1, EncLonger
    <3>3. PICK e \in Bytes : e = Enc(v)
      BY EncType
    <3>4. Joined(h, e, y)
      BY <2>6, <3>3, JoinType DEF Bytes
    <3>5. Len(h) = Len(e) + Len(y) /\ Len(e) \in Nat /\ Len(y) \in Nat
      BY <3>4 DEF Joined, Bytes
    <3>6. QED  BY <3>2, <3>3, <3>5
  <2>8. CASE rb.stage = "DATA"
    <3>1. h = Concat(Enc(rb.size), rb.buffer)
      BY <1>2, <2>8 DEF Held
    <3>2. rb.size = v /\ rb.buffer = y
      <4>1. PICK k \in Nat, u \in Bytes : k = rb.size /\ u = rb.buffer
        BY <1>1
      <4>2. Concat(Enc(k), u) = Concat(Enc(v), y) /\ v \in Nat
        BY <2>6, <3>1, <4>1
      <4>3. k = v /\ u = y
        BY <4>2, EncUnique
      <4>4. QED  BY <4>1, <4>3
    <3>3. Joined(y, b, r)
      BY <2>5, JoinType DEF Bytes
    <3>4. Len(y) = v + Len(r) /\ Len(r) \in Nat
      BY <2>4, <3>3 DEF Joined, Bytes
    <3>5. Len(y) + rb.need = v /\ rb.need # 0
      BY <2>8, <3>2 DEF RecvOK
    <3>6. QED  BY <1>1, <3>4, <3>5
  <2>9. QED  BY <1>1, <2>7, <2>8
<1>5. ds = <<>>
  BY <1>2, <1>4, StreamNotEmpty
<1>6. rb.stage # "DATA"
  <2> SUFFICES ASSUME rb.stage = "DATA"
               PROVE  FALSE
    OBVIOUS
  <2>1. PICK e \in Bytes : e = Enc(rb.size) /\ Len(e) \in Nat \ {0}
    BY <1>1, EncType
  <2>2. h = Concat(e, rb.buffer)
    BY <1>2, <2>1 DEF Held
  <2>3. Joined(h, e, rb.buffer)
    BY <1>1, <2>2, JoinType DEF Bytes
  <2>4. Len(h) = Len(e) + Len(rb.buffer) /\ Len(rb.buffer) \in Nat
    BY <1>1, <2>3 DEF Joined, Bytes
  <2>5. Len(h) = 0
    BY <1>4
  <2>6. Len(e) + Len(rb.buffer) # 0
    <3>1. PICK i \in Nat \ {0}, j \in Nat : i = Len(e) /\ j = Len(rb.buffer)
      BY <2>1, <2>4, Zenon
    <3>2. i + j # 0
      OBVIOUS
    <3>3. QED  BY <3>1, <3>2, Zenon
  <2>7. QED  BY <2>4, <2>5, <2>6
<1>7. /\ rb.stage = "LEN" /\ rb.lenBytes = <<>> /\ rb.need = 1 /\ rb.buffer = <<>>
      /\ rb.size = 0
  BY <1>1, <1>2, <1>4, <1>6 DEF RecvOK, Held
<1>8. rb = RecvBuffer
  BY <1>1, <1>7 DEF Buffer, RecvBuffer
<1>9. QED  BY <1>5, <1>8

\* The invariant is what BuffersFit says, and more.
LEMMA WireInvCorrect ==
  WireInv => BuffersFit
<1> SUFFICES ASSUME WireInv
             PROVE  BuffersFit
  OBVIOUS
<1>1. RecvOK(recv) /\ recv \in Buffer
  BY DEF WireInv, RecvOK
<1>2. FramingTypeOK
  <2>1. sent \in Seq(Message)
    <3>1. sent \in Seq(Sendable) /\ Sendable \subseteq Message
      BY DEF WireInv, Sendable
    <3>2. QED  BY <3>1
  <2>2. QED  BY <1>1, <2>1 DEF WireInv, FramingTypeOK, Buffer
<1>3. recv.stage = "DATA" => Len(recv.buffer) + recv.need = recv.size
  BY <1>1 DEF RecvOK
<1>4. ASSUME out = <<>>, net = <<>>, ~lost
      PROVE  received = sent /\ recv = RecvBuffer
  <2>1. PICK to \in Seq(Sendable), rest \in Bytes :
           /\ Concat(received, to) = sent /\ rest = out
           /\ Concat(Held(recv), Concat(net, rest)) = Stream(Bodies(to))
    BY <1>4 DEF WireInv, Wired
  <2>2. PICK h \in Bytes : h = Held(recv)
    BY <1>1, HeldType
  <2>3. Concat(<<>>, <<>>) = <<>> /\ Concat(h, <<>>) = h
    BY NoBytes, JoinEmpty DEF Bytes
  <2>4. PICK ds \in Seq(Package) : ds = Bodies(to) /\ Len(ds) = Len(to)
    BY BodiesType
  <2>5. Held(recv) = Stream(ds)
    BY <1>4, <2>1, <2>2, <2>3, <2>4
  <2>6. ds = <<>> /\ recv = RecvBuffer
    BY <1>1, <2>5, HeldNotStream
  <2>7. Len(to) = 0
    BY <2>4, <2>6
  <2>8. to = <<>>
    BY <2>7
  <2>9. Concat(received, <<>>) = received
    <3>1. received \in Seq(Sendable)
      BY DEF WireInv
    <3>2. QED  BY <3>1, JoinEmpty
  <2>10. QED  BY <2>1, <2>6, <2>8, <2>9
<1>5. QED  BY <1>2, <1>3, <1>4, LenBytesFit, SizeFits DEF BuffersFit


-----------------------------------------------------------------------------
(* Steps: each preserves the invariant and is a step of the pipe or none *)

\* send_msg drops the output buffer or adds a frame to it.
LEMMA SendIs ==
  ASSUME NEW m, Send(m), m \in Message, out \in Bytes
  PROVE  \/ lost' = TRUE /\ out' = <<>> /\ sent' = sent /\ fault' \in {TRUE, fault}
         \/ /\ lost' = FALSE /\ fault' = fault /\ sent' = Append(sent, m)
            /\ Body(m) \in Package /\ out' = Concat(out, Frame(Body(m)))
            /\ Len(out') <= SendBufferSize
<1>1. PICK b \in Bytes : b = Body(m) /\ Len(b) \in Nat
  <2>1. Body(m) \in Bytes
    BY BodyType
  <2>2. QED  BY <2>1 DEF Bytes
<1>2. write_7bit_encoded_int[Len(m.name)] \o m.name \o m.payload = b
  <2>1. PICK e \in Bytes, w \in Bytes, p \in Bytes :
           e = Enc(Len(m.name)) /\ w = m.name /\ p = m.payload
    BY BodyType
  <2>2. Concat(Concat(e, w), p) = Concat(e, Concat(w, p))
    BY Associative DEF Bytes
  <2>3. Concat(Concat(Enc(Len(m.name)), m.name), m.payload) = b
    BY <1>1, <2>1, <2>2 DEF Body
  <2>4. QED  BY <2>3, Zenon DEF Concat, Enc
<1>3. PICK l \in Bytes : l = write_7bit_encoded_int[Len(b)] /\ l = Enc(Len(b)) /\ Len(l) \in Nat \ {0}
  <2>1. Enc(Len(b)) \in Bytes /\ Len(Enc(Len(b))) \in Nat \ {0}
    BY <1>1, EncType
  <2>2. QED  BY <2>1 DEF Enc
<1> DEFINE s0 == [out |-> out, lost |-> lost, fault |-> fault]
           s1 == send_data(s0, l)
           s2 == send_data(s1, b)
<1>4. /\ ~lost /\ out' = s2.out /\ lost' = s2.lost /\ fault' = s2.fault
      /\ sent' = IF s2.lost THEN sent ELSE Append(sent, m)
  BY <1>2, <1>3 DEF Send, send_msg
<1>5. PICK o \in Bytes : o = out /\ Len(o) \in Nat
  <2>1. Len(out) \in Nat
    BY DEF Bytes
  <2>2. QED  BY <2>1
<1>6. CASE Len(o) + Len(l) > SendBufferSize
  <2>1. s1 = [out |-> << >>, lost |-> TRUE, fault |-> fault]
    BY <1>4, <1>5, <1>6 DEF send_data
  <2>2. s2 = [out |-> << >>, lost |-> TRUE, fault |-> TRUE]
    BY <2>1 DEF send_data
  <2> HIDE DEF s1, s2
  <2>3. QED  BY <1>4, <2>2
<1>7. CASE ~(Len(o) + Len(l) > SendBufferSize)
  <2>1. PICK o1 \in Bytes : o1 = o \o l /\ Len(o1) = Len(o) + Len(l)
    <3>1. Concat(o, l) \in Bytes /\ Joined(Concat(o, l), o, l)
      BY JoinType DEF Bytes
    <3>2. Concat(o, l) \in Bytes /\ Len(Concat(o, l)) = Len(o) + Len(l)
      BY <3>1 DEF Joined
    <3>3. QED  BY <3>2 DEF Concat
  <2>2. s1 = [out |-> o1, lost |-> lost, fault |-> fault]
    BY <1>4, <1>5, <1>7, <2>1 DEF send_data
  <2>3. CASE Len(o1) + Len(b) > SendBufferSize
    <3>1. s2 = [out |-> << >>, lost |-> TRUE, fault |-> fault]
      BY <1>4, <2>2, <2>3 DEF send_data
    <3> HIDE DEF s1, s2
    <3>2. QED  BY <1>4, <3>1
  <2>4. CASE ~(Len(o1) + Len(b) > SendBufferSize)
    <3>1. PICK o2 \in Bytes : o2 = o1 \o b /\ Len(o2) = Len(o1) + Len(b)
      <4>1. Concat(o1, b) \in Bytes /\ Joined(Concat(o1, b), o1, b)
        BY JoinType DEF Bytes
      <4>2. Concat(o1, b) \in Bytes /\ Len(Concat(o1, b)) = Len(o1) + Len(b)
        BY <4>1 DEF Joined
      <4>3. QED  BY <4>2 DEF Concat
    <3>2. s2 = [out |-> o2, lost |-> lost, fault |-> fault]
      BY <1>4, <2>2, <2>4, <3>1 DEF send_data
    <3> HIDE DEF s1, s2
    <3>3. lost' = FALSE /\ fault' = fault /\ sent' = Append(sent, m) /\ out' = o2
      BY <1>4, <3>2
    <3>4. Len(b) \in 1 .. SendBufferSize
      <4>1. Len(b) # 0
        <5>1. PICK e \in Bytes, z \in Bytes :
                 /\ e = Enc(Len(m.name)) /\ z = Concat(m.name, m.payload)
                 /\ Len(e) \in Nat \ {0}
          BY BodyType, EncType
        <5>2. Joined(b, e, z)
          BY <1>1, <5>1, JoinType DEF Bytes, Body
        <5>3. Len(b) = Len(e) + Len(z) /\ Len(z) \in Nat
          BY <5>2 DEF Joined, Bytes
        <5>4. QED  BY <5>1, <5>3
      <4>2. QED  BY <1>1, <1>3, <1>5, <2>1, <2>4, <4>1, FramingAssumption
    <3>5. o2 = Concat(o, Concat(l, b))
      <4>1. Concat(Concat(o, l), b) = Concat(o, Concat(l, b))
        BY Associative DEF Bytes
      <4>2. Concat(Concat(o, l), b) = o2
        BY <2>1, <3>1, Zenon DEF Concat
      <4>3. QED  BY <4>1, <4>2
    <3>6. Len(o2) <= SendBufferSize
      BY <1>1, <1>3, <1>5, <2>1, <2>4, <3>1, FramingAssumption
    <3>7. QED  BY <1>1, <1>3, <1>5, <3>3, <3>4, <3>5, <3>6 DEF Package, Frame
  <2>5. QED  BY <2>3, <2>4
<1>8. QED  BY <1>6, <1>7

\* A message sent is put into the pipe, or the connection is lost.
LEMMA SendWire ==
  ASSUME WireInv, NEW m \in Message, Send(m)
  PROVE  WireInv' /\ [P!PipeNext]_P!pipeVars
<1>1. /\ ~lost /\ UNCHANGED <<net, recv, received>>
      /\ out \in Bytes /\ net \in Bytes /\ RecvOK(recv) /\ sent \in Seq(Sendable)
      /\ received \in Seq(Sendable) /\ lost \in BOOLEAN /\ fault \in BOOLEAN
  BY DEF WireInv, Send
<1>2. PICK to \in Seq(Sendable), rest \in Bytes :
         /\ Concat(received, to) = sent /\ rest = out
         /\ Concat(Held(recv), Concat(net, rest)) = Stream(Bodies(to))
  BY <1>1 DEF WireInv, Wired
<1>3. CASE lost' = TRUE /\ out' = <<>> /\ sent' = sent /\ fault' \in {TRUE, fault}
  <2>1. Wired'
    BY <1>1, <1>2, <1>3 DEF Wired
  <2>2. PICK z \in Bytes : z = <<>> /\ Len(z) = 0
    BY NoBytes
  <2>3. out' \in Bytes /\ Len(out') <= SendBufferSize
    BY <1>3, <2>2, FramingAssumption
  <2>4. fault' \in BOOLEAN
    BY <1>1, <1>3
  <2>5. WireInv'
    BY <1>1, <1>3, <2>1, <2>3, <2>4 DEF WireInv
  <2>6. P!Lose
    BY <1>1, <1>3 DEF P!Lose
  <2>7. QED  BY <2>5, <2>6 DEF P!PipeNext
<1>4. CASE /\ lost' = FALSE /\ fault' = fault /\ sent' = Append(sent, m)
           /\ Body(m) \in Package /\ out' = Concat(out, Frame(Body(m)))
           /\ Len(out') <= SendBufferSize
  <2>1. m \in Sendable
    BY <1>4 DEF Sendable
  <2>2. PICK f \in Bytes : f = Frame(Body(m))
    BY <1>4, FrameType
  <2>3. PICK o \in Bytes : o = Concat(rest, f)
    BY JoinType DEF Bytes
  <2>4. PICK ns \in Seq(Sendable) : ns = Append(to, m)
    <3>1. Append(to, m) \in Seq(Sendable)
      BY <2>1
    <3>2. QED  BY <3>1
  <2>5. Concat(received, ns) = Append(sent, m)
    BY <1>1, <1>2, <2>1, <2>4, JoinAppend
  <2>6. PICK h \in Bytes : h = Held(recv)
    BY <1>1, HeldType
  <2>7. Concat(h, Concat(net, o)) = Stream(Bodies(ns))
    <3>1. Stream(Bodies(ns)) = Concat(Stream(Bodies(to)), f)
      <4>1. Bodies(to) \in Seq(Package) /\ Bodies(ns) = Append(Bodies(to), Body(m))
        BY <2>1, <2>4, BodiesType, BodiesAppend
      <4>2. QED  BY <1>4, <2>2, <4>1, StreamAppend
    <3>2. Concat(Concat(h, Concat(net, rest)), f) = Concat(h, Concat(net, Concat(rest, f)))
      BY <1>1, InnerPieces
    <3>3. QED  BY <1>2, <2>3, <2>6, <3>1, <3>2
  <2>8. Append(sent, m) \in Seq(Sendable)
    BY <1>1, <2>1
  <2>9. out' = o
    BY <1>2, <1>4, <2>2, <2>3
  <2>10. Wired'
    BY <1>1, <1>4, <2>5, <2>6, <2>7, <2>9 DEF Wired
  <2>11. WireInv'
    BY <1>1, <1>4, <2>8, <2>9, <2>10 DEF WireInv
  <2>12. P!Put(m)
    BY <1>1, <1>4 DEF P!Put
  <2>13. QED  BY <2>11, <2>12 DEF P!PipeNext
<1>5. QED  BY <1>1, <1>3, <1>4, SendIs

\* Bytes handed to the kernel stay in the stream.
LEMMA FlushWire ==
  ASSUME WireInv, SomeFlush
  PROVE  WireInv' /\ [P!PipeNext]_P!pipeVars
<1>1. PICK n \in 1 .. Len(out) : Flush(n)
  BY DEF SomeFlush
<1>2. /\ UNCHANGED <<recv, lost, fault, sent, received>>
      /\ net' = net \o SubSeq(out, 1, n) /\ out' = SubSeq(out, n + 1, Len(out))
  BY <1>1 DEF Flush
<1>3. PICK o \in Bytes : o = out /\ Len(o) \in Nat /\ Len(o) <= SendBufferSize /\ n \in 1 .. Len(o)
  <2>1. out \in Bytes /\ Len(out) <= SendBufferSize
    BY DEF WireInv
  <2>2. Len(out) \in Nat
    BY <2>1 DEF Bytes
  <2>3. QED  BY <2>1, <2>2
<1>4. ~lost
  <2>1. lost => Len(out) = 0
    BY DEF WireInv
  <2>2. QED  BY <1>3, <2>1
<1>5. PICK x \in Bytes, y \in Bytes :
         /\ x = SubSeq(o, 1, n) /\ y = SubSeq(o, n + 1, Len(o)) /\ Concat(x, y) = o
         /\ Len(y) = Len(o) - n
  <2>1. PICK k \in 0 .. Len(o) : k = n
    BY <1>3
  <2>2. /\ SubSeq(o, 1, k) \in Bytes /\ SubSeq(o, k + 1, Len(o)) \in Bytes
        /\ Len(SubSeq(o, k + 1, Len(o))) = Len(o) - k
        /\ Concat(SubSeq(o, 1, k), SubSeq(o, k + 1, Len(o))) = o
    BY JoinCut DEF Bytes
  <2>3. QED  BY <2>1, <2>2
<1>6. net \in Bytes /\ RecvOK(recv)
  BY DEF WireInv
<1>7. PICK w \in Bytes : w = net \o x
  <2>1. Concat(net, x) \in Bytes
    BY <1>6, JoinType DEF Bytes
  <2>2. QED  BY <2>1 DEF Concat
<1>8. net' = w /\ out' = y /\ w = Concat(net, x)
  BY <1>2, <1>3, <1>5, <1>7 DEF Concat
<1>9. PICK to \in Seq(Sendable) :
         Concat(received, to) = sent /\ Concat(Held(recv), Concat(net, o)) = Stream(Bodies(to))
  BY <1>3, <1>4 DEF WireInv, Wired
<1>10. Concat(w, y) = Concat(net, o)
  <2>1. Concat(Concat(net, x), y) = Concat(net, Concat(x, y))
    BY <1>6, Associative DEF Bytes
  <2>2. QED  BY <1>5, <1>8, <2>1
<1>11. Wired'
  BY <1>2, <1>8, <1>9, <1>10 DEF Wired
<1>12. Len(y) <= SendBufferSize
  BY <1>3, <1>5, FramingAssumption
<1>13. WireInv'
  BY <1>2, <1>4, <1>6, <1>8, <1>11, <1>12 DEF WireInv
<1>14. UNCHANGED P!pipeVars
  BY <1>2 DEF P!pipeVars
<1>15. QED  BY <1>13, <1>14

\* What a read brings is what the pipe gives next, or nothing yet.
LEMMA ReadWire ==
  ASSUME WireInv, SomeRead
  PROVE  WireInv' /\ [P!PipeNext]_P!pipeVars
<1>1. PICK n \in 1 .. Len(net) : handle_data(n)
  BY DEF SomeRead
<1>2. /\ out \in Bytes /\ net \in Bytes /\ RecvOK(recv) /\ recv \in Buffer
      /\ sent \in Seq(Sendable) /\ received \in Seq(Sendable)
  BY DEF WireInv, RecvOK
<1>3. PICK w \in Bytes : w = net /\ Len(w) \in Nat /\ n \in 1 .. Len(w)
  <2>1. Len(net) \in Nat
    BY <1>2 DEF Bytes
  <2>2. QED  BY <1>2, <2>1
<1>4. PICK x \in Bytes, y \in Bytes :
         x = SubSeq(w, 1, n) /\ y = SubSeq(w, n + 1, Len(w)) /\ Concat(x, y) = w
  <2>1. PICK k \in 0 .. Len(w) : k = n
    BY <1>3
  <2>2. /\ SubSeq(w, 1, k) \in Bytes /\ SubSeq(w, k + 1, Len(w)) \in Bytes
        /\ Concat(SubSeq(w, 1, k), SubSeq(w, k + 1, Len(w))) = w
    BY JoinCut DEF Bytes
  <2>3. QED  BY <2>1, <2>2
<1>5. PICK to \in Seq(Sendable), rest \in Bytes :
         /\ Concat(received, to) = sent /\ (lost \/ rest = out)
         /\ Concat(Held(recv), Concat(w, rest)) = Stream(Bodies(to))
  BY <1>3 DEF WireInv, Wired
<1>6. PICK t \in Bytes : t = Concat(y, rest)
  BY JoinType DEF Bytes
<1>7. PICK bs \in Seq(Package) : bs = Bodies(to)
  BY BodiesType
<1>8. PICK c0 : c0 = Cursor(recv, x)
  OBVIOUS
<1>9. PICK none \in Seq(Package) : none = <<>>
  <2>1. <<>> \in Seq(Package)
    OBVIOUS
  <2>2. QED  BY <2>1
<1>10. Serves(c0, bs, t)
  <2>1. c0 \in Cursors /\ c0.rb = recv /\ c0.left = x /\ c0.msgs = none
    BY <1>2, <1>8, <1>9 DEF Cursor, Cursors
  <2>2. Concat(x, t) = Concat(w, rest)
    <3>1. Concat(Concat(x, y), rest) = Concat(x, Concat(y, rest))
      BY Associative DEF Bytes
    <3>2. QED  BY <1>4, <1>6, <3>1
  <2>3. Holds(c0, bs, t)
    BY <1>2, <1>5, <1>7, <2>1, <2>2 DEF Holds
  <2>4. Concat(none, bs) = bs
    BY <1>9, JoinEmpty
  <2>5. QED  BY <2>1, <2>3, <2>4 DEF Serves
<1>11. PICK c : c = Cut(c0) /\ Serves(c, bs, t) /\ c.left = <<>>
  BY <1>10, CutServes
<1>12. PICK ms \in Seq(Package), ds \in Seq(Package) :
          c.msgs = ms /\ Concat(ms, ds) = bs /\ Holds(c, ds, t)
  BY <1>11 DEF Serves
<1>13. PICK hs \in Seq(Sendable), cs \in Seq(Sendable) :
          /\ Concat(hs, cs) = to /\ ds = Bodies(cs)
          /\ [i \in 1 .. Len(ms) |-> Split(ms[i])] = hs
  BY <1>7, <1>12, BodiesCut
<1>14. RecvOK(c.rb) /\ Concat(Held(c.rb), t) = Stream(ds)
  <2>1. Concat(<<>>, t) = t
    BY JoinEmpty DEF Bytes
  <2>2. QED  BY <1>11, <1>12, <2>1 DEF Holds
<1>15. /\ net' = y /\ recv' = c.rb /\ UNCHANGED <<out, lost, fault, sent>>
       /\ received' = received \o [i \in 1 .. Len(ms) |-> Split(ms[i])]
  BY <1>1, <1>3, <1>4, <1>8, <1>11, <1>12 DEF handle_data
<1>16. PICK gs \in Seq(Sendable) : gs = Concat(received, hs) /\ Joined(gs, received, hs)
  BY <1>2, JoinType
<1>17. received' = gs
  BY <1>13, <1>15, <1>16 DEF Concat
<1>18. Concat(gs, cs) = sent
  <2>1. Concat(Concat(received, hs), cs) = Concat(received, Concat(hs, cs))
    BY <1>2, Associative
  <2>2. QED  BY <1>5, <1>13, <1>16, <2>1
<1>19. Wired'
  BY <1>5, <1>6, <1>13, <1>14, <1>15, <1>17, <1>18 DEF Wired
<1>20. WireInv'
  BY <1>14, <1>15, <1>17, <1>19 DEF WireInv
<1>21. [P!PipeNext]_P!pipeVars
  <2>1. Len(hs) \in Nat /\ Len(received) \in Nat /\ Len(gs) = Len(received) + Len(hs)
    BY <1>2, <1>16 DEF Joined
  <2>2. Len(gs) \in 0 .. Len(sent) /\ SubSeq(sent, 1, Len(gs)) = gs
    BY <1>18, JoinPrefix
  <2>3. CASE Len(hs) = 0
    <3>1. hs = <<>>
      BY <2>3
    <3>2. Concat(received, <<>>) = received
      BY <1>2, JoinEmpty
    <3>3. received' = received
      BY <1>16, <1>17, <3>1, <3>2
    <3>4. QED  BY <1>15, <3>3 DEF P!pipeVars
  <2>4. CASE Len(hs) # 0
    <3>1. P!Get(Len(gs))
      BY <1>15, <1>17, <2>2 DEF P!Get
    <3>2. Len(gs) \in (Len(received) + 1) .. Len(sent)
      BY <2>1, <2>2, <2>4
    <3>3. QED  BY <3>1, <3>2 DEF P!PipeNext
  <2>5. QED  BY <2>3, <2>4
<1>22. QED  BY <1>20, <1>21

\* A connection that goes away drops the end of the stream.
LEMMA LoseWire ==
  ASSUME WireInv, LoseConnection
  PROVE  WireInv' /\ [P!PipeNext]_P!pipeVars
<1>1. lost' = TRUE /\ out' = <<>> /\ UNCHANGED <<net, recv, fault, sent, received>>
  BY DEF LoseConnection
<1>2. Wired'
  BY <1>1 DEF WireInv, Wired
<1>3. PICK z \in Bytes : z = <<>> /\ Len(z) = 0
  BY NoBytes
<1>4. out' \in Bytes /\ Len(out') <= SendBufferSize
  BY <1>1, <1>3, FramingAssumption
<1>5. WireInv'
  BY <1>1, <1>2, <1>4 DEF WireInv
<1>6. P!Lose
  BY <1>1 DEF P!Lose
<1>7. QED  BY <1>5, <1>6 DEF P!PipeNext

\* Every step.
LEMMA StepWire ==
  ASSUME WireInv, [Next]_framingVars
  PROVE  WireInv' /\ [P!PipeNext]_P!pipeVars
<1>1. CASE \E m \in Message : Send(m)
  BY <1>1, SendWire
<1>2. CASE UNCHANGED framingVars
  BY <1>2 DEF framingVars, WireInv, Wired, P!pipeVars
<1>3. QED  BY <1>1, <1>2, FlushWire, ReadWire, LoseWire DEF Next

-----------------------------------------------------------------------------
(* Theorems *)

\* Whatever the sizes of buffers and the cuts: RecvBuffer writes inside its arrays, and
\* once all that was sent has been read it is empty and everything has been handled.
THEOREM BuffersAlwaysFit ==
  Spec => []BuffersFit
<1>1. Spec => []WireInv
  BY InitWireInv, StepWire, PTL DEF Spec
<1>2. QED  BY <1>1, WireInvCorrect, PTL

\* A connection is a pipe of messages: what arrives is what was sent, whole, in order and
\* once, though the stream is cut anywhere and a full buffer drops the end of it.
THEOREM ConnectionIsPipe ==
  Spec => KeepsPipe
<1>1. Spec => []WireInv
  BY InitWireInv, StepWire, PTL DEF Spec
<1>2. Init => P!PipeInit
  BY DEF Init, P!PipeInit
<1>3. WireInv /\ [Next]_framingVars => [P!PipeNext]_P!pipeVars
  BY StepWire
<1>4. QED  BY <1>1, <1>2, <1>3, PTL DEF Spec, KeepsPipe, P!PipeSpec


=============================================================================
