------------------------- MODULE PaperBackupProofs -------------------------
(***************************************************************************)
(* Proofs about what is kept on paper, for any documents, capacities,      *)
(* parities, sizes of block, dictionaries, lists of words and slips: how   *)
(* many symbols may be missing, and how typed text and words are read.     *)
(***************************************************************************)
EXTENDS PaperBackup, SequenceTheorems, FiniteSetTheorems, WellFoundedInduction, TLAPS

-----------------------------------------------------------------------------
(* A set of natural numbers that is not empty has a least one.            *)
LEMMA LeastOfNaturals ==
  ASSUME NEW T \in SUBSET Nat, T # {}
  PROVE  \E m \in T : \A k \in T : m <= k
<1>. DEFINE R == {p \in Nat \X Nat : p[1] < p[2]}
<1>1. IsWellFoundedOn(R, Nat)
  BY NatLessThanWellFounded DEF OpToRel
<1>2. \E m \in T : \A k \in T : ~ (<<k, m>> \in R)
  <2>. HIDE DEF R
  <2>. QED  BY <1>1, WFMin
<1>3. PICK m \in T : \A k \in T : ~ (<<k, m>> \in R)
  BY <1>2
<1>4. ASSUME NEW k \in T PROVE m <= k
  <2>1. <<k, m>> \in Nat \X Nat /\ <<k, m>>[1] = k /\ <<k, m>>[2] = m
    OBVIOUS
  <2>2. ~ (k < m)
    BY <1>3, <2>1
  <2>. QED  BY <2>2
<1>. QED  BY <1>4

(* A set of numbers that has 0, and with each number the next, has all.    *)
LEMMA Induction ==
  ASSUME NEW T \in SUBSET Nat, 0 \in T, \A n \in T : n + 1 \in T
  PROVE  T = Nat
<1>. DEFINE C == Nat \ T
<1>. SUFFICES ASSUME C # {} PROVE FALSE
  OBVIOUS
<1>1. PICK m \in C : \A k \in C : m <= k
  BY LeastOfNaturals
<1>2. m # 0 /\ m - 1 \in Nat /\ m - 1 \notin C
  BY <1>1
<1>. QED  BY <1>1, <1>2

(* F[k] is the first k of the sequences s, joined.                         *)
Joins(s, F, n) ==
  \A i \in 1..n : F[i] = IF i = 1 THEN s[i] ELSE F[i - 1] \o s[i]

LEMMA JoinExists ==
  ASSUME NEW S, NEW n \in Nat, NEW s \in [1..n -> Seq(S)]
  PROVE  \E F \in [1..n -> Seq(S)] : Joins(s, F, n)
<1>. DEFINE T == {k \in Nat : k <= n => \E F \in [1..k -> Seq(S)] : Joins(s, F, k)}
<1>1. 0 \in T
  <2>1. [i \in 1..0 |-> <<>>] \in [1..0 -> Seq(S)] /\ Joins(s, [i \in 1..0 |-> <<>>], 0)
    BY DEF Joins
  <2>. QED  BY <2>1
<1>2. ASSUME NEW k \in T PROVE k + 1 \in T
  <2>. SUFFICES ASSUME k + 1 <= n
                PROVE  \E F \in [1..(k + 1) -> Seq(S)] : Joins(s, F, k + 1)
    OBVIOUS
  <2>1. PICK F \in [1..k -> Seq(S)] : Joins(s, F, k)
    OBVIOUS
  <2>. DEFINE G == [i \in 1..(k + 1) |->
                     IF i <= k THEN F[i] ELSE IF i = 1 THEN s[i] ELSE F[i - 1] \o s[i]]
  <2>2. ASSUME NEW i \in 1..(k + 1)
        PROVE  G[i] \in Seq(S) /\ G[i] = IF i = 1 THEN s[i] ELSE G[i - 1] \o s[i]
    <3>1. i # 1 => i - 1 \in 1..k /\ G[i - 1] = F[i - 1] /\ F[i - 1] \in Seq(S)
      OBVIOUS
    <3>2. s[i] \in Seq(S)
      OBVIOUS
    <3>3. CASE i <= k
      <4>1. i \in 1..k /\ G[i] = F[i] /\ F[i] \in Seq(S)
        BY <3>3
      <4>2. F[i] = IF i = 1 THEN s[i] ELSE F[i - 1] \o s[i]
        BY <2>1, <4>1 DEF Joins
      <4>. QED  BY <3>1, <4>1, <4>2
    <3>4. CASE ~(i <= k)
      <4>1. G[i] = IF i = 1 THEN s[i] ELSE F[i - 1] \o s[i]
        BY <3>4
      <4>2. i # 1 => F[i - 1] \o s[i] \in Seq(S)
        BY <3>1, <3>2, ConcatProperties
      <4>. QED  BY <3>1, <3>2, <4>1, <4>2
    <3>. QED  BY <3>3, <3>4
  <2>3. G \in [1..(k + 1) -> Seq(S)]
    BY <2>2
  <2>4. Joins(s, G, k + 1)
    BY <2>2 DEF Joins
  <2>. QED  BY <2>3, <2>4
<1>3. T = Nat
  <2>1. T \in SUBSET Nat
    OBVIOUS
  <2>. HIDE DEF T
  <2>. QED  BY <1>1, <1>2, <2>1, Induction
<1>. QED  BY <1>3

LEMMA FlattenJoins ==
  ASSUME NEW S, NEW n \in Nat \ {0}, NEW s \in [1..n -> Seq(S)]
  PROVE  \E F \in [1..n -> Seq(S)] : Joins(s, F, n) /\ FlattenSeq(s) = F[n]
<1>. DEFINE Onward(g) == [i \in 1..n |-> IF i = 1 THEN s[i] ELSE g[i - 1] \o s[i]]
            G == CHOOSE g : g = Onward(g)
            T == {k \in Nat : k + 1 <= n => G[k + 1] \in Seq(S)}
<1>1. s \in Seq(Seq(S)) /\ Len(s) = n
  OBVIOUS
<1>2. FlattenSeq(s) = G[n]
  BY <1>1 DEF FlattenSeq
<1>3. PICK F \in [1..n -> Seq(S)] : Joins(s, F, n)
  BY JoinExists
<1>4. F = Onward(F)
  BY <1>3 DEF Joins
<1>5. G = Onward(G)
  <2>. HIDE DEF Onward
  <2>. QED  BY <1>4
<1>. HIDE DEF G
<1>6. Joins(s, G, n)
  BY <1>5 DEF Joins
<1>7. T = Nat
  <2>1. 0 \in T
    BY <1>6 DEF Joins
  <2>2. ASSUME NEW k \in T PROVE k + 1 \in T
    <3>. SUFFICES ASSUME (k + 1) + 1 <= n PROVE G[(k + 1) + 1] \in Seq(S)
      OBVIOUS
    <3>1. G[k + 1] \in Seq(S) /\ s[(k + 1) + 1] \in Seq(S)
      OBVIOUS
    <3>2. /\ (k + 1) + 1 \in 1..n /\ (k + 1) + 1 # 1
          /\ ((k + 1) + 1) - 1 = k + 1
      OBVIOUS
    <3>3. G[(k + 1) + 1] = G[k + 1] \o s[(k + 1) + 1]
      BY <1>6, <3>2 DEF Joins
    <3>. QED  BY <3>1, <3>3, ConcatProperties
  <2>3. T \in SUBSET Nat
    OBVIOUS
  <2>. HIDE DEF T
  <2>. QED  BY <2>1, <2>2, <2>3, Induction
<1>8. ASSUME NEW i \in 1..n PROVE G[i] \in Seq(S)
  <2>1. i - 1 \in Nat /\ (i - 1) + 1 = i
    OBVIOUS
  <2>2. i - 1 \in T
    <3>. HIDE DEF T
    <3>. QED  BY <1>7, <2>1
  <2>. QED  BY <2>1, <2>2
<1>9. G \in [1..n -> Seq(S)]
  <2>1. DOMAIN G = 1..n /\ G = [i \in DOMAIN G |-> G[i]]
    BY <1>5
  <2>. QED  BY <1>8, <2>1
<1>. QED  BY <1>2, <1>6, <1>9

LEMMA ProductsOrdered ==
  ASSUME NEW a \in Nat, NEW b \in Nat, NEW k \in Nat, a < b
  PROVE  a * k + k <= b * k /\ a * k \in Nat /\ b * k \in Nat
<1>1. PICK d \in Nat : b = a + 1 + d
  <2>1. b - a - 1 \in Nat /\ b = a + 1 + (b - a - 1)
    OBVIOUS
  <2>. QED  BY <2>1
<1>2. b * k = a * k + k + d * k
  BY <1>1
<1>3. a * k \in Nat /\ d * k \in Nat
  OBVIOUS
<1>. QED  BY <1>2, <1>3

(* Where each of the joined sequences lies, when all but the last measure  *)
(* the same.                                                               *)
Placed(s, w, n, size) ==
  /\ Len(w) = (n - 1) * size + Len(s[n])
  /\ \A i \in 1..n : \A j \in 1..Len(s[i]) : w[(i - 1) * size + j] = s[i][j]

LEMMA FlattenPlaces ==
  ASSUME NEW S, NEW n \in Nat \ {0}, NEW s \in [1..n -> Seq(S)], NEW size \in Nat,
         \A i \in 1..(n - 1) : Len(s[i]) = size
  PROVE  FlattenSeq(s) \in Seq(S) /\ Placed(s, FlattenSeq(s), n, size)
<1>1. PICK F \in [1..n -> Seq(S)] : Joins(s, F, n) /\ FlattenSeq(s) = F[n]
  BY FlattenJoins
<1>. DEFINE T == {k \in Nat : k + 1 <= n => Placed(s, F[k + 1], k + 1, size)}
<1>2. 0 \in T
  <2>1. F[1] = s[1]
    BY <1>1 DEF Joins
  <2>2. s[1] \in Seq(S) /\ Len(s[1]) \in Nat /\ (1 - 1) * size = 0
    BY LenProperties
  <2>3. ASSUME NEW i \in 1..1, NEW j \in 1..Len(s[i])
        PROVE  F[1][(i - 1) * size + j] = s[i][j]
    <3>1. i = 1 /\ (i - 1) * size + j = j
      BY <2>2
    <3>. QED  BY <2>1, <3>1
  <2>4. Placed(s, F[1], 1, size)
    <3>1. Len(F[1]) = (1 - 1) * size + Len(s[1])
      <4>. DEFINE l == Len(s[1])
      <4>1. l \in Nat /\ Len(F[1]) = l
        BY <2>1, <2>2
      <4>. HIDE DEF l
      <4>2. l = (1 - 1) * size + l
        BY <4>1
      <4>. QED  BY <4>1, <4>2 DEF l
    <3>. QED  BY <2>3, <3>1, Zenon DEF Placed
  <2>5. 0 + 1 = 1
    OBVIOUS
  <2>. QED  BY <2>4, <2>5
<1>3. ASSUME NEW k \in T PROVE k + 1 \in T
  <2>. DEFINE m == k + 1
  <2>. SUFFICES ASSUME m + 1 <= n PROVE Placed(s, F[m + 1], m + 1, size)
    OBVIOUS
  <2>1. Placed(s, F[m], m, size)
    OBVIOUS
  <2>2. /\ m \in 1..(n - 1) /\ m \in 1..n /\ m + 1 \in 1..n /\ m \in Nat
        /\ (m + 1) - 1 = m /\ m + 1 # 1 /\ m - 1 \in Nat
    OBVIOUS
  <2>. HIDE DEF m
  <2>3. F[m + 1] = F[m] \o s[m + 1]
    BY <1>1, <2>2 DEF Joins
  <2>4. F[m] \in Seq(S) /\ s[m + 1] \in Seq(S) /\ Len(s[m + 1]) \in Nat /\ Len(s[m]) = size
    BY <2>2, LenProperties
  <2>5. Len(F[m]) = m * size /\ m * size \in Nat
    <3>1. (m - 1) * size + size = m * size
      BY <2>2
    <3>. QED  BY <2>1, <2>2, <2>4, <3>1 DEF Placed
  <2>6. /\ Len(F[m + 1]) = m * size + Len(s[m + 1])
        /\ \A i \in 1..(m * size + Len(s[m + 1])) :
             F[m + 1][i] = IF i <= m * size THEN F[m][i] ELSE s[m + 1][i - m * size]
    <3>. DEFINE p == F[m]
                q == s[m + 1]
                w == F[m + 1]
                z == m * size
    <3>1. p \in Seq(S) /\ q \in Seq(S) /\ Len(p) = z /\ w = p \o q
      BY <2>3, <2>4, <2>5
    <3>. HIDE DEF p, q, w, z
    <3>2. /\ Len(p \o q) = Len(p) + Len(q)
          /\ \A i \in 1..(Len(p) + Len(q)) :
               (p \o q)[i] = IF i <= Len(p) THEN p[i] ELSE q[i - Len(p)]
      BY <3>1, ConcatProperties
    <3>3. /\ Len(w) = z + Len(q)
          /\ \A i \in 1..(z + Len(q)) : w[i] = IF i <= z THEN p[i] ELSE q[i - z]
      BY <3>1, <3>2, Zenon
    <3>. QED  BY <3>3 DEF p, q, w, z
  <2>7. ASSUME NEW i \in 1..(m + 1), NEW j \in 1..Len(s[i])
        PROVE  F[m + 1][(i - 1) * size + j] = s[i][j]
    <3>1. CASE i = m + 1
      <4>1. /\ (i - 1) * size + j = m * size + j
            /\ m * size + j \in 1..(m * size + Len(s[m + 1]))
            /\ ~(m * size + j <= m * size) /\ (m * size + j) - m * size = j
        BY <2>2, <2>4, <2>5, <3>1
      <4>. QED  BY <2>6, <3>1, <4>1
    <3>2. CASE i # m + 1
      <4>1. i \in 1..m /\ i - 1 \in Nat /\ i - 1 < m /\ i \in 1..(n - 1)
        BY <2>2, <3>2
      <4>2. Len(s[i]) = size
        BY <4>1
      <4>3. (i - 1) * size + size <= m * size /\ (i - 1) * size \in Nat
        BY <2>2, <4>1, ProductsOrdered
      <4>4. (i - 1) * size + j \in 1..(m * size)
        <5>. DEFINE a == (i - 1) * size
                    z == m * size
        <5>1. a \in Nat /\ z \in Nat /\ a + size <= z /\ j \in 1..size
          BY <2>5, <4>2, <4>3
        <5>. HIDE DEF a, z
        <5>2. a + j \in 1..z
          BY <5>1
        <5>. QED  BY <5>2 DEF a, z
      <4>5. F[m + 1][(i - 1) * size + j] = F[m][(i - 1) * size + j]
        <5>. DEFINE a == (i - 1) * size + j
                    z == m * size
        <5>1. a \in 1..z /\ z \in Nat
          BY <2>5, <4>4
        <5>2. \A x \in 1..(z + Len(s[m + 1])) :
                F[m + 1][x] = IF x <= z THEN F[m][x] ELSE s[m + 1][x - z]
          BY <2>6
        <5>. HIDE DEF a, z
        <5>3. a \in 1..(z + Len(s[m + 1])) /\ a <= z
          BY <2>4, <5>1
        <5>4. F[m + 1][a] = F[m][a]
          BY <5>2, <5>3
        <5>. QED  BY <5>4 DEF a
      <4>6. F[m][(i - 1) * size + j] = s[i][j]
        BY <2>1, <4>1 DEF Placed
      <4>. QED  BY <4>5, <4>6
    <3>. QED  BY <3>1, <3>2
  <2>. QED  BY <2>2, <2>6, <2>7 DEF Placed
<1>4. T = Nat
  <2>1. T \in SUBSET Nat
    OBVIOUS
  <2>. HIDE DEF T
  <2>. QED  BY <1>2, <1>3, <2>1, Induction
<1>5. n - 1 \in Nat /\ (n - 1) + 1 = n /\ n \in 1..n
  OBVIOUS
<1>6. n - 1 \in T
  <2>. HIDE DEF T
  <2>. QED  BY <1>4, <1>5
<1>7. Placed(s, F[n], n, size)
  BY <1>5, <1>6
<1>. QED  BY <1>1, <1>5, <1>7

-----------------------------------------------------------------------------
LEMMA Euclid ==
  ASSUME NEW a \in Int, NEW m \in Nat \ {0}
  PROVE  /\ a % m \in 0..(m - 1) /\ a \div m \in Int
         /\ a = m * (a \div m) + (a % m)
BY SMT

LEMMA QuotientIsNat ==
  ASSUME NEW a \in Nat, NEW m \in Nat \ {0}
  PROVE  a \div m \in Nat
<1>. DEFINE q == a \div m
            r == a % m
<1>1. q \in Int /\ r \in 0..(m - 1) /\ a = m * q + r
  <2>1. a \in Int
    OBVIOUS
  <2>. QED  BY <2>1, Euclid
<1>. HIDE DEF q, r
<1>. SUFFICES ASSUME q <= -1 PROVE FALSE
  BY <1>1 DEF q
<1>2. -1 - q \in Nat /\ m * (-1 - q) \in Nat
  BY <1>1
<1>3. m * q = -m - m * (-1 - q)
  BY <1>1
<1>4. m * q \in Int
  BY <1>1
<1>. QED  BY <1>1, <1>2, <1>3, <1>4

LEMMA ProductMonotone ==
  ASSUME NEW a \in Nat, NEW b \in Nat, NEW k \in Nat, a <= b
  PROVE  a * k <= b * k /\ k * a <= k * b /\ a * k \in Nat /\ b * k \in Nat
<1>1. PICK d \in Nat : b = a + d
  <2>1. b - a \in Nat /\ b = a + (b - a)
    OBVIOUS
  <2>. QED  BY <2>1
<1>2. b * k = a * k + d * k
  BY <1>1
<1>3. a * k \in Nat /\ d * k \in Nat
  OBVIOUS
<1>4. k * a = a * k /\ k * b = b * k
  OBVIOUS
<1>. QED  BY <1>2, <1>3, <1>4

(* The quotient rounded up counts the multiples of b from 0 that are below *)
(* a.                                                                      *)
LEMMA CeilDivCounts ==
  ASSUME NEW a \in Nat, NEW b \in Nat \ {0}
  PROVE  /\ CeilDiv(a, b) \in Nat
         /\ \A k \in Nat \ {0} : k <= CeilDiv(a, b) <=> (k - 1) * b < a
         /\ a <= CeilDiv(a, b) * b
<1>. DEFINE c == CeilDiv(a, b)
            r == (a + b - 1) % b
<1>1. c \in Int /\ r \in 0..(b - 1) /\ a + b - 1 = b * c + r
  <2>1. a + b - 1 \in Int
    OBVIOUS
  <2>. QED  BY <2>1, Euclid DEF CeilDiv
<1>. HIDE DEF c, r
<1>2. c \in Nat
  <2>. SUFFICES ASSUME c <= -1 PROVE FALSE
    BY <1>1
  <2>1. (-1 - c) \in Nat /\ b \in Nat
    BY <1>1
  <2>2. b * (-1 - c) \in Nat
    BY <2>1
  <2>3. b * c = -b - b * (-1 - c)
    BY <1>1
  <2>4. b * c \in Int
    BY <1>1
  <2>. QED  BY <1>1, <2>1, <2>2, <2>3, <2>4
<1>3. c * b = b * c /\ c * b \in Nat
  BY <1>2
<1>4. a <= c * b /\ c * b < a + b
  BY <1>1, <1>3
<1>5. ASSUME NEW k \in Nat \ {0}
      PROVE  k <= c <=> (k - 1) * b < a
  <2>1. k - 1 \in Nat /\ b \in Nat /\ (k - 1) * b \in Nat /\ k * b \in Nat
    OBVIOUS
  <2>2. (k - 1) * b = k * b - b
    OBVIOUS
  <2>3. ASSUME k <= c PROVE (k - 1) * b < a
    <3>1. k * b <= c * b
      BY <1>2, <2>1, <2>3, ProductMonotone
    <3>. QED  BY <1>3, <1>4, <2>1, <2>2, <3>1
  <2>4. ASSUME ~(k <= c) PROVE ~((k - 1) * b < a)
    <3>1. c <= k - 1
      BY <1>2, <2>4
    <3>2. c * b <= (k - 1) * b
      BY <1>2, <2>1, <3>1, ProductMonotone
    <3>. QED  BY <1>3, <1>4, <2>1, <3>2
  <2>. QED  BY <2>3, <2>4
<1>. QED  BY <1>2, <1>4, <1>5 DEF c

LEMMA SmallestAndLargest ==
  ASSUME NEW S \in SUBSET Nat, NEW x \in S, NEW top \in Nat, \A y \in S : y <= top
  PROVE  Max(S) \in S /\ \A y \in S : y <= Max(S)
<1>. DEFINE T == {top - y : y \in S}
<1>1. T \in SUBSET Nat /\ T # {}
  OBVIOUS
<1>2. PICK m \in T : \A k \in T : m <= k
  <2>. HIDE DEF T
  <2>. QED  BY <1>1, LeastOfNaturals
<1>3. PICK z \in S : m = top - z
  OBVIOUS
<1>4. ASSUME NEW y \in S PROVE z >= y
  <2>1. top - y \in T
    OBVIOUS
  <2>2. m <= top - y
    <3>. HIDE DEF T
    <3>. QED  BY <1>2, <2>1
  <2>3. z \in Nat /\ y \in Nat
    OBVIOUS
  <2>. QED  BY <1>3, <2>2, <2>3
<1>5. Max(S) \in S /\ \A y \in S : Max(S) >= y
  BY <1>4 DEF Max
<1>. QED  BY <1>5

(* The greater of two, the smaller of two.                                 *)
LEMMA OfTwo ==
  ASSUME NEW a \in Int, NEW b \in Int
  PROVE  /\ Max({a, b}) = IF a >= b THEN a ELSE b
         /\ Min({a, b}) = IF a <= b THEN a ELSE b
<1>1. \E x \in {a, b} : \A y \in {a, b} : x >= y
  OBVIOUS
<1>2. \E x \in {a, b} : \A y \in {a, b} : x <= y
  OBVIOUS
<1>. QED  BY <1>1, <1>2 DEF Max, Min

-----------------------------------------------------------------------------
(* The cells of symbol j, of total, are those at j, j + total, ... as far  *)
(* as the stream goes.                                                     *)
LEMMA InterleaveTakes ==
  ASSUME NEW S, NEW stream \in Seq(S), NEW total \in Nat \ {0}, NEW j \in 0..(total - 1)
  PROVE  /\ interleave(stream, total, j) \in Seq(S)
         /\ \A k \in Nat \ {0} :
              /\ k <= Len(interleave(stream, total, j)) <=> position(j, k, total) < Len(stream)
              /\ k <= Len(interleave(stream, total, j)) =>
                   interleave(stream, total, j)[k] = stream[position(j, k, total) + 1]
<1>. DEFINE l == Len(stream)
            c == CeilDiv(l, total)
            mine == {k \in 1..c : position(j, k, total) < l}
            a == IF j < l THEN l - j ELSE 0
            m == CeilDiv(a, total)
<1>1. l \in Nat /\ a \in Nat
  BY LenProperties
<1>2. /\ c \in Nat /\ m \in Nat
      /\ \A k \in Nat \ {0} : k <= c <=> (k - 1) * total < l
      /\ \A k \in Nat \ {0} : k <= m <=> (k - 1) * total < a
  <2>. HIDE DEF l, a
  <2>. QED  BY <1>1, CeilDivCounts
<1>. HIDE DEF c, m
<1>3. ASSUME NEW k \in Nat \ {0}
      PROVE  /\ (k - 1) * total \in Nat
             /\ k <= m <=> position(j, k, total) < l
             /\ k <= m => k \in 1..c
             /\ k <= m => position(j, k, total) + 1 \in 1..l
  <2>1. k - 1 \in Nat /\ total \in Nat
    OBVIOUS
  <2>2. (k - 1) * total \in Nat
    BY <2>1
  <2>. DEFINE q == (k - 1) * total
  <2>3. position(j, k, total) = j + q /\ q \in Nat
    BY <2>2 DEF position
  <2>4. (k <= c <=> q < l) /\ (k <= m <=> q < a)
    BY <1>2
  <2>. HIDE DEF q, l
  <2>5. q < a <=> j + q < l
    BY <1>1, <2>3
  <2>. QED  BY <1>1, <1>2, <2>2, <2>3, <2>4, <2>5
<1>4. mine = 1..m
  <2>1. ASSUME NEW k \in mine PROVE k \in 1..m
    BY <1>2, <1>3
  <2>2. ASSUME NEW k \in 1..m PROVE k \in mine
    BY <1>2, <1>3
  <2>. QED  BY <2>1, <2>2
<1>5. Cardinality(mine) = m
  <2>1. Cardinality(1..m) = m
    <3>1. 1 \in Int /\ m \in Int
      BY <1>2
    <3>2. Cardinality(1..m) = IF 1 > m THEN 0 ELSE m - 1 + 1
      BY <3>1, FS_Interval
    <3>. QED  BY <1>2, <3>2
  <2>. QED  BY <1>4, <2>1
<1>6. interleave(stream, total, j) = [k \in 1..m |-> stream[position(j, k, total) + 1]]
  BY <1>5 DEF interleave, c
<1>7. \A k \in 1..m : stream[position(j, k, total) + 1] \in S
  <2>. SUFFICES ASSUME NEW k \in 1..m PROVE stream[position(j, k, total) + 1] \in S
    OBVIOUS
  <2>1. k \in Nat \ {0} /\ k <= m
    BY <1>2
  <2>. QED  BY <1>3, <2>1, ElementOfSeq
<1>8. interleave(stream, total, j) \in Seq(S) /\ Len(interleave(stream, total, j)) = m
  BY <1>2, <1>6, <1>7
<1>. QED  BY <1>2, <1>3, <1>6, <1>8

-----------------------------------------------------------------------------
(* The symbols of a stream.                                                *)
PartOf(stream, total, j) ==
  Symbol(Version, j, total, Len(stream), interleave(stream, total, j))

(* What is read is parts of one stream, none of them twice.                *)
PartsRead(read, stream, total) ==
  /\ Len(read) \in Nat \ {0}
  /\ \A i \in 1..Len(read) :
       /\ read[i].index \in 0..(total - 1)
       /\ read[i] = PartOf(stream, total, read[i].index)
  /\ \A i, j \in 1..Len(read) : i # j => read[i].index # read[j].index

LEMMA PartFields ==
  ASSUME NEW stream, NEW total, NEW j
  PROVE  /\ PartOf(stream, total, j).version = Version
         /\ PartOf(stream, total, j).index = j
         /\ PartOf(stream, total, j).total = total
         /\ PartOf(stream, total, j).length = Len(stream)
         /\ PartOf(stream, total, j).cells = interleave(stream, total, j)
BY DEF PartOf, Symbol

(* No part is longer than the longest, and the stream goes no further than *)
(* one round beyond the end of any of its parts.                           *)
LEMMA LongestPart ==
  ASSUME NEW S, NEW stream \in Seq(S), NEW total \in Nat \ {0}, NEW read,
         PartsRead(read, stream, total)
  PROVE  /\ longest(read) \in Nat
         /\ \A i \in 1..Len(read) : Len(read[i].cells) <= longest(read)
         /\ Len(stream) <= ceiling(read, total)
<1>. DEFINE n == Len(read)
            l == Len(stream)
            L == {Len(read[i].cells) : i \in 1..n}
<1>1. n \in Nat \ {0} /\ l \in Nat
  BY LenProperties DEF PartsRead
<1>2. ASSUME NEW i \in 1..n
      PROVE  /\ Len(read[i].cells) \in Nat /\ Len(read[i].cells) <= l
             /\ l <= total * (Len(read[i].cells) + 1)
  <2>. DEFINE j == read[i].index
              t == interleave(stream, total, j)
              m == Len(t)
  <2>1. j \in 0..(total - 1) /\ read[i].cells = t
    BY PartFields DEF PartsRead
  <2>2. /\ t \in Seq(S)
        /\ \A k \in Nat \ {0} : k <= Len(t) <=> position(j, k, total) < l
    <3>. HIDE DEF j
    <3>. QED  BY <2>1, InterleaveTakes
  <2>3. m \in Nat
    BY <2>2, LenProperties
  <2>. HIDE DEF m, l, j
  <2>4. l <= total * (m + 1)
    <3>1. ~(position(j, m + 1, total) < l)
      <4>1. m + 1 \in Nat \ {0} /\ ~(m + 1 <= m)
        BY <2>3
      <4>. QED  BY <2>2, <4>1 DEF m
    <3>2. position(j, m + 1, total) = j + m * total
      <4>1. (m + 1) - 1 = m
        BY <2>3
      <4>. QED  BY <4>1 DEF position
    <3>3. total * (m + 1) = m * total + total /\ m * total \in Nat
      BY <2>3
    <3>. QED  BY <1>1, <2>1, <3>1, <3>2, <3>3
  <2>5. m <= l
    <3>. SUFFICES ASSUME m >= 1 PROVE m <= l
      BY <1>1, <2>3
    <3>1. position(j, m, total) < l
      BY <2>2, <2>3 DEF m
    <3>2. (m - 1) * 1 <= (m - 1) * total /\ (m - 1) * total \in Nat
      <4>1. m - 1 \in Nat /\ 1 \in Nat /\ total \in Nat /\ 1 <= total
        BY <2>3
      <4>. QED  BY <4>1, ProductMonotone
    <3>3. position(j, m, total) = j + (m - 1) * total
      BY DEF position
    <3>4. m - 1 <= (m - 1) * total
      BY <2>3, <3>2
    <3>. QED  BY <1>1, <2>1, <2>3, <3>1, <3>2, <3>3, <3>4
  <2>. QED  BY <2>1, <2>3, <2>4, <2>5 DEF m
<1>3. L \in SUBSET Nat /\ Len(read[1].cells) \in L /\ \A y \in L : y <= l
  BY <1>1, <1>2
<1>4. Max(L) \in L /\ \A y \in L : y <= Max(L)
  <2>. HIDE DEF L, l
  <2>. QED  BY <1>1, <1>3, SmallestAndLargest
<1>5. longest(read) = Max(L)
  BY DEF longest
<1>6. PICK i \in 1..n : Max(L) = Len(read[i].cells)
  BY <1>4
<1>7. ceiling(read, total) = total * (Len(read[i].cells) + 1)
  BY <1>5, <1>6 DEF ceiling
<1>. QED  BY <1>2, <1>3, <1>4, <1>5, <1>6, <1>7

(* Parts of one stream are never called incoherent.                        *)
LEMMA PartsCohere ==
  ASSUME NEW S, NEW stream \in Seq(S), NEW total \in Nat \ {0}, NEW read,
         stream # <<>>, PartsRead(read, stream, total)
  PROVE  /\ coherent(read)
         /\ read[1].total = total /\ read[1].length = Len(stream)
         /\ \A i \in 1..Len(read) : read[i].version = Version
<1>1. \A i \in 1..Len(read) :
        /\ read[i].total = total /\ read[i].length = Len(stream)
        /\ read[i].version = Version /\ read[i].index \in 0..(total - 1)
  BY PartFields DEF PartsRead
<1>2. 1 \in 1..Len(read)
  BY DEF PartsRead
<1>3. Len(stream) \in Nat \ {0}
  BY EmptySeq, LenProperties
<1>4. Len(stream) <= ceiling(read, total)
  BY LongestPart
<1>5. \A i, j \in 1..Len(read) : i # j => read[i].index # read[j].index
  BY DEF PartsRead
<1>6. \A i \in 1..Len(read) : read[i].index < total
  BY <1>1
<1>. QED  BY <1>1, <1>2, <1>3, <1>4, <1>5, <1>6 DEF coherent

LEMMA RestIsUnique ==
  ASSUME NEW m \in Nat \ {0}, NEW x \in 0..(m - 1), NEW y \in 0..(m - 1),
         NEW q \in Int, x = y + m * q
  PROVE  x = y
<1>1. CASE q = 0
  BY <1>1
<1>2. CASE q >= 1
  <2>1. m * q >= m
    BY <1>2
  <2>. QED  BY <2>1
<1>3. CASE q <= -1
  <2>1. m * q <= -m
    BY <1>3
  <2>. QED  BY <2>1
<1>. QED  BY <1>1, <1>2, <1>3

(* What is put together: the stream, with zeros wherever a part is missing.*)
Holed(stream, total, kept) ==
  [i \in 1..Len(stream) |-> IF (i - 1) % total \in kept THEN stream[i] ELSE 0]

IndicesOf(read) == {read[i].index : i \in 1..Len(read)}

LEMMA AssembledIsHoled ==
  ASSUME NEW S, NEW stream \in Seq(S), NEW total \in Nat \ {0}, NEW read,
         stream # <<>>, PartsRead(read, stream, total)
  PROVE  assembled(read) = Holed(stream, total, IndicesOf(read))
<1>. DEFINE n == Len(read)
            l == Len(stream)
            here(pos) == {c \in (1..n) \X (1..longest(read)) :
                            /\ c[2] <= Len(read[c[1]].cells)
                            /\ position(read[c[1]].index, c[2], total) = pos}
            cell(pos) == IF here(pos) = {} THEN 0
                         ELSE LET c == CHOOSE c \in here(pos) : TRUE IN read[c[1]].cells[c[2]]
<1>1. n \in Nat \ {0} /\ l \in Nat
  BY LenProperties DEF PartsRead
<1>2. read[1].total = total /\ read[1].length = l
  BY PartsCohere
<1>3. assembled(read) = [i \in 1..l |-> cell(i - 1)]
  BY <1>2 DEF assembled
<1>4. ASSUME NEW i \in 1..n
      PROVE  /\ read[i].index \in 0..(total - 1)
             /\ read[i].cells = interleave(stream, total, read[i].index)
             /\ Len(read[i].cells) \in Nat /\ Len(read[i].cells) <= longest(read)
             /\ \A k \in Nat \ {0} :
                  /\ k <= Len(read[i].cells) <=> position(read[i].index, k, total) < l
                  /\ k <= Len(read[i].cells) =>
                       read[i].cells[k] = stream[position(read[i].index, k, total) + 1]
  <2>. DEFINE j == read[i].index
              t == interleave(stream, total, j)
  <2>1. j \in 0..(total - 1) /\ read[i].cells = t
    BY PartFields DEF PartsRead
  <2>2. /\ t \in Seq(S)
        /\ \A k \in Nat \ {0} :
             /\ k <= Len(t) <=> position(j, k, total) < l
             /\ k <= Len(t) => t[k] = stream[position(j, k, total) + 1]
    <3>. HIDE DEF j
    <3>. QED  BY <2>1, InterleaveTakes
  <2>3. Len(t) \in Nat
    BY <2>2, LenProperties
  <2>4. Len(read[i].cells) <= longest(read)
    BY LongestPart
  <2>. HIDE DEF j, l
  <2>. QED  BY <2>1, <2>2, <2>3, <2>4 DEF j
<1>5. longest(read) \in Nat
  BY LongestPart
<1>6. ASSUME NEW i \in 1..l
      PROVE  cell(i - 1) = IF (i - 1) % total \in IndicesOf(read) THEN stream[i] ELSE 0
  <2>. DEFINE pos == i - 1
              j == pos % total
              q == pos \div total
  <2>1. pos \in Nat /\ pos < l /\ pos + 1 = i
    BY <1>1
  <2>2. j \in 0..(total - 1) /\ q \in Int /\ pos = total * q + j
    <3>1. pos \in Int
      BY <2>1
    <3>. QED  BY <3>1, Euclid
  <2>. HIDE DEF pos, j, q
  <2>3. q \in Nat
    BY <2>1, QuotientIsNat DEF q
  <2>4. ASSUME NEW c \in here(pos)
        PROVE  /\ c[1] \in 1..n /\ read[c[1]].index = j
               /\ read[c[1]].cells[c[2]] = stream[i]
    <3>. DEFINE x == read[c[1]].index
                k == c[2]
    <3>1. c[1] \in 1..n /\ k \in 1..longest(read)
      OBVIOUS
    <3>2. k \in Nat \ {0} /\ k - 1 \in Nat
      BY <1>5, <3>1
    <3>3. position(x, k, total) = pos /\ k <= Len(read[c[1]].cells)
      OBVIOUS
    <3>4. x \in 0..(total - 1)
      BY <1>4, <3>1
    <3>5. read[c[1]].cells[k] = stream[position(x, k, total) + 1]
      BY <1>4, <3>1, <3>2, <3>3
    <3>. HIDE DEF x, k
    <3>6. pos = x + total * (k - 1)
      <4>1. pos = x + (k - 1) * total
        BY <3>3 DEF position
      <4>2. (k - 1) * total = total * (k - 1)
        BY <3>2
      <4>. QED  BY <4>1, <4>2
    <3>7. x = j
      <4>1. total * (q - (k - 1)) = total * q - total * (k - 1)
        BY <2>3, <3>2
      <4>2. x = j + total * (q - (k - 1))
        <5>. DEFINE a == total * q
                    b == total * (k - 1)
                    d == total * (q - (k - 1))
        <5>1. a \in Int /\ b \in Int /\ d = a - b
          BY <2>3, <3>2, <4>1
        <5>2. a + j = x + b
          BY <2>2, <3>6
        <5>. HIDE DEF a, b, d
        <5>3. x = j + d
          BY <2>2, <3>4, <5>1, <5>2
        <5>. QED  BY <5>3 DEF d
      <4>3. q - (k - 1) \in Int
        BY <2>3, <3>2
      <4>. QED  BY <2>2, <3>4, <4>2, <4>3, RestIsUnique, ZenonT(30)
    <3>. QED  BY <2>1, <3>1, <3>3, <3>5, <3>7 DEF x, k
  <2>5. ASSUME NEW a \in 1..n, read[a].index = j
        PROVE  here(pos) # {}
    <3>1. position(j, q + 1, total) = pos
      <4>1. (q + 1) - 1 = q /\ q * total = total * q /\ total * q \in Int
        BY <2>3
      <4>2. position(j, q + 1, total) = j + q * total
        BY <4>1 DEF position
      <4>. QED  BY <2>2, <4>1, <4>2
    <3>2. q + 1 \in Nat \ {0}
      BY <2>3
    <3>3. q + 1 <= Len(read[a].cells)
      BY <1>4, <2>1, <2>5, <3>1, <3>2
    <3>4. q + 1 \in 1..longest(read)
      <4>1. Len(read[a].cells) \in Nat /\ Len(read[a].cells) <= longest(read)
        BY <1>4
      <4>. QED  BY <1>5, <3>2, <3>3, <4>1
    <3>5. <<a, q + 1>> \in here(pos)
      BY <2>5, <3>1, <3>3, <3>4
    <3>. QED  BY <3>5
  <2>. HIDE DEF here
  <2>6. cell(pos) = IF j \in IndicesOf(read) THEN stream[i] ELSE 0
    <3>1. CASE here(pos) = {}
      <4>1. j \notin IndicesOf(read)
        BY <2>5, <3>1 DEF IndicesOf
      <4>. QED  BY <3>1, <4>1
    <3>2. CASE here(pos) # {}
      <4>1. PICK c \in here(pos) : cell(pos) = read[c[1]].cells[c[2]]
        BY <3>2
      <4>. QED  BY <2>4, <4>1 DEF IndicesOf
    <3>. QED  BY <3>1, <3>2
  <2>. QED  BY <2>6 DEF pos, j
<1>. HIDE DEF cell
<1>. QED  BY <1>3, <1>6 DEF Holed

-----------------------------------------------------------------------------
(* Of the cells of a window of a stream, what is lost with some of its     *)
(* parts: at most one cell in every round for each of them.                *)
Gone(lost, total, lo, len) == {i \in 1..len : (lo + i - 1) % total \in lost}

LEMMA LostInWindow ==
  ASSUME NEW total, NEW lo, NEW len, NEW lost,
         total \in Nat \ {0}, lo \in Nat, len \in Nat \ {0}, lost \subseteq 0..(total - 1)
  PROVE  /\ IsFiniteSet(Gone(lost, total, lo, len))
         /\ Cardinality(Gone(lost, total, lo, len)) \in Nat /\ Cardinality(lost) \in Nat
         /\ Cardinality(Gone(lost, total, lo, len)) <= Cardinality(lost) * CeilDiv(len, total)
<1>. DEFINE gone == {i \in 1..len : (lo + i - 1) % total \in lost}
            c == CeilDiv(len, total)
            rest(i) == (lo + i - 1) % total
            round(i) == (i - 1) \div total
            f == [i \in gone |-> <<rest(i), round(i)>>]
            T == lost \X (0..(c - 1))
<1>1. c \in Nat /\ \A k \in Nat \ {0} : k <= c <=> (k - 1) * total < len
  BY CeilDivCounts
<1>2. ASSUME NEW i \in 1..len
      PROVE  /\ round(i) \in 0..(c - 1)
             /\ (i - 1) % total \in 0..(total - 1)
             /\ i - 1 = total * round(i) + ((i - 1) % total)
             /\ (lo + i - 1) \div total \in Int
             /\ lo + i - 1 = total * ((lo + i - 1) \div total) + rest(i)
  <2>1. i - 1 \in Nat /\ lo + i - 1 \in Nat
    OBVIOUS
  <2>. DEFINE q == round(i)
              r == (i - 1) % total
  <2>2. q \in Nat /\ r \in 0..(total - 1) /\ i - 1 = total * q + r
    <3>. DEFINE e == i - 1
    <3>1. e \in Nat /\ e \in Int
      BY <2>1
    <3>. HIDE DEF e
    <3>2. /\ e \div total \in Nat /\ e % total \in 0..(total - 1)
          /\ e = total * (e \div total) + (e % total)
      BY <3>1, QuotientIsNat, Euclid
    <3>. QED  BY <3>2 DEF e
  <2>3. (lo + i - 1) \div total \in Int /\ lo + i - 1 = total * ((lo + i - 1) \div total) + rest(i)
    BY <2>1, Euclid
  <2>. HIDE DEF q, r
  <2>4. q + 1 <= c
    <3>1. total * q = q * total /\ total * q \in Nat
      BY <2>2
    <3>2. q * total < len
      BY <2>2, <3>1
    <3>3. q + 1 \in Nat \ {0} /\ (q + 1) - 1 = q
      BY <2>2
    <3>. QED  BY <1>1, <3>2, <3>3
  <2>5. q \in 0..(c - 1)
    BY <1>1, <2>2, <2>4
  <2>. QED  BY <2>2, <2>3, <2>5 DEF q, r
<1>. HIDE DEF c
<1>3. f \in [gone -> T]
  BY <1>2
<1>4. ASSUME NEW i \in gone, NEW j \in gone, f[i] = f[j]
      PROVE  i = j
  <2>1. rest(i) = rest(j) /\ round(i) = round(j)
    BY <1>4
  <2>. DEFINE u == (lo + i - 1) \div total
              v == (lo + j - 1) \div total
              w == rest(i)
              q == round(i)
              x == (i - 1) % total
              y == (j - 1) % total
  <2>2. /\ i \in 1..len /\ j \in 1..len
        /\ u \in Int /\ v \in Int /\ q \in Int
        /\ x \in 0..(total - 1) /\ y \in 0..(total - 1)
        /\ lo + i - 1 = total * u + w /\ lo + j - 1 = total * v + w
        /\ i - 1 = total * q + x /\ j - 1 = total * q + y
    <3>1. i \in 1..len /\ j \in 1..len
      OBVIOUS
    <3>2. round(i) \in Int
      BY <1>1, <1>2, <3>1
    <3>. HIDE DEF gone, f
    <3>. QED  BY <1>2, <2>1, <3>1, <3>2
  <2>3. w \in Int
    <3>1. lo + i - 1 \in Int /\ total \in Nat \ {0}
      BY <2>2
    <3>2. w \in 0..(total - 1)
      BY <3>1, Euclid
    <3>. QED  BY <3>2
  <2>. HIDE DEF u, v, w, q, x, y, gone, f
  <2>4. total * (u - v) = total * u - total * v
    BY <2>2
  <2>5. total * u \in Int /\ total * v \in Int /\ total * q \in Int
    BY <2>2
  <2>6. x = y + total * (u - v)
    BY <2>2, <2>3, <2>4, <2>5
  <2>7. x = y
    <3>1. u - v \in Int
      BY <2>2
    <3>. QED  BY <2>2, <2>6, <3>1, RestIsUnique
  <2>. QED  BY <2>2, <2>5, <2>7
<1>5. f \in Injection(gone, T)
  BY <1>3, <1>4 DEF Injection, IsInjective
<1>6. IsFiniteSet(lost) /\ Cardinality(lost) \in Nat
  <2>1. IsFiniteSet(0..(total - 1))
    BY FS_Interval
  <2>. QED  BY <2>1, FS_Subset, FS_CardinalityType
<1>7. IsFiniteSet(T) /\ Cardinality(T) = Cardinality(lost) * c
  <2>1. IsFiniteSet(0..(c - 1)) /\ Cardinality(0..(c - 1)) = c
    <3>1. 0 \in Int /\ c - 1 \in Int
      BY <1>1
    <3>2. /\ IsFiniteSet(0..(c - 1))
          /\ Cardinality(0..(c - 1)) = IF 0 > c - 1 THEN 0 ELSE (c - 1) - 0 + 1
      BY <3>1, FS_Interval
    <3>. QED  BY <1>1, <3>2
  <2>. QED  BY <1>6, <2>1, FS_Product
<1>8. IsFiniteSet(gone) /\ Cardinality(gone) <= Cardinality(T)
  <2>. HIDE DEF gone, T, f
  <2>. QED  BY <1>5, <1>7, FS_Injection
<1>9. Cardinality(gone) \in Nat
  BY <1>8, FS_CardinalityType
<1>. QED  BY <1>6, <1>7, <1>8, <1>9 DEF c, Gone

-----------------------------------------------------------------------------
(* A function on 0..n that a recursion from each number to the one below   *)
(* it defines.                                                             *)
Recurs(f, n, base, step) ==
  \A k \in 0..n : f[k] = IF k = 0 THEN base ELSE step[<<k, f[k - 1]>>]

(* There is one, with values where base and step have theirs.              *)
LEMMA RecursionExists ==
  ASSUME NEW V, NEW n \in Nat, NEW base \in V, NEW step \in [(1..n) \X V -> V]
  PROVE  \E f \in [0..n -> V] : Recurs(f, n, base, step)
<1>. DEFINE T == {k \in Nat : k <= n => \E f \in [0..k -> V] : Recurs(f, k, base, step)}
<1>1. 0 \in T
  <2>1. [k \in 0..0 |-> base] \in [0..0 -> V] /\ Recurs([k \in 0..0 |-> base], 0, base, step)
    BY DEF Recurs
  <2>. QED  BY <2>1
<1>2. ASSUME NEW k \in T PROVE k + 1 \in T
  <2>. SUFFICES ASSUME k + 1 <= n
                PROVE  \E f \in [0..(k + 1) -> V] : Recurs(f, k + 1, base, step)
    OBVIOUS
  <2>1. PICK f \in [0..k -> V] : Recurs(f, k, base, step)
    OBVIOUS
  <2>. DEFINE g == [i \in 0..(k + 1) |-> IF i <= k THEN f[i] ELSE step[<<k + 1, f[k]>>]]
  <2>2. step[<<k + 1, f[k]>>] \in V
    <3>1. k + 1 \in 1..n /\ f[k] \in V
      OBVIOUS
    <3>2. <<k + 1, f[k]>> \in (1..n) \X V
      BY <3>1
    <3>. QED  BY <3>2
  <2>3. g \in [0..(k + 1) -> V]
    BY <2>2
  <2>4. ASSUME NEW i \in 0..(k + 1)
        PROVE  g[i] = IF i = 0 THEN base ELSE step[<<i, g[i - 1]>>]
    <3>1. CASE i <= k
      <4>1. g[i] = f[i] /\ (i # 0 => g[i - 1] = f[i - 1])
        BY <3>1
      <4>2. i \in 0..k
        BY <3>1
      <4>3. f[i] = IF i = 0 THEN base ELSE step[<<i, f[i - 1]>>]
        BY <2>1, <4>2 DEF Recurs
      <4>. QED  BY <4>1, <4>3
    <3>2. CASE ~(i <= k)
      <4>1. i = k + 1 /\ i # 0 /\ i - 1 = k /\ k \in 0..(k + 1)
        BY <3>2
      <4>2. g[i] = step[<<k + 1, f[k]>>] /\ g[k] = f[k]
        BY <4>1
      <4>. QED  BY <4>1, <4>2
    <3>. QED  BY <3>1, <3>2
  <2>5. Recurs(g, k + 1, base, step)
    BY <2>4 DEF Recurs
  <2>. QED  BY <2>3, <2>5
<1>3. T = Nat
  <2>1. T \in SUBSET Nat
    OBVIOUS
  <2>. HIDE DEF T
  <2>. QED  BY <1>1, <1>2, <2>1, Induction
<1>. QED  BY <1>3

(* Induction up to a bound.                                                *)
LEMMA UpTo ==
  ASSUME NEW n \in Nat, NEW T, 0 \in T, \A m \in 1..n : m - 1 \in T => m \in T
  PROVE  \A m \in 0..n : m \in T
<1>. DEFINE U == {m \in Nat : m <= n => m \in T}
<1>1. 0 \in U
  OBVIOUS
<1>2. ASSUME NEW k \in U PROVE k + 1 \in U
  <2>. SUFFICES ASSUME k + 1 <= n PROVE k + 1 \in T
    OBVIOUS
  <2>1. k + 1 \in 1..n /\ (k + 1) - 1 = k /\ k \in T
    OBVIOUS
  <2>. QED  BY <2>1
<1>3. U = Nat
  <2>1. U \in SUBSET Nat
    OBVIOUS
  <2>. HIDE DEF U
  <2>. QED  BY <1>1, <1>2, <2>1, Induction
<1>4. ASSUME NEW m \in 0..n PROVE m \in T
  <2>1. m \in U
    <3>. HIDE DEF U
    <3>. QED  BY <1>3
  <2>. QED  BY <2>1
<1>. QED  BY <1>4

-----------------------------------------------------------------------------
(* Powers.                                                                 *)

(* The powers up to one, of which the last is the power.                   *)
PowersTo(g, base, n) ==
  g \in [0..n -> Nat] /\ g[0] = 1 /\ \A k \in 1..n : g[k] = base * g[k - 1]

LEMMA PowerIs ==
  ASSUME NEW base \in Nat, NEW n \in Nat
  PROVE  \E g : PowersTo(g, base, n) /\ Power(base, n) = g[n]
<1>. DEFINE Step(h) == [i \in 0..n |-> IF i = 0 THEN 1 ELSE base * h[i - 1]]
            step == [p \in (1..n) \X Nat |-> base * p[2]]
            power == CHOOSE h : h = Step(h)
<1>1. step \in [(1..n) \X Nat -> Nat] /\ 1 \in Nat
  OBVIOUS
<1>2. PICK g \in [0..n -> Nat] : Recurs(g, n, 1, step)
  <2>. HIDE DEF step
  <2>. QED  BY <1>1, RecursionExists
<1>3. ASSUME NEW k \in 0..n PROVE g[k] = Step(g)[k]
  <2>1. k # 0 => step[<<k, g[k - 1]>>] = base * g[k - 1]
    OBVIOUS
  <2>. QED  BY <1>2, <2>1 DEF Recurs
<1>4. g = Step(g)
  BY <1>3
<1>5. power = Step(power)
  <2>. HIDE DEF Step
  <2>. QED  BY <1>4
<1>6. Power(base, n) = power[n]
  BY Zenon DEF Power
<1>. HIDE DEF power
<1>7. ASSUME NEW k \in 0..n PROVE power[k] = IF k = 0 THEN 1 ELSE base * power[k - 1]
  BY <1>5
<1>. DEFINE T == {k \in 0..n : power[k] \in Nat}
<1>8. \A k \in 0..n : k \in T
  <2>1. 0 \in T
    BY <1>7
  <2>2. ASSUME NEW k \in 1..n, k - 1 \in T PROVE k \in T
    BY <1>7, <2>2
  <2>. HIDE DEF T
  <2>. QED  BY <2>1, <2>2, UpTo
<1>9. DOMAIN power = 0..n /\ power = [k \in DOMAIN power |-> power[k]]
  BY <1>5
<1>10. power \in [0..n -> Nat]
  BY <1>8, <1>9
<1>11. PowersTo(power, base, n)
  BY <1>7, <1>10 DEF PowersTo
<1>. QED  BY <1>6, <1>11

(* Each power is the base times the one before.                            *)
LEMMA PowerUnfolds ==
  ASSUME NEW base \in Nat
  PROVE  /\ Power(base, 0) = 1
         /\ \A n \in Nat : Power(base, n) \in Nat /\ Power(base, n + 1) = base * Power(base, n)
<1>1. Power(base, 0) = 1
  <2>1. PICK g : PowersTo(g, base, 0) /\ Power(base, 0) = g[0]
    BY PowerIs
  <2>. QED  BY <2>1 DEF PowersTo
<1>2. ASSUME NEW n \in Nat
      PROVE  Power(base, n) \in Nat /\ Power(base, n + 1) = base * Power(base, n)
  <2>1. PICK g : PowersTo(g, base, n) /\ Power(base, n) = g[n]
    BY PowerIs
  <2>. DEFINE m == n + 1
  <2>2. m \in Nat /\ m - 1 = n /\ m \in 1..m
    OBVIOUS
  <2>. HIDE DEF m
  <2>3. PICK h : PowersTo(h, base, m) /\ Power(base, m) = h[m]
    BY <2>2, PowerIs
  <2>. DEFINE T == {k \in 0..n : g[k] = h[k]}
  <2>4. \A k \in 0..n : k \in T
    <3>1. 0 \in T
      BY <2>1, <2>3 DEF PowersTo
    <3>2. ASSUME NEW k \in 1..n, k - 1 \in T PROVE k \in T
      <4>1. k \in 1..m /\ k \in 0..n
        BY <2>2
      <4>2. g[k] = base * g[k - 1] /\ h[k] = base * h[k - 1] /\ g[k - 1] = h[k - 1]
        BY <2>1, <2>3, <3>2, <4>1 DEF PowersTo
      <4>. QED  BY <4>1, <4>2
    <3>. HIDE DEF T
    <3>. QED  BY <3>1, <3>2, UpTo
  <2>5. g[n] = h[n] /\ g[n] \in Nat
    BY <2>1, <2>4 DEF PowersTo
  <2>6. h[m] = base * h[m - 1]
    BY <2>2, <2>3 DEF PowersTo
  <2>. QED  BY <2>1, <2>2, <2>3, <2>5, <2>6 DEF m
<1>. QED  BY <1>1, <1>2

(* A power exceeds its exponent, and no power exceeds a later one.         *)
LEMMA PowersGrow ==
  ASSUME NEW base \in Nat \ {0, 1}
  PROVE  /\ \A n \in Nat : Power(base, n) >= n + 1
         /\ \A n \in Nat : Power(base, n + 1) > Power(base, n)
<1>0. Power(base, 0) = 1 /\ \A n \in Nat : Power(base, n) \in Nat /\ Power(base, n + 1) = base * Power(base, n)
  BY PowerUnfolds
<1>. DEFINE P(n) == Power(base, n)
            T == {n \in Nat : P(n) >= n + 1}
<1>1. 0 \in T
  BY <1>0
<1>2. ASSUME NEW n \in Nat, P(n) >= 1 PROVE P(n + 1) > P(n) /\ P(n + 1) >= 2 * P(n)
  <2>. DEFINE p == P(n)
  <2>1. p \in Nat /\ p >= 1 /\ P(n + 1) = base * p
    BY <1>0, <1>2
  <2>. HIDE DEF p
  <2>2. base * p >= 2 * p
    <3>1. 2 \in Nat /\ base \in Nat /\ 2 <= base
      OBVIOUS
    <3>. QED  BY <2>1, <3>1, ProductMonotone
  <2>. QED  BY <2>1, <2>2 DEF p
<1>3. ASSUME NEW n \in T PROVE n + 1 \in T
  <2>1. n \in Nat /\ P(n) \in Nat /\ P(n) >= n + 1 /\ P(n + 1) \in Nat
    BY <1>0
  <2>2. P(n + 1) >= 2 * P(n)
    BY <1>2, <2>1
  <2>. HIDE DEF P
  <2>3. P(n + 1) >= (n + 1) + 1
    BY <2>1, <2>2
  <2>. QED  BY <2>1, <2>3
<1>4. T = Nat
  <2>1. T \in SUBSET Nat
    OBVIOUS
  <2>. HIDE DEF T
  <2>. QED  BY <1>1, <1>3, <2>1, Induction
<1>5. \A n \in Nat : P(n) >= n + 1
  BY <1>4
<1>6. \A n \in Nat : P(n) >= 1
  BY <1>0, <1>5
<1>. QED  BY <1>2, <1>5, <1>6

LEMMA PowersOrdered ==
  ASSUME NEW base \in Nat \ {0, 1}, NEW m \in Nat, NEW n \in Nat, m <= n
  PROVE  Power(base, m) <= Power(base, n)
<1>. DEFINE T == {d \in Nat : Power(base, m) <= Power(base, m + d)}
<1>0. \A k \in Nat : Power(base, k) \in Nat
  BY PowerUnfolds
<1>1. 0 \in T
  <2>1. m + 0 = m
    OBVIOUS
  <2>. QED  BY <1>0, <2>1
<1>2. ASSUME NEW d \in T PROVE d + 1 \in T
  <2>1. m + d \in Nat /\ m + (d + 1) = (m + d) + 1
    OBVIOUS
  <2>2. Power(base, (m + d) + 1) > Power(base, m + d)
    BY <2>1, PowersGrow
  <2>3. Power(base, m + (d + 1)) \in Nat /\ Power(base, m + d) \in Nat /\ Power(base, m) \in Nat
    BY <1>0
  <2>4. Power(base, m + (d + 1)) = Power(base, (m + d) + 1)
    BY <2>1
  <2>5. Power(base, m) <= Power(base, m + d)
    OBVIOUS
  <2>. QED  BY <2>2, <2>3, <2>4, <2>5
<1>3. T = Nat
  <2>1. T \in SUBSET Nat
    OBVIOUS
  <2>. HIDE DEF T
  <2>. QED  BY <1>1, <1>2, <2>1, Induction
<1>4. n - m \in Nat /\ m + (n - m) = n
  OBVIOUS
<1>5. n - m \in T
  <2>. HIDE DEF T
  <2>. QED  BY <1>3, <1>4
<1>. QED  BY <1>4, <1>5

-----------------------------------------------------------------------------
(* Numbers in a base.                                                      *)

(* A digit after a number, and a number without its last digit.            *)
LEMMA LastDigit ==
  ASSUME NEW base \in Nat \ {0, 1}
  PROVE  /\ \A a \in Nat, d \in 0..(base - 1) :
              ((base * a + d) \div base) = a /\ ((base * a + d) % base) = d
         /\ \A v \in Nat : v \div base \in Nat /\ (v % base) \in 0..(base - 1)
                           /\ v = base * (v \div base) + (v % base)
<1>1. ASSUME NEW v \in Nat
      PROVE  v \div base \in Nat /\ (v % base) \in 0..(base - 1)
             /\ v = base * (v \div base) + (v % base)
  <2>1. v \in Int /\ base \in Nat \ {0}
    OBVIOUS
  <2>2. v \div base \in Nat
    BY <2>1, QuotientIsNat
  <2>3. (v % base) \in 0..(base - 1) /\ v = base * (v \div base) + (v % base)
    BY <2>1, Euclid
  <2>. QED  BY <2>2, <2>3
<1>2. ASSUME NEW a \in Nat, NEW d \in 0..(base - 1)
      PROVE  ((base * a + d) \div base) = a /\ ((base * a + d) % base) = d
  <2>. DEFINE v == base * a + d
  <2>1. v \in Nat /\ base * a \in Nat
    OBVIOUS
  <2>. DEFINE q == v \div base
              r == v % base
  <2>2. q \in Nat /\ r \in 0..(base - 1) /\ v = base * q + r
    BY <1>1, <2>1
  <2>3. v = base * a + d
    OBVIOUS
  <2>. HIDE DEF v, q, r
  <2>4. ASSUME NEW x \in Nat, NEW y \in Nat, x < y PROVE base * x + base <= base * y
    <3>1. x + 1 \in Nat /\ x + 1 <= y
      BY <2>4
    <3>2. (x + 1) * base <= y * base
      BY <3>1, ProductMonotone
    <3>3. (x + 1) * base = base * x + base /\ y * base = base * y
      OBVIOUS
    <3>. QED  BY <3>2, <3>3
  <2>5. base * q \in Nat /\ base * a \in Nat
    BY <2>2
  <2>6. ~(q < a)
    <3>1. q < a => base * q + base <= base * a
      BY <2>2, <2>4
    <3>. QED  BY <2>1, <2>2, <2>3, <2>5, <3>1
  <2>7. ~(a < q)
    <3>1. a < q => base * a + base <= base * q
      BY <2>2, <2>4
    <3>. QED  BY <2>1, <2>2, <2>3, <2>5, <3>1
  <2>8. q = a
    BY <2>2, <2>6, <2>7
  <2>9. r = d
    BY <2>2, <2>3, <2>5, <2>8
  <2>. QED  BY <2>8, <2>9 DEF v, q, r
<1>. QED  BY <1>1, <1>2

(* Digits taken one by one from the top, and the values they make.         *)
ValuesTo(g, ds, n, base) ==
  g \in [0..n -> Nat] /\ g[0] = 0 /\ \A k \in 1..n : g[k] = base * g[k - 1] + ds[k]

LEMMA ValueIs ==
  ASSUME NEW base \in Nat, NEW n \in Nat, NEW ds \in [1..n -> Nat]
  PROVE  \E g : ValuesTo(g, ds, n, base) /\ ValueOf(ds, base) = g[n]
<1>. DEFINE Step(h) == [i \in 0..n |-> IF i = 0 THEN 0 ELSE base * h[i - 1] + ds[i]]
            step == [p \in (1..n) \X Nat |-> base * p[2] + ds[p[1]]]
            value == CHOOSE h : h = Step(h)
<1>0. Len(ds) = n
  OBVIOUS
<1>1. step \in [(1..n) \X Nat -> Nat] /\ 0 \in Nat
  <2>. SUFFICES ASSUME NEW p \in (1..n) \X Nat PROVE base * p[2] + ds[p[1]] \in Nat
    OBVIOUS
  <2>1. p[1] \in 1..n /\ p[2] \in Nat
    OBVIOUS
  <2>2. ds[p[1]] \in Nat /\ base * p[2] \in Nat
    BY <2>1
  <2>. QED  BY <2>2
<1>2. PICK g \in [0..n -> Nat] : Recurs(g, n, 0, step)
  <2>. HIDE DEF step
  <2>. QED  BY <1>1, RecursionExists
<1>3. ASSUME NEW k \in 0..n PROVE g[k] = Step(g)[k]
  <2>1. k # 0 => step[<<k, g[k - 1]>>] = base * g[k - 1] + ds[k]
    OBVIOUS
  <2>. QED  BY <1>2, <2>1 DEF Recurs
<1>4. g = Step(g)
  BY <1>3
<1>5. value = Step(value)
  <2>. HIDE DEF Step
  <2>. QED  BY <1>4
<1>6. ValueOf(ds, base) = value[n]
  BY Zenon, <1>0 DEF ValueOf
<1>. HIDE DEF value
<1>7. ASSUME NEW k \in 0..n PROVE value[k] = IF k = 0 THEN 0 ELSE base * value[k - 1] + ds[k]
  BY <1>5
<1>. DEFINE T == {k \in 0..n : value[k] \in Nat}
<1>8. \A k \in 0..n : k \in T
  <2>1. 0 \in T
    BY <1>7
  <2>2. ASSUME NEW k \in 1..n, k - 1 \in T PROVE k \in T
    <3>1. k \in 0..n /\ k # 0 /\ value[k - 1] \in Nat /\ ds[k] \in Nat
      BY <2>2
    <3>. DEFINE a == base * value[k - 1]
    <3>2. a \in Nat
      BY <3>1
    <3>3. value[k] = a + ds[k]
      BY <1>7, <3>1
    <3>. HIDE DEF a
    <3>4. value[k] \in Nat
      BY <3>1, <3>2, <3>3
    <3>. QED  BY <3>1, <3>4
  <2>. HIDE DEF T
  <2>. QED  BY <2>1, <2>2, UpTo
<1>9. DOMAIN value = 0..n /\ value = [k \in DOMAIN value |-> value[k]]
  BY <1>5
<1>10. value \in [0..n -> Nat]
  BY <1>8, <1>9
<1>11. ValuesTo(value, ds, n, base)
  <2>1. 0 \in 0..n /\ \A k \in 1..n : k \in 0..n /\ k # 0
    OBVIOUS
  <2>. QED  BY <1>7, <2>1, <1>10 DEF ValuesTo
<1>. QED  BY <1>6, <1>11

-----------------------------------------------------------------------------
(* Digits of a number.                                                     *)
DigitsIn(n, base) == [1..n -> 0..(base - 1)]

(* The digits of a number, highest first.                                  *)
Shown(v, n, base) == Reverse(Lowest(v, n, base))

(* Powers are positive.                                                    *)
LEMMA PowerPositive ==
  ASSUME NEW base \in Nat \ {0, 1}, NEW n \in Nat
  PROVE  Power(base, n) \in Nat \ {0}
<1>1. Power(base, n) \in Nat
  BY PowerUnfolds
<1>2. Power(base, n) >= n + 1
  BY PowersGrow
<1>. QED  BY <1>1, <1>2

(* Dividing twice is dividing by the product.                              *)
LEMMA DividedTwice ==
  ASSUME NEW v \in Nat, NEW p \in Nat \ {0}, NEW base \in Nat \ {0, 1}
  PROVE  (v \div p) \div base = v \div (base * p)
<1>. DEFINE q == v \div p
            r == v % p
            a == q \div base
            d == q % base
            m == base * p
            e == p * d + r
<1>1. q \in Nat /\ r \in 0..(p - 1) /\ v = p * q + r
  <2>1. v \in Int
    OBVIOUS
  <2>2. q \in Nat
    BY QuotientIsNat
  <2>3. r \in 0..(p - 1) /\ v = p * q + r
    BY <2>1, Euclid
  <2>. QED  BY <2>2, <2>3
<1>. HIDE DEF q, r
<1>2. a \in Nat /\ d \in 0..(base - 1) /\ q = base * a + d
  BY <1>1, LastDigit
<1>. HIDE DEF a, d
<1>3. m \in Nat \ {0, 1}
  <2>1. 1 \in Nat /\ p \in Nat /\ base \in Nat /\ 1 <= p
    OBVIOUS
  <2>2. 1 * base <= p * base
    BY <2>1, ProductMonotone
  <2>3. p * base = m /\ m \in Nat
    OBVIOUS
  <2>. QED  BY <2>2, <2>3
<1>4. e \in 0..(m - 1)
  <2>1. d \in Nat /\ base - 1 \in Nat /\ p \in Nat /\ d <= base - 1
    BY <1>2
  <2>2. p * d <= p * (base - 1) /\ p * d \in Nat
    BY <2>1, ProductMonotone
  <2>3. p * (base - 1) = m - p /\ m \in Nat
    OBVIOUS
  <2>. DEFINE x == p * d
  <2>4. x \in Nat /\ x <= m - p /\ e = x + r
    BY <2>2, <2>3
  <2>. HIDE DEF x, m, e
  <2>. QED  BY <1>1, <2>3, <2>4
<1>5. v = m * a + e
  <2>1. p * (base * a + d) = m * a + p * d
    BY <1>2
  <2>2. p * q = m * a + p * d
    BY <1>2, <2>1
  <2>3. m * a \in Nat /\ p * d \in Nat
    BY <1>2, <1>3
  <2>. QED  BY <1>1, <2>2, <2>3
<1>. HIDE DEF m, e
<1>6. ((m * a + e) \div m) = a
  BY <1>2, <1>3, <1>4, LastDigit
<1>7. v \div m = a
  BY <1>5, <1>6
<1>. QED  BY <1>7 DEF m, a, q

(* The quotients by the powers, each from the one before.                  *)
LEMMA Quotients ==
  ASSUME NEW v \in Nat, NEW base \in Nat \ {0, 1}
  PROVE  /\ v \div Power(base, 0) = v
         /\ \A k \in Nat : v \div Power(base, k) \in Nat
         /\ \A k \in Nat : v \div Power(base, k + 1) = (v \div Power(base, k)) \div base
<1>1. v \div Power(base, 0) = v
  <2>1. Power(base, 0) = 1
    BY PowerUnfolds
  <2>2. v \div 1 = v
    OBVIOUS
  <2>. QED  BY <2>1, <2>2
<1>2. ASSUME NEW k \in Nat
      PROVE  /\ v \div Power(base, k) \in Nat
             /\ v \div Power(base, k + 1) = (v \div Power(base, k)) \div base
  <2>. DEFINE p == Power(base, k)
  <2>1. p \in Nat \ {0}
    BY PowerPositive
  <2>2. Power(base, k + 1) = base * p
    BY PowerUnfolds
  <2>. HIDE DEF p
  <2>3. v \div p \in Nat /\ (v \div p) \div base = v \div (base * p)
    BY <2>1, QuotientIsNat, DividedTwice
  <2>4. v \div Power(base, k + 1) = (v \div p) \div base
    BY <2>2, <2>3
  <2>. QED  BY <2>3, <2>4 DEF p
<1>. QED  BY <1>1, <1>2

(* The digits of a number.                                                 *)
LEMMA ShownDigits ==
  ASSUME NEW v \in Nat, NEW n \in Nat, NEW base \in Nat \ {0, 1}
  PROVE  /\ Lowest(v, n, base) \in DigitsIn(n, base)
         /\ Shown(v, n, base) \in DigitsIn(n, base)
         /\ \A i \in 1..n : Shown(v, n, base)[i] = (v \div Power(base, n - i)) % base
<1>. DEFINE L == Lowest(v, n, base)
            Q(k) == v \div Power(base, k)
<1>1. \A k \in Nat : Q(k) \in Nat
  BY Quotients
<1>. HIDE DEF Q
<1>2. \A k \in Nat : (Q(k) % base) \in 0..(base - 1)
  BY <1>1, LastDigit
<1>3. L = [i \in 1..n |-> Q(i - 1) % base]
  BY DEF Lowest, Q
<1>4. \A i \in 1..n : i - 1 \in Nat
  OBVIOUS
<1>5. L \in [1..n -> 0..(base - 1)] /\ Len(L) = n
  <2>1. \A i \in 1..n : (Q(i - 1) % base) \in 0..(base - 1)
    BY <1>2, <1>4
  <2>. DEFINE d(i) == Q(i - 1) % base
  <2>2. L = [i \in 1..n |-> d(i)] /\ \A i \in 1..n : d(i) \in 0..(base - 1)
    BY <1>3, <2>1
  <2>. HIDE DEF L, d
  <2>3. L \in [1..n -> 0..(base - 1)]
    BY <2>2
  <2>. QED  BY <2>3
<1>6. \A i \in 1..n : L[i] = Q(i - 1) % base
  BY <1>3
<1>. HIDE DEF L
<1>7. Reverse(L) = [i \in 1..n |-> L[(n - i) + 1]]
  BY <1>5 DEF Reverse
<1>8. \A i \in 1..n : (n - i) + 1 \in 1..n /\ ((n - i) + 1) - 1 = n - i
  OBVIOUS
<1>9. Reverse(L) \in [1..n -> 0..(base - 1)]
  BY <1>5, <1>7, <1>8
<1>10. ASSUME NEW i \in 1..n PROVE Reverse(L)[i] = Q(n - i) % base
  <2>. DEFINE j == (n - i) + 1
  <2>1. j \in 1..n /\ j - 1 = n - i
    BY <1>8
  <2>2. Reverse(L)[i] = L[j]
    BY <1>7
  <2>. HIDE DEF j
  <2>3. L[j] = Q(j - 1) % base
    BY <1>6, <2>1
  <2>. QED  BY <2>1, <2>2, <2>3
<1>. QED  BY <1>5, <1>9, <1>10 DEF L, Q, Shown, DigitsIn

(* A number with no more digits than are shown is the number they write.   *)
LEMMA ShownIsRead ==
  ASSUME NEW base \in Nat \ {0, 1}, NEW n \in Nat, NEW v \in Nat, v < Power(base, n)
  PROVE  ValueOf(Shown(v, n, base), base) = v
<1>. DEFINE ds == Shown(v, n, base)
            Q(k) == v \div Power(base, k)
<1>1. ds \in [1..n -> 0..(base - 1)] /\ \A i \in 1..n : ds[i] = Q(n - i) % base
  BY ShownDigits DEF DigitsIn
<1>2. Q(0) = v /\ \A k \in Nat : Q(k) \in Nat /\ Q(k + 1) = Q(k) \div base
  BY Quotients, ZenonT(30)
<1>3. Q(n) = 0
  <2>. DEFINE p == Power(base, n)
              q == v \div p
              r == v % p
  <2>1. p \in Nat \ {0} /\ v < p
    BY PowerPositive
  <2>. HIDE DEF p
  <2>2. v \in Int
    OBVIOUS
  <2>3. q \in Nat
    BY <2>1, QuotientIsNat
  <2>4. r \in 0..(p - 1) /\ v = p * q + r
    BY <2>1, <2>2, Euclid
  <2>. HIDE DEF q, r
  <2>5. q >= 1 => p * q >= p
    <3>1. q >= 1 => p * 1 <= p * q
      <4>1. 1 \in Nat /\ p \in Nat
        BY <2>1
      <4>. QED  BY <2>3, <4>1, ProductMonotone
    <3>2. p * 1 = p /\ p * q \in Nat
      BY <2>1, <2>3
    <3>. QED  BY <2>1, <3>1, <3>2
  <2>6. p * q \in Nat
    BY <2>1, <2>3
  <2>7. q = 0
    BY <2>1, <2>3, <2>4, <2>5, <2>6
  <2>. QED  BY <2>7 DEF q, p
<1>4. ds \in [1..n -> Nat]
  BY <1>1
<1>. HIDE DEF ds, Q
<1>5. PICK g : ValuesTo(g, ds, n, base) /\ ValueOf(ds, base) = g[n]
  BY <1>4, ValueIs
<1>. DEFINE T == {m \in 0..n : g[m] = Q(n - m)}
<1>6. \A m \in 0..n : m \in T
  <2>1. 0 \in T
    <3>1. n - 0 = n /\ 0 \in 0..n /\ g[0] = 0
      BY <1>5 DEF ValuesTo
    <3>. QED  BY <1>3, <3>1
  <2>2. ASSUME NEW m \in 1..n, m - 1 \in T PROVE m \in T
    <3>. DEFINE k == n - m
    <3>1. k \in Nat /\ n - (m - 1) = k + 1 /\ m \in 0..n
      OBVIOUS
    <3>2. g[m] = base * g[m - 1] + ds[m] /\ g[m - 1] = Q(n - (m - 1)) /\ ds[m] = Q(k) % base
      BY <1>1, <1>5, <2>2 DEF ValuesTo
    <3>. HIDE DEF k
    <3>3. g[m - 1] = Q(k) \div base
      BY <1>2, <3>1, <3>2
    <3>4. Q(k) = base * (Q(k) \div base) + (Q(k) % base)
      BY <1>2, <3>1, LastDigit
    <3>5. g[m] = Q(k)
      BY <3>2, <3>3, <3>4
    <3>. QED  BY <3>1, <3>5 DEF k
  <2>. HIDE DEF T
  <2>. QED  BY <2>1, <2>2, UpTo
<1>7. g[n] = Q(n - n) /\ n - n = 0
  BY <1>6
<1>. QED  BY <1>2, <1>5, <1>7 DEF ds

(* Digits are those of the number they write.                              *)
LEMMA ReadIsShown ==
  ASSUME NEW base \in Nat \ {0, 1}, NEW n \in Nat, NEW ds \in DigitsIn(n, base)
  PROVE  /\ ValueOf(ds, base) \in Nat
         /\ ValueOf(ds, base) < Power(base, n)
         /\ Shown(ValueOf(ds, base), n, base) = ds
         /\ n # 0 /\ ds[1] # 0 => Power(base, n - 1) <= ValueOf(ds, base)
<1>. DEFINE v == ValueOf(ds, base)
            P(k) == Power(base, k)
            Q(k) == v \div Power(base, k)
<1>0. ds \in [1..n -> Nat] /\ ds \in [1..n -> 0..(base - 1)]
  BY DEF DigitsIn
<1>1. PICK g : ValuesTo(g, ds, n, base) /\ v = g[n]
  BY <1>0, ValueIs
<1>2. /\ \A k \in 0..n : g[k] \in Nat
      /\ g[0] = 0 /\ \A k \in 1..n : g[k] = base * g[k - 1] + ds[k]
  BY <1>1 DEF ValuesTo
<1>3. v \in Nat
  BY <1>1, <1>2
<1>4. P(0) = 1 /\ \A k \in Nat : P(k) \in Nat /\ P(k + 1) = base * P(k)
  BY PowerUnfolds
<1>5. Q(0) = v /\ \A k \in Nat : Q(k) \in Nat /\ Q(k + 1) = Q(k) \div base
  BY <1>3, Quotients, ZenonT(30)
<1>. HIDE DEF v, P, Q
<1>6. \A m \in 1..n : m - 1 \in 0..n /\ m \in 0..n /\ m - 1 \in Nat /\ ds[m] \in 0..(base - 1) /\ (m - 1) + 1 = m
  BY <1>0
<1>. DEFINE T == {m \in 0..n : g[m] < P(m)}
<1>7. \A m \in 0..n : m \in T
  <2>1. 0 \in T
    BY <1>2, <1>4
  <2>2. ASSUME NEW m \in 1..n, m - 1 \in T PROVE m \in T
    <3>. DEFINE x == g[m - 1]
                y == P(m - 1)
                d == ds[m]
    <3>1. x \in Nat /\ y \in Nat /\ x < y /\ d \in 0..(base - 1)
      BY <1>2, <1>4, <1>6, <2>2
    <3>2. g[m] = base * x + d /\ P(m) = base * y
      BY <1>2, <1>4, <1>6
    <3>. HIDE DEF x, y, d
    <3>3. (x + 1) * base <= y * base
      <4>1. x + 1 \in Nat /\ base \in Nat /\ x + 1 <= y
        BY <3>1
      <4>. QED  BY <3>1, <4>1, ProductMonotone
    <3>4. (x + 1) * base = base * x + base /\ y * base = base * y /\ base * x \in Nat /\ base * y \in Nat
      BY <3>1
    <3>5. g[m] < P(m)
      BY <3>1, <3>2, <3>3, <3>4
    <3>. QED  BY <1>6, <3>5
  <2>. HIDE DEF T
  <2>. QED  BY <2>1, <2>2, UpTo
<1>8. v < P(n)
  BY <1>1, <1>7
<1>. DEFINE U == {k \in 0..n : Q(k) = g[n - k]}
<1>9. \A k \in 0..n : k \in U
  <2>1. 0 \in U
    <3>1. n - 0 = n
      OBVIOUS
    <3>. QED  BY <1>1, <1>5, <3>1
  <2>2. ASSUME NEW k \in 1..n, k - 1 \in U PROVE k \in U
    <3>. DEFINE m == n - (k - 1)
    <3>1. m \in 1..n /\ m - 1 = n - k /\ k \in 0..n /\ k - 1 \in Nat /\ (k - 1) + 1 = k
      OBVIOUS
    <3>2. Q(k - 1) = g[m]
      BY <2>2
    <3>. HIDE DEF m
    <3>3. g[m] = base * g[m - 1] + ds[m] /\ g[m - 1] \in Nat /\ ds[m] \in 0..(base - 1)
      BY <1>2, <1>6, <3>1
    <3>4. (base * g[m - 1] + ds[m]) \div base = g[m - 1]
      BY <3>3, LastDigit
    <3>5. Q(k) = Q(k - 1) \div base
      BY <1>5, <3>1
    <3>6. Q(k) = g[n - k]
      BY <3>1, <3>2, <3>3, <3>4, <3>5
    <3>. QED  BY <3>1, <3>6
  <2>. HIDE DEF U
  <2>. QED  BY <2>1, <2>2, UpTo
<1>10. Shown(v, n, base) = ds
  <2>. DEFINE s == Shown(v, n, base)
  <2>1. s \in [1..n -> 0..(base - 1)] /\ \A i \in 1..n : s[i] = Q(n - i) % base
    BY <1>3, ShownDigits DEF DigitsIn, Q
  <2>. HIDE DEF s
  <2>2. ASSUME NEW i \in 1..n PROVE s[i] = ds[i]
    <3>1. n - i \in 0..n /\ n - (n - i) = i
      OBVIOUS
    <3>2. Q(n - i) = g[i]
      BY <1>9, <3>1
    <3>3. g[i] = base * g[i - 1] + ds[i] /\ g[i - 1] \in Nat /\ ds[i] \in 0..(base - 1)
      BY <1>2, <1>6
    <3>4. ((base * g[i - 1] + ds[i]) % base) = ds[i]
      BY <3>3, LastDigit
    <3>. QED  BY <2>1, <3>2, <3>3, <3>4
  <2>3. s = ds
    BY <1>0, <2>1, <2>2
  <2>. QED  BY <2>3 DEF s
<1>11. n # 0 /\ ds[1] # 0 => P(n - 1) <= v
  <2>. SUFFICES ASSUME n # 0, ds[1] # 0 PROVE P(n - 1) <= v
    OBVIOUS
  <2>. DEFINE W == {k \in 0..(n - 1) : P(k) <= g[k + 1]}
  <2>0. n - 1 \in Nat
    OBVIOUS
  <2>1. 0 \in W
    <3>1. 1 \in 1..n /\ 1 - 1 = 0 /\ 0 + 1 = 1 /\ 0 \in 0..(n - 1)
      OBVIOUS
    <3>2. g[1] = base * g[0] + ds[1] /\ ds[1] \in Nat
      BY <1>0, <1>2, <3>1
    <3>3. g[1] >= 1
      BY <1>2, <3>2
    <3>. QED  BY <1>4, <3>1, <3>3
  <2>2. ASSUME NEW k \in 1..(n - 1), k - 1 \in W PROVE k \in W
    <3>1. k + 1 \in 1..n /\ (k + 1) - 1 = k /\ k \in 0..(n - 1) /\ k \in 1..n /\ (k - 1) + 1 = k
      OBVIOUS
    <3>. DEFINE x == g[k]
                y == P(k - 1)
                d == ds[k + 1]
    <3>2. x \in Nat /\ y \in Nat /\ d \in Nat /\ y <= x
      BY <1>0, <1>2, <1>4, <1>6, <2>2, <3>1
    <3>3. g[k + 1] = base * x + d /\ P(k) = base * y
      BY <1>2, <1>4, <1>6, <3>1
    <3>. HIDE DEF x, y, d
    <3>4. base * y <= base * x /\ base * x \in Nat /\ base * y \in Nat
      <4>1. base \in Nat
        OBVIOUS
      <4>. QED  BY <3>2, <4>1, ProductMonotone
    <3>5. P(k) <= g[k + 1]
      BY <3>2, <3>3, <3>4
    <3>. QED  BY <3>1, <3>5
  <2>3. \A k \in 0..(n - 1) : k \in W
    <3>. HIDE DEF W
    <3>. QED  BY <2>0, <2>1, <2>2, UpTo
  <2>4. n - 1 \in 0..(n - 1) /\ (n - 1) + 1 = n
    BY <2>0
  <2>. QED  BY <1>1, <2>3, <2>4
<1>. QED  BY <1>3, <1>8, <1>10, <1>11 DEF v, P

-----------------------------------------------------------------------------
(* Where, among the first n cells, a and b differ.                         *)
Errors(a, b, n) == {i \in 1..n : a[i] # b[i]}

(* Two words that are within j and within k errors of the same cells       *)
(* differ in at most j + k places.                                         *)
LEMMA BothNear ==
  ASSUME NEW n \in Nat, NEW j \in Nat, NEW k \in Nat, NEW a, NEW b, NEW cells,
         Cardinality(Errors(a, cells, n)) <= j,
         Cardinality(Errors(b, cells, n)) <= k
  PROVE  Cardinality(Errors(a, b, n)) \in Nat /\ Cardinality(Errors(a, b, n)) <= j + k
<1>. DEFINE A == Errors(a, cells, n)
            B == Errors(b, cells, n)
            D == Errors(a, b, n)
<1>1. IsFiniteSet(1..n)
  BY FS_Interval
<1>2. IsFiniteSet(A) /\ IsFiniteSet(B)
  <2>1. A \subseteq 1..n /\ B \subseteq 1..n
    BY DEF Errors
  <2>. QED  BY <1>1, <2>1, FS_Subset
<1>3. D \subseteq A \cup B
  BY DEF Errors
<1>. HIDE DEF A, B, D
<1>4. IsFiniteSet(A \cup B) /\ IsFiniteSet(A \cap B)
      /\ Cardinality(A \cup B) = Cardinality(A) + Cardinality(B) - Cardinality(A \cap B)
  BY <1>2, FS_Union, FS_Intersection
<1>5. /\ Cardinality(A) \in Nat /\ Cardinality(B) \in Nat /\ Cardinality(A \cap B) \in Nat
      /\ Cardinality(A \cup B) \in Nat
  BY <1>2, <1>4, FS_CardinalityType
<1>6. Cardinality(D) \in Nat /\ Cardinality(D) <= Cardinality(A \cup B)
  BY <1>3, <1>4, FS_Subset, FS_CardinalityType
<1>7. Cardinality(A) <= j /\ Cardinality(B) <= k
  BY DEF A, B
<1>8. Cardinality(D) <= j + k
  BY <1>4, <1>5, <1>6, <1>7
<1>. QED  BY <1>6, <1>8 DEF D

(* A word of the code: the data and its parity, all of them bytes.         *)
LEMMA CodeWord ==
  ASSUME NEW n \in Nat, NEW p \in Nat, IsCode(n, p), NEW d \in [1..n -> Bytes]
  PROVE  BlockWord(d, p) \in Seq(Bytes) /\ Len(BlockWord(d, p)) = n + p
<1>. DEFINE c == Check(p, d)
<1>1. c \in [1..p -> Bytes]
  BY DEF IsCode
<1>. HIDE DEF c
<1>2. d \in Seq(Bytes) /\ Len(d) = n /\ c \in Seq(Bytes) /\ Len(c) = p
  BY <1>1
<1>3. d \o c \in Seq(Bytes) /\ Len(d \o c) = Len(d) + Len(c)
  BY <1>2, ConcatProperties
<1>. QED  BY <1>2, <1>3 DEF BlockWord, c

(* Cells no further from a word than its parity less what the decoder      *)
(* corrects are never read as another word; and no further than what it    *)
(* corrects, they are read as that word.                                   *)
LEMMA BlockFound ==
  ASSUME NEW n \in Nat, NEW p \in Nat, IsCode(n, p), NEW d \in [1..n -> Bytes], NEW cells,
         Cardinality(Errors(BlockWord(d, p), cells, n + p)) <= p - (p \div 2)
  PROVE  /\ Corrected(cells, n, p) \subseteq {d}
         /\ Cardinality(Errors(BlockWord(d, p), cells, n + p)) <= p \div 2
              => Corrected(cells, n, p) = {d}
<1>. DEFINE m == n + p
            half == p \div 2
            w(e) == BlockWord(e, p)
<1>1. half \in Nat /\ p - half \in Nat /\ (p - half) + half = p /\ m \in Nat
  OBVIOUS
<1>2. ASSUME NEW e \in [1..n -> Bytes]
      PROVE  \A c : Distance(w(e), c) = Cardinality(Errors(w(e), c, m))
  <2>1. Len(w(e)) = m
    BY CodeWord
  <2>. QED  BY <2>1 DEF Distance, Errors
<1>3. ASSUME NEW e \in [1..n -> Bytes], Cardinality(Errors(w(e), cells, m)) <= half
      PROVE  e = d
  <2>1. Cardinality(Errors(w(d), cells, m)) <= p - half
    OBVIOUS
  <2>. HIDE DEF m, half, w
  <2>2. /\ Cardinality(Errors(w(d), w(e), m)) \in Nat
        /\ Cardinality(Errors(w(d), w(e), m)) <= (p - half) + half
    BY <1>1, <1>3, <2>1, BothNear
  <2>3. Distance(w(d), w(e)) = Cardinality(Errors(w(d), w(e), m))
    BY <1>2
  <2>4. e # d => Distance(w(d), w(e)) > p
    BY DEF IsCode, w
  <2>. QED  BY <1>1, <2>2, <2>3, <2>4
<1>4. Corrected(cells, n, p) = {e \in [1..n -> Bytes] : Cardinality(Errors(w(e), cells, m)) <= half}
  BY <1>2 DEF Corrected
<1>5. Cardinality(Errors(BlockWord(d, p), cells, n + p)) <= p \div 2 => d \in Corrected(cells, n, p)
  BY <1>4
<1>. QED  BY <1>3, <1>4, <1>5

LEMMA Codes ==
  /\ HeaderData \in Nat /\ HeaderParity \in Nat /\ HeaderSize = HeaderData + HeaderParity
  /\ HeaderSize \in Nat \ {0} /\ HeaderFixes \in Nat /\ HeaderFixes >= 2
  /\ HeaderFixes = HeaderParity \div 2 /\ HeaderFixes <= HeaderParity - (HeaderParity \div 2)
  /\ IsCode(HeaderData, HeaderParity)
  /\ \A p \in 2..MaxParity : \A n \in 1..(Block - p) : IsCode(n, p)
BY EccAssumption DEF HeaderData, HeaderSize, HeaderFixes

-----------------------------------------------------------------------------
(* How protect divides a document, as recover finds it again.              *)
SizeOf(p) == Block - p
BlocksOf(data, p) == CeilDiv(Len(data), SizeOf(p))
LengthOf(data, p, b) == Min({b * SizeOf(p), Len(data)}) - (b - 1) * SizeOf(p)
FromOf(b) == HeaderSize + (b - 1) * Block
EndOf(data, p, b) == FromOf(b) + LengthOf(data, p, b) + p
PieceOf(data, p, b) == Chunk(data, SizeOf(p), b)

LEMMA Division ==
  ASSUME NEW data \in Seq(Bytes), NEW p \in 2..MaxParity
  PROVE  /\ SizeOf(p) \in Nat \ {0} /\ p \in Nat /\ SizeOf(p) + p = Block
         /\ BlocksOf(data, p) \in Nat /\ Len(data) \in Nat
         /\ BlocksOf(data, p) = 0 => data = <<>>
<1>1. SizeOf(p) \in Nat \ {0} /\ p \in Nat /\ SizeOf(p) + p = Block
  BY EccAssumption DEF SizeOf
<1>2. Len(data) \in Nat
  BY LenProperties
<1>3. BlocksOf(data, p) \in Nat /\ Len(data) <= BlocksOf(data, p) * SizeOf(p)
  BY <1>1, <1>2, CeilDivCounts DEF BlocksOf
<1>4. BlocksOf(data, p) = 0 => Len(data) = 0
  <2>. SUFFICES ASSUME BlocksOf(data, p) = 0 PROVE Len(data) = 0
    OBVIOUS
  <2>1. BlocksOf(data, p) * SizeOf(p) = 0
    BY <1>1
  <2>. QED  BY <1>2, <1>3, <2>1
<1>. QED  BY <1>1, <1>2, <1>3, <1>4, EmptySeq

LEMMA Pieces ==
  ASSUME NEW data \in Seq(Bytes), NEW p \in 2..MaxParity, NEW b \in 1..BlocksOf(data, p)
  PROVE  /\ LengthOf(data, p, b) \in 1..SizeOf(p) /\ (b - 1) * SizeOf(p) \in Nat
         /\ (b - 1) * SizeOf(p) + LengthOf(data, p, b) <= Len(data)
         /\ b < BlocksOf(data, p) => LengthOf(data, p, b) = SizeOf(p)
         /\ b = BlocksOf(data, p) => (b - 1) * SizeOf(p) + LengthOf(data, p, b) = Len(data)
         /\ PieceOf(data, p, b) \in Seq(Bytes) /\ Len(PieceOf(data, p, b)) = LengthOf(data, p, b)
         /\ \A j \in 1..LengthOf(data, p, b) :
              PieceOf(data, p, b)[j] = data[(b - 1) * SizeOf(p) + j]
<1>. DEFINE n == Len(data)
            z == SizeOf(p)
            B == BlocksOf(data, p)
            q == (b - 1) * z
            l == LengthOf(data, p, b)
<1>1. z \in Nat \ {0} /\ n \in Nat /\ B \in Nat
  BY Division
<1>2. \A k \in Nat \ {0} : k <= B <=> (k - 1) * z < n
  BY <1>1, CeilDivCounts DEF BlocksOf
<1>3. n <= B * z
  BY <1>1, CeilDivCounts DEF BlocksOf
<1>. HIDE DEF z, B, n
<1>4. b \in Nat \ {0} /\ b <= B /\ b - 1 \in Nat
  BY <1>1 DEF B
<1>5. q \in Nat /\ b * z = q + z /\ q < n
  BY <1>1, <1>2, <1>4
<1>6. l = Min({b * z, n}) - q
  BY DEF LengthOf, z, n
<1>7. Min({b * z, n}) = IF q + z <= n THEN q + z ELSE n
  <2>. DEFINE c == b * z
  <2>1. c \in Int /\ n \in Int /\ c = q + z
    BY <1>1, <1>5
  <2>. HIDE DEF c, q
  <2>2. Min({c, n}) = IF c <= n THEN c ELSE n
    BY <2>1, OfTwo
  <2>. QED  BY <2>1, <2>2 DEF c
<1>. HIDE DEF q, l
<1>8. l \in 1..z /\ q + l <= n /\ Min({b * z, n}) = q + l
  BY <1>1, <1>5, <1>6, <1>7
<1>9. b < B => l = z
  <2>. SUFFICES ASSUME b < B PROVE l = z
    OBVIOUS
  <2>1. (b + 1) - 1 = b /\ b + 1 \in Nat \ {0} /\ b + 1 <= B
    BY <1>1, <1>4
  <2>2. b * z < n
    BY <1>2, <2>1
  <2>. QED  BY <1>1, <1>5, <1>6, <1>7, <2>2
<1>10. b = B => q + l = n
  BY <1>1, <1>3, <1>5, <1>6, <1>7
<1>11. PieceOf(data, p, b) = SubSeq(data, q + 1, q + l)
  BY <1>8 DEF PieceOf, Chunk, z, n, q
<1>12. /\ PieceOf(data, p, b) \in Seq(Bytes) /\ Len(PieceOf(data, p, b)) = l
       /\ \A j \in 1..l : PieceOf(data, p, b)[j] = data[q + j]
  <2>. DEFINE from == q + 1
              to == q + l
  <2>1. from \in Int /\ to \in Int /\ from <= to /\ to - from + 1 = l /\ l \in Nat
    BY <1>1, <1>5, <1>8
  <2>2. \A i \in from..to : data[i] \in Bytes
    <3>1. \A i \in from..to : i \in 1..n
      BY <1>1, <1>5, <1>8
    <3>. QED  BY <3>1, ElementOfSeq DEF n
  <2>3. \A j \in 1..l : from + j - 1 = q + j
    BY <1>5, <1>8
  <2>4. PieceOf(data, p, b) = SubSeq(data, from, to)
    BY <1>11
  <2>. HIDE DEF from, to
  <2>5. /\ SubSeq(data, from, to) \in Seq(Bytes)
        /\ Len(SubSeq(data, from, to)) = to - from + 1
        /\ \A i \in 1..(to - from + 1) : SubSeq(data, from, to)[i] = data[from + i - 1]
    BY <2>1, <2>2, SubSeqProperties
  <2>. QED  BY <2>1, <2>3, <2>4, <2>5
<1>. QED  BY <1>5, <1>8, <1>9, <1>10, <1>12 DEF z, B, n, q, l

HeaderOf(data, p) == <<p>> \o Lowest(Len(data), LengthBytes, Radix)

(* The data of a header are bytes, that say the parity and the length.     *)
LEMMA HeaderIs ==
  ASSUME NEW data \in Seq(Bytes), NEW p \in 2..MaxParity
  PROVE  /\ HeaderOf(data, p) \in [1..HeaderData -> Bytes]
         /\ HeaderOf(data, p)[1] = p
         /\ Len(data) < Power(Radix, LengthBytes) =>
              ValueOf(Reverse(Tail(HeaderOf(data, p))), Radix) = Len(data)
<1>. DEFINE n == Len(data)
            low == Lowest(n, LengthBytes, Radix)
            h == <<p>> \o low
<1>1. /\ n \in Nat /\ LengthBytes \in Nat /\ Radix \in Nat \ {0, 1} /\ p \in Bytes
      /\ HeaderData = 1 + LengthBytes
  <2>1. MaxParity \in Nat /\ MaxParity < Radix /\ Radix \in Nat /\ Radix \in Nat \ {0, 1}
        /\ LengthBytes \in Nat
    BY EccAssumption, CodecAssumption
  <2>. QED  BY <2>1, LenProperties DEF Bytes, HeaderData
<1>. HIDE DEF n
<1>2. low \in DigitsIn(LengthBytes, Radix)
  BY <1>1, ShownDigits
<1>3. n < Power(Radix, LengthBytes) => ValueOf(Reverse(low), Radix) = n
  BY <1>1, ShownIsRead DEF Shown
<1>. HIDE DEF low
<1>4. low \in Seq(Bytes) /\ Len(low) = LengthBytes
  BY <1>1, <1>2 DEF DigitsIn, Bytes
<1>5. /\ h \in Seq(Bytes) /\ Len(h) = 1 + LengthBytes /\ h[1] = p
      /\ \A i \in 2..(1 + LengthBytes) : h[i] = low[i - 1]
  <2>1. <<p>> \in Seq(Bytes) /\ Len(<<p>>) = 1
    BY <1>1
  <2>2. /\ <<p>> \o low \in Seq(Bytes) /\ Len(<<p>> \o low) = Len(<<p>>) + Len(low)
        /\ \A i \in 1..(Len(<<p>>) + Len(low)) :
             (<<p>> \o low)[i] = IF i <= Len(<<p>>) THEN <<p>>[i] ELSE low[i - Len(<<p>>)]
    BY <1>4, <2>1, ConcatProperties
  <2>3. 1 \in 1..(1 + LengthBytes) /\ \A i \in 2..(1 + LengthBytes) : i \in 1..(1 + LengthBytes) /\ ~(i <= 1)
    BY <1>1
  <2>. HIDE DEF h
  <2>. QED  BY <1>4, <2>1, <2>2, <2>3 DEF h
<1>6. h \in [1..HeaderData -> Bytes]
  <2>. HIDE DEF h
  <2>. QED  BY <1>1, <1>5
<1>7. Tail(h) = low
  <2>. HIDE DEF h
  <2>1. h # <<>>
    BY <1>1, <1>5
  <2>2. Tail(h) \in Seq(Bytes) /\ Len(Tail(h)) = LengthBytes
        /\ \A i \in 1..LengthBytes : Tail(h)[i] = h[i + 1]
    BY <1>1, <1>5, <2>1
  <2>3. \A i \in 1..LengthBytes : Tail(h)[i] = low[i]
    <3>1. \A i \in 1..LengthBytes : i + 1 \in 2..(1 + LengthBytes) /\ (i + 1) - 1 = i
      BY <1>1
    <3>. QED  BY <1>5, <2>2, <3>1
  <2>. QED  BY <1>4, <2>2, <2>3, SeqEqual
<1>. QED  BY <1>3, <1>5, <1>6, <1>7 DEF HeaderOf, low, n

Laid(data, p) ==
  BlockWord(HeaderOf(data, p), HeaderParity)
    \o FlattenSeq([b \in 1..BlocksOf(data, p) |-> BlockWord(PieceOf(data, p, b), p)])

LEMMA ProtectIs ==
  ASSUME NEW data, NEW parity
  PROVE  protect(data, parity) = Laid(data, Clamp(parity))
BY DEF protect, HeaderWord, HeaderOf, Laid, BlocksOf, SizeOf, PieceOf

(* Where the header and the blocks lie.                                    *)
Layout(stream, data, p) ==
  /\ stream \in Seq(Bytes) /\ Len(stream) \in Nat
  /\ HeaderSize <= Len(stream) /\ Len(data) <= Len(stream)
  /\ \A i \in 1..HeaderSize : stream[i] = BlockWord(HeaderOf(data, p), HeaderParity)[i]
  /\ \A b \in 1..BlocksOf(data, p) :
       /\ FromOf(b) \in Nat /\ EndOf(data, p, b) <= Len(stream)
       /\ \A i \in 1..(LengthOf(data, p, b) + p) :
            stream[FromOf(b) + i] = BlockWord(PieceOf(data, p, b), p)[i]

LEMMA BlockOfPiece ==
  ASSUME NEW data \in Seq(Bytes), NEW p \in 2..MaxParity, NEW b \in 1..BlocksOf(data, p)
  PROVE  /\ PieceOf(data, p, b) \in [1..LengthOf(data, p, b) -> Bytes]
         /\ LengthOf(data, p, b) \in Nat \ {0} /\ IsCode(LengthOf(data, p, b), p)
         /\ Len(BlockWord(PieceOf(data, p, b), p)) = LengthOf(data, p, b) + p
         /\ BlockWord(PieceOf(data, p, b), p) \in Seq(Bytes)
<1>. DEFINE d == PieceOf(data, p, b)
            n == LengthOf(data, p, b)
<1>1. d \in Seq(Bytes) /\ Len(d) = n /\ n \in 1..(Block - p) /\ p \in Nat
  BY Pieces, Division DEF SizeOf
<1>2. n \in Nat \ {0}
  <2>1. Block \in Nat /\ MaxParity \in Nat
    BY EccAssumption
  <2>. HIDE DEF n
  <2>. QED  BY <1>1, <2>1
<1>. HIDE DEF d, n
<1>3. IsCode(n, p)
  BY <1>1, Codes
<1>4. d \in [1..n -> Bytes]
  BY <1>1, <1>2
<1>5. BlockWord(d, p) \in Seq(Bytes) /\ Len(BlockWord(d, p)) = n + p
  BY <1>1, <1>2, <1>3, <1>4, CodeWord
<1>. QED  BY <1>2, <1>3, <1>4, <1>5 DEF d, n

LEMMA LaidOut ==
  ASSUME NEW data \in Seq(Bytes), NEW p \in 2..MaxParity
  PROVE  Layout(Laid(data, p), data, p)
<1>. DEFINE B == BlocksOf(data, p)
            S == Bytes
            head == BlockWord(HeaderOf(data, p), HeaderParity)
            s == [b \in 1..B |-> BlockWord(PieceOf(data, p, b), p)]
            tail == FlattenSeq(s)
            stream == Laid(data, p)
            n == Len(data)
            z == SizeOf(p)
<1>1. /\ B \in Nat /\ n \in Nat /\ z \in Nat \ {0} /\ p \in Nat /\ z + p = Block
      /\ HeaderSize \in Nat /\ Block \in Nat /\ (B = 0 => data = <<>>)
  BY Division, EccAssumption, Codes
<1>2. head \in Seq(S) /\ Len(head) = HeaderSize
  BY HeaderIs, Codes, CodeWord
<1>3. s \in [1..B -> Seq(S)]
  BY BlockOfPiece
<1>4. ASSUME NEW b \in 1..B
      PROVE  /\ s[b] = BlockWord(PieceOf(data, p, b), p) /\ Len(s[b]) = LengthOf(data, p, b) + p
             /\ LengthOf(data, p, b) \in 1..z /\ (b < B => LengthOf(data, p, b) = z)
             /\ b = B => (b - 1) * z + LengthOf(data, p, b) = n
  BY BlockOfPiece, Pieces
<1>. HIDE DEF B, S, s, n, z, head
<1>5. /\ tail \in Seq(S)
      /\ n <= Len(tail)
      /\ \A b \in 1..B : (b - 1) * Block \in Nat /\ (b - 1) * Block + LengthOf(data, p, b) + p <= Len(tail)
      /\ \A b \in 1..B : \A i \in 1..(LengthOf(data, p, b) + p) : tail[(b - 1) * Block + i] = s[b][i]
  <2>1. CASE B = 0
    <3>1. s = <<>>
      BY <1>3, <2>1
    <3>2. tail = <<>>
      BY <3>1 DEF FlattenSeq
    <3>3. n = 0
      BY <1>1, <2>1 DEF n
    <3>4. 1..B = {}
      BY <2>1
    <3>. HIDE DEF tail
    <3>. QED  BY <3>2, <3>3, <3>4
  <2>2. CASE B # 0
    <3>1. B \in Nat \ {0} /\ B \in 1..B /\ B - 1 \in Nat
      BY <1>1, <2>2
    <3>2. \A b \in 1..(B - 1) : Len(s[b]) = Block
      <4>. SUFFICES ASSUME NEW b \in 1..(B - 1) PROVE Len(s[b]) = Block
        OBVIOUS
      <4>1. b \in 1..B /\ b < B
        BY <3>1
      <4>2. LengthOf(data, p, b) = z /\ Len(s[b]) = LengthOf(data, p, b) + p
        BY <1>4, <4>1
      <4>. QED  BY <1>1, <4>2
    <3>3. tail \in Seq(S) /\ Placed(s, tail, B, Block)
      BY <1>1, <1>3, <3>1, <3>2, FlattenPlaces
    <3>. HIDE DEF tail
    <3>4. (B - 1) * Block \in Nat /\ Len(tail) = (B - 1) * Block + (LengthOf(data, p, B) + p)
      <4>1. (B - 1) * Block \in Nat
        BY <1>1, <3>1
      <4>2. Len(tail) = (B - 1) * Block + Len(s[B])
        BY <3>3 DEF Placed
      <4>. QED  BY <1>4, <3>1, <4>1, <4>2
    <3>5. ASSUME NEW b \in 1..B
          PROVE  (b - 1) * Block \in Nat /\ (b - 1) * Block + LengthOf(data, p, b) + p <= Len(tail)
      <4>1. b - 1 \in Nat /\ (b - 1) * Block \in Nat
        BY <1>1
      <4>2. CASE b = B
        BY <1>1, <1>4, <3>4, <4>1, <4>2
      <4>3. CASE b # B
        <5>1. b < B /\ b - 1 < B - 1
          BY <1>1, <4>3
        <5>2. (b - 1) * Block + Block <= (B - 1) * Block
          BY <1>1, <3>1, <4>1, <5>1, ProductsOrdered
        <5>3. LengthOf(data, p, b) + p = Block /\ LengthOf(data, p, b) \in Nat
          BY <1>1, <1>4, <5>1
        <5>4. LengthOf(data, p, B) \in Nat
          BY <1>1, <1>4, <3>1
        <5>. DEFINE u == (b - 1) * Block
                    v == (B - 1) * Block
        <5>5. u \in Nat /\ v \in Nat /\ u + Block <= v /\ Len(tail) = v + (LengthOf(data, p, B) + p)
          BY <3>4, <4>1, <5>2
        <5>. HIDE DEF u, v
        <5>6. u + LengthOf(data, p, b) + p <= Len(tail)
          BY <1>1, <5>3, <5>4, <5>5
        <5>. QED  BY <5>5, <5>6 DEF u
      <4>. QED  BY <4>2, <4>3
    <3>6. ASSUME NEW b \in 1..B, NEW i \in 1..(LengthOf(data, p, b) + p)
          PROVE  tail[(b - 1) * Block + i] = s[b][i]
      <4>1. i \in 1..Len(s[b])
        BY <1>4
      <4>. QED  BY <3>3, <4>1 DEF Placed
    <3>7. n <= Len(tail)
      <4>1. (B - 1) * z <= (B - 1) * Block /\ (B - 1) * z \in Nat
        <5>1. z <= Block
          BY <1>1
        <5>. QED  BY <1>1, <3>1, <5>1, ProductMonotone
      <4>2. (B - 1) * z + LengthOf(data, p, B) = n /\ LengthOf(data, p, B) \in Nat
        BY <1>1, <1>4, <3>1
      <4>. QED  BY <1>1, <3>4, <4>1, <4>2
    <3>. QED  BY <3>3, <3>5, <3>6, <3>7
  <2>. QED  BY <2>1, <2>2
<1>6. stream = head \o tail
  BY DEF Laid, head, s, B
<1>. HIDE DEF tail, stream
<1>7. /\ stream \in Seq(S) /\ Len(stream) = HeaderSize + Len(tail)
      /\ \A i \in 1..(HeaderSize + Len(tail)) :
           stream[i] = IF i <= HeaderSize THEN head[i] ELSE tail[i - HeaderSize]
  <2>1. /\ head \o tail \in Seq(S) /\ Len(head \o tail) = Len(head) + Len(tail)
        /\ \A i \in 1..(Len(head) + Len(tail)) :
             (head \o tail)[i] = IF i <= Len(head) THEN head[i] ELSE tail[i - Len(head)]
    BY <1>2, <1>5, ConcatProperties
  <2>. QED  BY <1>2, <1>6, <2>1
<1>8. Len(tail) \in Nat
  BY <1>5, LenProperties
<1>9. \A i \in 1..HeaderSize : stream[i] = head[i]
  BY <1>1, <1>7, <1>8
<1>10. ASSUME NEW b \in 1..B
       PROVE  /\ FromOf(b) \in Nat /\ EndOf(data, p, b) <= Len(stream)
              /\ \A i \in 1..(LengthOf(data, p, b) + p) :
                   stream[FromOf(b) + i] = BlockWord(PieceOf(data, p, b), p)[i]
  <2>. DEFINE q == (b - 1) * Block
              m == LengthOf(data, p, b) + p
  <2>1. q \in Nat /\ q + LengthOf(data, p, b) + p <= Len(tail) /\ LengthOf(data, p, b) \in Nat
    BY <1>1, <1>4, <1>5
  <2>2. FromOf(b) = HeaderSize + q /\ EndOf(data, p, b) = HeaderSize + q + LengthOf(data, p, b) + p
    BY DEF FromOf, EndOf
  <2>3. \A i \in 1..m : tail[q + i] = s[b][i]
    BY <1>5
  <2>. HIDE DEF q
  <2>4. ASSUME NEW i \in 1..m PROVE stream[FromOf(b) + i] = s[b][i]
    <3>. DEFINE k == HeaderSize + q + i
    <3>1. k \in 1..(HeaderSize + Len(tail)) /\ ~(k <= HeaderSize) /\ k - HeaderSize = q + i
      BY <1>1, <1>8, <2>1
    <3>2. stream[k] = tail[k - HeaderSize]
      BY <1>7, <3>1
    <3>. QED  BY <2>2, <2>3, <3>1, <3>2
  <2>5. FromOf(b) \in Nat /\ EndOf(data, p, b) <= Len(stream)
    BY <1>1, <1>7, <1>8, <2>1, <2>2
  <2>6. s[b] = BlockWord(PieceOf(data, p, b), p)
    BY <1>4
  <2>. QED  BY <2>4, <2>5, <2>6
<1>11. Len(stream) \in Nat /\ HeaderSize <= Len(stream) /\ n <= Len(stream)
  BY <1>1, <1>5, <1>7, <1>8
<1>. QED  BY <1>7, <1>9, <1>10, <1>11 DEF Layout, S, n, B, head, stream

-----------------------------------------------------------------------------
(* The pieces, joined, are the document.                                   *)
LEMMA PiecesJoin ==
  ASSUME NEW data \in Seq(Bytes), NEW p \in 2..MaxParity
  PROVE  FlattenSeq([b \in 1..BlocksOf(data, p) |-> PieceOf(data, p, b)]) = data
<1>. DEFINE B == BlocksOf(data, p)
            z == SizeOf(p)
            n == Len(data)
            s == [b \in 1..B |-> PieceOf(data, p, b)]
            w == FlattenSeq(s)
<1>1. B \in Nat /\ z \in Nat \ {0} /\ n \in Nat /\ (B = 0 => data = <<>>)
  BY Division
<1>2. ASSUME NEW b \in 1..B
      PROVE  /\ s[b] = PieceOf(data, p, b) /\ s[b] \in Seq(Bytes)
             /\ Len(s[b]) = LengthOf(data, p, b) /\ LengthOf(data, p, b) \in 1..z
             /\ (b - 1) * z \in Nat
             /\ (b - 1) * z + LengthOf(data, p, b) <= n
             /\ b < B => LengthOf(data, p, b) = z
             /\ b = B => (b - 1) * z + LengthOf(data, p, b) = n
             /\ \A j \in 1..LengthOf(data, p, b) : s[b][j] = data[(b - 1) * z + j]
  BY Pieces
<1>3. CASE B = 0
  <2>1. s = <<>>
    BY <1>3
  <2>. QED  BY <1>1, <1>3, <2>1 DEF FlattenSeq
<1>4. CASE B # 0
  <2>1. B \in Nat \ {0} /\ B \in 1..B
    BY <1>1, <1>4
  <2>2. s \in [1..B -> Seq(Bytes)]
    BY <1>2
  <2>. HIDE DEF B, z, n, s
  <2>3. \A b \in 1..(B - 1) : Len(s[b]) = z
    <3>1. \A b \in 1..(B - 1) : b \in 1..B /\ b < B
      BY <2>1
    <3>. QED  BY <1>2, <3>1
  <2>4. w \in Seq(Bytes) /\ Placed(s, w, B, z)
    BY <1>1, <2>1, <2>2, <2>3, FlattenPlaces
  <2>. HIDE DEF w
  <2>5. Len(w) = n
    <3>1. Len(w) = (B - 1) * z + Len(s[B])
      BY <2>4 DEF Placed
    <3>. QED  BY <1>2, <2>1, <3>1
  <2>6. ASSUME NEW i \in 1..n PROVE w[i] = data[i]
    <3>. DEFINE e == i - 1
                q == e \div z
                r == e % z
    <3>1. e \in Nat /\ e \in Int /\ e < n
      BY <1>1
    <3>. HIDE DEF e
    <3>2. q \in Nat /\ r \in 0..(z - 1) /\ e = z * q + r
      BY <1>1, <3>1, QuotientIsNat, Euclid
    <3>. HIDE DEF q, r
    <3>3. z * q = q * z /\ q * z \in Nat
      BY <1>1, <3>2
    <3>. DEFINE b == q + 1
                j == r + 1
    <3>4. b \in Nat \ {0} /\ b - 1 = q
      BY <3>2
    <3>5. b <= B
      <4>1. q * z < n
        BY <1>1, <3>1, <3>2, <3>3
      <4>2. \A k \in Nat \ {0} : k <= B <=> (k - 1) * z < n
        BY <1>1, CeilDivCounts DEF B, z, n, BlocksOf
      <4>. HIDE DEF b
      <4>. QED  BY <3>4, <4>1, <4>2
    <3>6. b \in 1..B
      BY <1>1, <3>4, <3>5
    <3>7. i = (b - 1) * z + j
      BY <3>1, <3>2, <3>3, <3>4 DEF e
    <3>. HIDE DEF b
    <3>8. j \in 1..LengthOf(data, p, b)
      <4>1. CASE b < B
        BY <1>1, <1>2, <3>2, <3>6, <4>1
      <4>2. CASE b = B
        <5>1. (b - 1) * z + LengthOf(data, p, b) = n /\ LengthOf(data, p, b) \in 1..z
          BY <1>2, <3>6, <4>2
        <5>. DEFINE u == (b - 1) * z
        <5>2. u \in Nat /\ i = u + j /\ u + LengthOf(data, p, b) = n
          BY <1>2, <3>6, <3>7, <5>1
        <5>. HIDE DEF u
        <5>. QED  BY <1>1, <3>2, <5>1, <5>2
      <4>. QED  BY <1>1, <3>6, <4>1, <4>2
    <3>9. w[(b - 1) * z + j] = s[b][j]
      BY <1>2, <2>4, <3>6, <3>8 DEF Placed
    <3>10. s[b][j] = data[(b - 1) * z + j]
      BY <1>2, <3>6, <3>8
    <3>. QED  BY <3>7, <3>9, <3>10
  <2>7. w = data
    BY <2>4, <2>5, <2>6, SeqEqual DEF n
  <2>. QED  BY <2>7 DEF w, s, B
<1>. QED  BY <1>3, <1>4

-----------------------------------------------------------------------------
(* What of block b is not as it was laid.                                  *)
BlockErrors(stream, cells, data, p, b) ==
  {i \in 1..(LengthOf(data, p, b) + p) : stream[FromOf(b) + i] # cells[FromOf(b) + i]}

WithinTheBound(stream, cells, data, p) ==
  /\ Cardinality(Errors(stream, cells, HeaderSize)) <= HeaderFixes
  /\ \A b \in 1..BlocksOf(data, p) :
       Cardinality(BlockErrors(stream, cells, data, p, b)) <= p \div 2

LEMMA PartOfSeq ==
  ASSUME NEW S, NEW s \in Seq(S), NEW lo \in Nat, NEW hi \in Nat, lo <= hi, hi <= Len(s)
  PROVE  \A i \in 1..(hi - lo) : SubSeq(s, lo + 1, hi)[i] = s[lo + i]
<1>. DEFINE m == lo + 1
<1>1. m \in Int /\ hi \in Int /\ hi - m + 1 = hi - lo
  OBVIOUS
<1>2. \A i \in m..hi : s[i] \in S
  <2>1. \A i \in m..hi : i \in 1..Len(s)
    BY LenProperties
  <2>. QED  BY <2>1, ElementOfSeq
<1>3. \A i \in 1..(hi - lo) : m + i - 1 = lo + i
  OBVIOUS
<1>. HIDE DEF m
<1>4. \A i \in 1..(hi - m + 1) : SubSeq(s, m, hi)[i] = s[m + i - 1]
  BY <1>1, <1>2, SubSeqProperties
<1>. QED  BY <1>1, <1>3, <1>4 DEF m

(* The words the header and block b of cells are read as.                  *)
HeadersOf(cells) == Corrected(SubSeq(cells, 1, HeaderSize), HeaderData, HeaderParity)
WordsOf(cells, data, p, b) ==
  Corrected(SubSeq(cells, FromOf(b) + 1, EndOf(data, p, b)), LengthOf(data, p, b), p)

LEMMA HeaderRead ==
  ASSUME NEW data \in Seq(Bytes), NEW p \in 2..MaxParity, NEW S, NEW cells \in Seq(S),
         HeaderSize <= Len(cells),
         Cardinality(Errors(Laid(data, p), cells, HeaderSize)) <= HeaderFixes
  PROVE  HeadersOf(cells) = {HeaderOf(data, p)}
<1>. DEFINE stream == Laid(data, p)
            h == HeaderOf(data, p)
            first == SubSeq(cells, 1, HeaderSize)
            w == BlockWord(h, HeaderParity)
<1>1. \A i \in 1..HeaderSize : first[i] = cells[i]
  <2>1. HeaderSize \in Nat /\ 0 \in Nat /\ 0 <= HeaderSize /\ 0 + 1 = 1 /\ HeaderSize - 0 = HeaderSize
        /\ \A i \in 1..HeaderSize : 0 + i = i
    BY Codes
  <2>. QED  BY <2>1, PartOfSeq
<1>2. \A i \in 1..HeaderSize : stream[i] = w[i]
  BY LaidOut DEF Layout
<1>3. h \in [1..HeaderData -> Bytes]
  BY HeaderIs
<1>. HIDE DEF h, first, stream, w
<1>4. Errors(w, first, HeaderSize) = Errors(stream, cells, HeaderSize)
  BY <1>1, <1>2 DEF Errors
<1>5. /\ Cardinality(Errors(w, first, HeaderSize)) <= HeaderParity \div 2
      /\ Cardinality(Errors(w, first, HeaderSize)) <= HeaderParity - (HeaderParity \div 2)
  <2>1. Cardinality(Errors(w, first, HeaderSize)) <= HeaderFixes
    BY <1>4 DEF stream
  <2>2. IsFiniteSet(Errors(w, first, HeaderSize))
    <3>1. Errors(w, first, HeaderSize) \subseteq 1..HeaderSize
      BY DEF Errors
    <3>2. IsFiniteSet(1..HeaderSize)
      BY Codes, FS_Interval
    <3>. QED  BY <3>1, <3>2, FS_Subset
  <2>3. Cardinality(Errors(w, first, HeaderSize)) \in Nat
    BY <2>2, FS_CardinalityType
  <2>. QED  BY <2>1, <2>3, Codes
<1>6. Corrected(first, HeaderData, HeaderParity) = {h}
  BY <1>3, <1>5, Codes, BlockFound DEF w
<1>. QED  BY <1>6 DEF HeadersOf, h, first

LEMMA BlockRead ==
  ASSUME NEW data \in Seq(Bytes), NEW p \in 2..MaxParity, NEW b \in 1..BlocksOf(data, p),
         NEW S, NEW cells \in Seq(S), EndOf(data, p, b) <= Len(cells),
         Cardinality(BlockErrors(Laid(data, p), cells, data, p, b)) <= p - (p \div 2)
  PROVE  /\ WordsOf(cells, data, p, b) \subseteq {PieceOf(data, p, b)}
         /\ Cardinality(BlockErrors(Laid(data, p), cells, data, p, b)) <= p \div 2
              => WordsOf(cells, data, p, b) = {PieceOf(data, p, b)}
<1>. DEFINE stream == Laid(data, p)
            n == LengthOf(data, p, b)
            d == PieceOf(data, p, b)
            w == BlockWord(d, p)
            lo == FromOf(b)
            hi == EndOf(data, p, b)
            c == SubSeq(cells, lo + 1, hi)
<1>1. /\ n \in Nat \ {0} /\ d \in [1..n -> Bytes] /\ IsCode(n, p) /\ p \in Nat
      /\ hi = lo + n + p
  BY BlockOfPiece, Division DEF EndOf
<1>2. lo \in Nat /\ \A i \in 1..(n + p) : stream[lo + i] = w[i]
  BY LaidOut DEF Layout
<1>3. BlockErrors(stream, cells, data, p, b) = {i \in 1..(n + p) : stream[lo + i] # cells[lo + i]}
  BY DEF BlockErrors
<1>4. hi <= Len(cells)
  OBVIOUS
<1>. HIDE DEF n, d, w, lo, hi, stream
<1>5. \A i \in 1..(n + p) : c[i] = cells[lo + i]
  <2>1. hi \in Nat /\ lo <= hi /\ hi - lo = n + p
    BY <1>1, <1>2
  <2>. QED  BY <1>2, <1>4, <2>1, PartOfSeq
<1>. HIDE DEF c
<1>6. Errors(w, c, n + p) = BlockErrors(stream, cells, data, p, b)
  BY <1>2, <1>3, <1>5 DEF Errors
<1>7. Cardinality(Errors(w, c, n + p)) <= p - (p \div 2)
  BY <1>6 DEF stream
<1>8. /\ Corrected(c, n, p) \subseteq {d}
      /\ Cardinality(Errors(w, c, n + p)) <= p \div 2 => Corrected(c, n, p) = {d}
  BY <1>1, <1>7, BlockFound DEF w
<1>. QED  BY <1>6, <1>8 DEF WordsOf, stream, n, d, c, lo, hi

(* What recover does once the header says a parity and a length.           *)
RecoverWith(cells, head, p, n) ==
  LET size == Block - p
      length(b) == Min({b * size, n}) - (b - 1) * size
      from(b) == HeaderSize + (b - 1) * Block
      end(b) == from(b) + length(b) + p
      words(b) == Corrected(SubSeq(cells, from(b) + 1, end(b)), length(b), p)
      blocks == 1..CeilDiv(n, size)
  IN  IF \/ Len(cells) < HeaderSize
         \/ head = {} \/ p \notin 2..MaxParity \/ n > Len(cells)
         \/ \E b \in blocks : end(b) > Len(cells) \/ words(b) = {}
      THEN None
      ELSE Some(FlattenSeq([b \in blocks |-> CHOOSE d \in words(b) : TRUE]))

(* What recover does once the header is read as that of some data.         *)
Answered(cells, data, p) ==
  IF \/ Len(cells) < HeaderSize \/ Len(data) > Len(cells)
     \/ \E b \in 1..BlocksOf(data, p) :
          EndOf(data, p, b) > Len(cells) \/ WordsOf(cells, data, p, b) = {}
  THEN None
  ELSE Some(FlattenSeq([b \in 1..BlocksOf(data, p) |->
         CHOOSE d \in WordsOf(cells, data, p, b) : TRUE]))

LEMMA RecoverIs ==
  ASSUME NEW data \in Seq(Bytes), Len(data) < Power(Radix, LengthBytes), NEW p \in 2..MaxParity,
         NEW cells, HeadersOf(cells) = {HeaderOf(data, p)}
  PROVE  recover(cells) = Answered(cells, data, p)
<1>. DEFINE head == Corrected(SubSeq(cells, 1, HeaderSize), HeaderData, HeaderParity)
            said == CHOOSE w \in head : TRUE
            total == ValueOf(Reverse(Tail(said)), Radix)
            B == 1..BlocksOf(data, p)
<1>1. recover(cells) = RecoverWith(cells, head, said[1], total)
  BY DEF recover, RecoverWith
<1>2. head = {HeaderOf(data, p)}
  BY DEF HeadersOf
<1>. HIDE DEF head
<1>3. said = HeaderOf(data, p)
  BY <1>2
<1>. HIDE DEF said
<1>4. said[1] = p /\ total = Len(data)
  BY <1>3, HeaderIs
<1>. HIDE DEF total
<1>5. recover(cells) = RecoverWith(cells, head, p, Len(data))
  BY <1>1, <1>4
<1>6. RecoverWith(cells, head, p, Len(data)) =
        IF \/ Len(cells) < HeaderSize
           \/ head = {} \/ p \notin 2..MaxParity \/ Len(data) > Len(cells)
           \/ \E b \in B : EndOf(data, p, b) > Len(cells) \/ WordsOf(cells, data, p, b) = {}
        THEN None
        ELSE Some(FlattenSeq([b \in B |-> CHOOSE d \in WordsOf(cells, data, p, b) : TRUE]))
  BY Zenon DEF RecoverWith, WordsOf, BlocksOf, LengthOf, EndOf, FromOf, SizeOf
<1>7. ~(head = {}) /\ ~(p \notin 2..MaxParity)
  BY <1>2
<1>. HIDE DEF B
<1>8. RecoverWith(cells, head, p, Len(data)) =
        IF \/ Len(cells) < HeaderSize \/ Len(data) > Len(cells)
           \/ \E b \in B : EndOf(data, p, b) > Len(cells) \/ WordsOf(cells, data, p, b) = {}
        THEN None
        ELSE Some(FlattenSeq([b \in B |-> CHOOSE d \in WordsOf(cells, data, p, b) : TRUE]))
  BY <1>6, <1>7
<1>. QED  BY <1>5, <1>8 DEF B, Answered

(* A stream with no more errors than its header and each of its blocks     *)
(* correct gives its document, whatever follows it.                        *)
LEMMA Recovers ==
  ASSUME NEW data, NEW p, NEW S, NEW cells,
         data \in Seq(Bytes), Len(data) < Power(Radix, LengthBytes), p \in 2..MaxParity,
         cells \in Seq(S), Len(Laid(data, p)) <= Len(cells),
         WithinTheBound(Laid(data, p), cells, data, p)
  PROVE  recover(cells) = Some(data)
<1>. DEFINE stream == Laid(data, p)
            B == 1..BlocksOf(data, p)
<1>1. Layout(stream, data, p)
  BY LaidOut
<1>2. Len(cells) \in Nat /\ Len(data) \in Nat /\ HeaderSize \in Nat /\ p \in Nat
  BY LenProperties, Codes, Division
<1>3. HeaderSize <= Len(cells) /\ Len(data) <= Len(cells)
  BY <1>1, <1>2 DEF Layout
<1>4. ASSUME NEW b \in B PROVE EndOf(data, p, b) \in Int /\ EndOf(data, p, b) <= Len(cells)
  <2>1. FromOf(b) \in Nat /\ EndOf(data, p, b) <= Len(stream) /\ Len(stream) \in Nat
    BY <1>1 DEF Layout
  <2>2. LengthOf(data, p, b) \in Nat
    BY BlockOfPiece
  <2>3. EndOf(data, p, b) \in Int
    BY <1>2, <2>1, <2>2 DEF EndOf
  <2>. QED  BY <1>2, <2>1, <2>3
<1>5. HeadersOf(cells) = {HeaderOf(data, p)}
  BY <1>3, HeaderRead DEF WithinTheBound
<1>6. ASSUME NEW b \in B PROVE WordsOf(cells, data, p, b) = {PieceOf(data, p, b)}
  <2>. DEFINE E == BlockErrors(stream, cells, data, p, b)
              half == p \div 2
              n == LengthOf(data, p, b)
  <2>1. Cardinality(E) <= half
    BY DEF WithinTheBound
  <2>2. n \in Nat
    BY BlockOfPiece
  <2>3. IsFiniteSet(E)
    <3>1. E \subseteq 1..(n + p)
      BY DEF BlockErrors
    <3>2. IsFiniteSet(1..(n + p))
      BY <1>2, <2>2, FS_Interval
    <3>. QED  BY <3>1, <3>2, FS_Subset
  <2>4. Cardinality(E) \in Nat
    BY <2>3, FS_CardinalityType
  <2>5. half \in Nat /\ half <= p - half
    BY <1>2
  <2>6. Cardinality(E) <= p - half
    <3>. HIDE DEF E, half
    <3>. QED  BY <1>2, <2>1, <2>4, <2>5
  <2>. QED  BY <1>4, <2>1, <2>6, BlockRead
<1>. HIDE DEF B
<1>7. \A b \in B : /\ ~(EndOf(data, p, b) > Len(cells)) /\ WordsOf(cells, data, p, b) # {}
                   /\ (CHOOSE d \in WordsOf(cells, data, p, b) : TRUE) = PieceOf(data, p, b)
  BY <1>2, <1>4, <1>6
<1>8. [b \in B |-> CHOOSE d \in WordsOf(cells, data, p, b) : TRUE]
        = [b \in B |-> PieceOf(data, p, b)]
  BY <1>7
<1>9. recover(cells) = Some(FlattenSeq([b \in B |-> PieceOf(data, p, b)]))
  <2>1. ~(Len(cells) < HeaderSize) /\ ~(Len(data) > Len(cells))
    BY <1>2, <1>3
  <2>2. recover(cells) = Answered(cells, data, p)
    BY <1>5, RecoverIs
  <2>3. Answered(cells, data, p) = Some(FlattenSeq([b \in B |-> CHOOSE d \in WordsOf(cells, data, p, b) : TRUE]))
    BY <1>7, <2>1 DEF Answered, B
  <2>. QED  BY <1>8, <2>2, <2>3
<1>. QED  BY <1>9, PiecesJoin DEF B

(* With no more errors in its header than it corrects, and in a block than *)
(* its parity less what it corrects, a stream gives its document or none.  *)
LEMMA RecoversNoOther ==
  ASSUME NEW data, NEW p, NEW S, NEW cells,
         data \in Seq(Bytes), Len(data) < Power(Radix, LengthBytes), p \in 2..MaxParity,
         cells \in Seq(S),
         HeaderSize <= Len(cells) =>
           Cardinality(Errors(Laid(data, p), cells, HeaderSize)) <= HeaderFixes,
         \A b \in 1..BlocksOf(data, p) : EndOf(data, p, b) <= Len(cells) =>
           Cardinality(BlockErrors(Laid(data, p), cells, data, p, b)) <= p - (p \div 2)
  PROVE  recover(cells) \in {None, Some(data)}
<1>. DEFINE stream == Laid(data, p)
            B == 1..BlocksOf(data, p)
<1>1. Layout(stream, data, p)
  BY LaidOut
<1>2. Len(cells) \in Nat /\ Len(data) \in Nat /\ HeaderSize \in Nat /\ p \in Nat
  BY LenProperties, Codes, Division
<1>3. CASE Len(cells) < HeaderSize
  BY <1>3 DEF recover
<1>4. CASE HeaderSize <= Len(cells)
  <2>1. HeadersOf(cells) = {HeaderOf(data, p)}
    BY <1>4, HeaderRead
  <2>. DEFINE missing == \/ Len(cells) < HeaderSize \/ Len(data) > Len(cells)
                         \/ \E b \in B : EndOf(data, p, b) > Len(cells) \/ WordsOf(cells, data, p, b) = {}
  <2>2. recover(cells) =
          IF missing THEN None
          ELSE Some(FlattenSeq([b \in B |-> CHOOSE d \in WordsOf(cells, data, p, b) : TRUE]))
    <3>1. recover(cells) = Answered(cells, data, p)
      BY <2>1, RecoverIs
    <3>. QED  BY <3>1 DEF Answered
  <2>3. CASE missing
    BY <2>2, <2>3
  <2>4. CASE ~missing
    <3>1. ASSUME NEW b \in B
          PROVE  (CHOOSE d \in WordsOf(cells, data, p, b) : TRUE) = PieceOf(data, p, b)
      <4>1. ~(EndOf(data, p, b) > Len(cells)) /\ WordsOf(cells, data, p, b) # {}
        BY <2>4
      <4>2. FromOf(b) \in Nat /\ LengthOf(data, p, b) \in Nat
        BY <1>1, BlockOfPiece DEF Layout
      <4>3. EndOf(data, p, b) <= Len(cells)
        BY <1>2, <4>1, <4>2 DEF EndOf
      <4>4. WordsOf(cells, data, p, b) \subseteq {PieceOf(data, p, b)}
        BY <4>3, BlockRead
      <4>. QED  BY <4>1, <4>4
    <3>2. [b \in B |-> CHOOSE d \in WordsOf(cells, data, p, b) : TRUE]
            = [b \in B |-> PieceOf(data, p, b)]
      <4>. HIDE DEF B
      <4>. QED  BY <3>1
    <3>. HIDE DEF missing
    <3>. QED  BY <2>2, <2>4, <3>2, PiecesJoin
  <2>. QED  BY <2>3, <2>4
<1>. QED  BY <1>2, <1>3, <1>4

-----------------------------------------------------------------------------
LEMMA CeilDivGrows ==
  ASSUME NEW a \in Nat, NEW c \in Nat, NEW b \in Nat \ {0}, a <= c
  PROVE  /\ CeilDiv(a, b) \in Nat /\ CeilDiv(c, b) \in Nat
         /\ CeilDiv(a, b) <= CeilDiv(c, b)
         /\ a <= b => CeilDiv(a, b) <= 1
         /\ c > 0 => CeilDiv(c, b) >= 1
<1>. DEFINE x == CeilDiv(a, b)
            y == CeilDiv(c, b)
<1>1. x \in Nat /\ \A k \in Nat \ {0} : k <= x <=> (k - 1) * b < a
  BY CeilDivCounts
<1>2. y \in Nat /\ \A k \in Nat \ {0} : k <= y <=> (k - 1) * b < c
  BY CeilDivCounts
<1>. HIDE DEF x, y
<1>3. x <= y
  <2>1. CASE x = 0
    BY <1>2, <2>1
  <2>2. CASE x # 0
    <3>1. x \in Nat \ {0} /\ x <= x /\ (x - 1) * b \in Nat
      BY <1>1, <2>2
    <3>2. (x - 1) * b < a
      BY <1>1, <3>1
    <3>3. (x - 1) * b < c
      BY <3>1, <3>2
    <3>. QED  BY <1>2, <3>1, <3>3
  <2>. QED  BY <2>1, <2>2
<1>4. a <= b => x <= 1
  <2>. SUFFICES ASSUME a <= b PROVE x <= 1
    OBVIOUS
  <2>1. (2 - 1) * b = b /\ 2 \in Nat \ {0}
    OBVIOUS
  <2>2. ~(2 <= x)
    BY <1>1, <2>1
  <2>. QED  BY <1>1, <2>2
<1>5. c > 0 => y >= 1
  <2>1. (1 - 1) * b = 0 /\ 1 \in Nat \ {0}
    OBVIOUS
  <2>. QED  BY <1>2, <2>1
<1>. QED  BY <1>1, <1>2, <1>3, <1>4, <1>5 DEF x, y

LEMMA TimesOfQuotient ==
  ASSUME NEW a \in Nat, NEW c \in Nat \ {0}, NEW x \in Nat, x <= a \div c
  PROVE  x * c <= a
<1>. DEFINE q == a \div c
            r == a % c
<1>1. q \in Nat /\ r \in 0..(c - 1) /\ a = c * q + r
  <2>1. a \in Int
    OBVIOUS
  <2>. QED  BY <2>1, Euclid, QuotientIsNat
<1>2. x <= q
  OBVIOUS
<1>. HIDE DEF q, r
<1>3. c \in Nat /\ x * c <= q * c /\ q * c \in Nat
  BY <1>1, <1>2, ProductMonotone
<1>4. c * q = q * c
  BY <1>1
<1>5. x * c \in Nat
  OBVIOUS
<1>. QED  BY <1>1, <1>3, <1>4, <1>5

(* What simbolos_perdidos_tolerados promises: so many parts, whichever     *)
(* they are, hold no more of the header, nor of any block, than its parity *)
(* corrects.                                                               *)
LEMMA ToleratedIsEnough ==
  ASSUME NEW total \in Nat \ {0}, NEW parity \in Nat, NEW lost \in Nat,
         lost <= tolerated(total, parity)
  PROVE  /\ lost * CeilDiv(HeaderSize, total) <= HeaderFixes
         /\ lost * CeilDiv(Block, total) <= parity \div 2
<1>. DEFINE ofHeader == CeilDiv(HeaderSize, total)
            ofBlock == CeilDiv(Block, total)
            half == parity \div 2
            first == half \div Max({ofBlock, 1})
            second == IF total >= HeaderSize THEN HeaderFixes ELSE HeaderFixes \div ofHeader
<1>1. /\ HeaderSize \in Nat \ {0} /\ HeaderFixes \in Nat
      /\ Block \in Nat \ {0} /\ half \in Nat
  BY EccAssumption, Codes
<1>2. /\ ofHeader \in Nat \ {0} /\ ofBlock \in Nat \ {0}
      /\ HeaderSize <= total => ofHeader = 1
  <2>1. HeaderSize \in Nat /\ HeaderSize > 0 /\ HeaderSize <= HeaderSize
        /\ Block \in Nat /\ Block > 0 /\ Block <= Block
    BY <1>1
  <2>2. /\ ofHeader \in Nat /\ ofHeader >= 1 /\ (HeaderSize <= total => ofHeader <= 1)
        /\ ofBlock \in Nat /\ ofBlock >= 1
    BY <2>1, CeilDivGrows
  <2>. HIDE DEF ofHeader, ofBlock
  <2>. QED  BY <2>2
<1>. HIDE DEF ofHeader, ofBlock, half
<1>3. Max({ofBlock, 1}) = ofBlock
  <2>1. ofBlock \in Int /\ 1 \in Int /\ ofBlock >= 1
    BY <1>2
  <2>. QED  BY <2>1, OfTwo
<1>4. first \in Nat /\ first = half \div ofBlock
  BY <1>1, <1>2, <1>3, QuotientIsNat
<1>5. second \in Nat
  BY <1>1, <1>2, QuotientIsNat
<1>6. tolerated(total, parity) = Min({first, second})
  BY DEF tolerated, ofHeader, ofBlock, half
<1>. HIDE DEF first, second
<1>7. lost <= first /\ lost <= second
  <2>1. Min({first, second}) = IF first <= second THEN first ELSE second
    <3>1. first \in Int /\ second \in Int
      BY <1>4, <1>5
    <3>. QED  BY <3>1, OfTwo
  <2>. QED  BY <1>4, <1>5, <1>6, <2>1
<1>8. lost * ofBlock <= half
  BY <1>1, <1>2, <1>4, <1>7, TimesOfQuotient
<1>9. lost * ofHeader <= HeaderFixes
  <2>1. CASE total >= HeaderSize
    <3>1. second = HeaderFixes /\ ofHeader = 1
      BY <1>1, <1>2, <2>1 DEF second
    <3>. QED  BY <1>1, <1>7, <3>1
  <2>2. CASE ~(total >= HeaderSize)
    <3>1. lost <= HeaderFixes \div ofHeader
      BY <1>7, <2>2 DEF second
    <3>. QED  BY <1>1, <1>2, <3>1, TimesOfQuotient
  <2>. QED  BY <2>1, <2>2
<1>. QED  BY <1>8, <1>9 DEF ofHeader, ofBlock, half

LEMMA HoleyCells ==
  ASSUME NEW S, NEW stream \in Seq(S), NEW total, NEW kept, 0 \in S
  PROVE  /\ Holed(stream, total, kept) \in Seq(S)
         /\ Len(Holed(stream, total, kept)) = Len(stream)
<1>1. Len(stream) \in Nat /\ \A i \in 1..Len(stream) : stream[i] \in S
  BY LenProperties, ElementOfSeq
<1>. QED  BY <1>1 DEF Holed

(* As long as no more than the promised number of its parts is missing, a  *)
(* stream put together gives the document.                                 *)
LEMMA HoledReads ==
  ASSUME NEW data, NEW p, NEW total, NEW kept, NEW parity,
         data \in Seq(Bytes), Len(data) < Power(Radix, LengthBytes), p \in 2..MaxParity,
         total \in Nat \ {0}, parity \in Nat, parity <= p,
         Cardinality((0..(total - 1)) \ kept) <= tolerated(total, parity)
  PROVE  recover(Holed(Laid(data, p), total, kept)) = Some(data)
<1>. DEFINE stream == Laid(data, p)
            holed == Holed(stream, total, kept)
            lost == (0..(total - 1)) \ kept
            S == Bytes
<1>1. Layout(stream, data, p)
  BY LaidOut
<1>2. /\ p \in Nat /\ p <= Block /\ HeaderSize \in Nat \ {0} /\ HeaderFixes \in Nat
      /\ Block \in Nat /\ total \in Nat
  BY EccAssumption, Codes
<1>3. holed \in Seq(S) /\ Len(holed) = Len(stream) /\ Len(stream) \in Nat
  <2>1. 0 \in S
    BY CodecAssumption DEF Bytes
  <2>2. stream \in Seq(S) /\ Len(stream) \in Nat
    BY <1>1 DEF Layout
  <2>. HIDE DEF S, stream
  <2>. QED  BY <2>1, <2>2, HoleyCells
<1>4. ASSUME NEW i \in 1..Len(stream), stream[i] # holed[i]
      PROVE  (i - 1) % total \in lost
  <2>1. (i - 1) % total \notin kept
    BY <1>4 DEF Holed
  <2>2. i - 1 \in Int
    BY <1>3
  <2>. DEFINE e == i - 1
  <2>. HIDE DEF e
  <2>3. e % total \in 0..(total - 1)
    BY <2>2, Euclid DEF e
  <2>. QED  BY <2>1, <2>3 DEF e
<1>5. ASSUME NEW lo \in Nat, NEW len \in Nat \ {0}
      PROVE  /\ IsFiniteSet(Gone(lost, total, lo, len)) /\ Cardinality(Gone(lost, total, lo, len)) \in Nat
             /\ Cardinality(lost) \in Nat
             /\ Cardinality(Gone(lost, total, lo, len)) <= Cardinality(lost) * CeilDiv(len, total)
  <2>1. lost \subseteq 0..(total - 1)
    OBVIOUS
  <2>. HIDE DEF lost
  <2>. QED  BY <2>1, LostInWindow
<1>6. /\ Cardinality(lost) \in Nat
      /\ Cardinality(lost) * CeilDiv(HeaderSize, total) <= HeaderFixes
      /\ Cardinality(lost) * CeilDiv(Block, total) <= parity \div 2
  <2>1. Cardinality(lost) \in Nat
    BY <1>2, <1>5
  <2>2. Cardinality(lost) <= tolerated(total, parity)
    OBVIOUS
  <2>. HIDE DEF lost
  <2>. QED  BY <2>1, <2>2, ToleratedIsEnough
<1>7. Cardinality(Errors(stream, holed, HeaderSize)) <= HeaderFixes
  <2>. DEFINE E == Errors(stream, holed, HeaderSize)
              G == Gone(lost, total, 0, HeaderSize)
              c == CeilDiv(HeaderSize, total)
  <2>1. E \subseteq G
    <3>1. \A i \in 1..HeaderSize : i \in 1..Len(stream) /\ 0 + i - 1 = i - 1
      BY <1>1, <1>2 DEF Layout
    <3>. HIDE DEF stream, holed, lost
    <3>. QED  BY <1>4, <3>1 DEF Errors, Gone
  <2>2. /\ IsFiniteSet(G) /\ Cardinality(G) \in Nat
        /\ Cardinality(G) <= Cardinality(lost) * c
    BY <1>2, <1>5
  <2>3. c \in Nat
    BY <1>2, CeilDivCounts
  <2>. HIDE DEF E, G, lost, c
  <2>4. Cardinality(E) <= Cardinality(G) /\ Cardinality(E) \in Nat
    BY <2>1, <2>2, FS_Subset, FS_CardinalityType
  <2>5. Cardinality(lost) * c <= HeaderFixes /\ Cardinality(lost) * c \in Nat
    BY <1>6, <2>3 DEF c
  <2>. QED  BY <1>2, <2>2, <2>4, <2>5 DEF E
<1>8. ASSUME NEW b \in 1..BlocksOf(data, p)
      PROVE  Cardinality(BlockErrors(stream, holed, data, p, b)) <= p \div 2
  <2>. DEFINE len == LengthOf(data, p, b) + p
              lo == FromOf(b)
              E == BlockErrors(stream, holed, data, p, b)
              G == Gone(lost, total, lo, len)
              c == CeilDiv(len, total)
              full == CeilDiv(Block, total)
              x == Cardinality(lost)
  <2>1. LengthOf(data, p, b) \in 1..SizeOf(p) /\ SizeOf(p) + p = Block /\ SizeOf(p) \in Nat
    BY Division, Pieces
  <2>2. len \in Nat \ {0} /\ len <= Block
    BY <1>2, <2>1
  <2>3. lo \in Nat /\ lo + len <= Len(stream)
    <3>1. FromOf(b) \in Nat /\ EndOf(data, p, b) <= Len(stream)
      BY <1>1 DEF Layout
    <3>2. EndOf(data, p, b) = FromOf(b) + LengthOf(data, p, b) + p
      BY DEF EndOf
    <3>. QED  BY <1>2, <2>1, <3>1, <3>2
  <2>4. E \subseteq G
    <3>. HIDE DEF len, lo
    <3>. HIDE DEF stream, holed, lost
    <3>1. \A i \in 1..len : lo + i \in 1..Len(stream)
      BY <1>3, <2>2, <2>3
    <3>2. \A i \in 1..len : stream[lo + i] # holed[lo + i] => (lo + i - 1) % total \in lost
      <4>. SUFFICES ASSUME NEW i \in 1..len, stream[lo + i] # holed[lo + i]
                    PROVE  (lo + i - 1) % total \in lost
        OBVIOUS
      <4>. DEFINE k == lo + i
      <4>1. k \in 1..Len(stream) /\ stream[k] # holed[k]
        BY <3>1
      <4>2. k - 1 = lo + i - 1
        BY <2>2, <2>3
      <4>. HIDE DEF k
      <4>3. (k - 1) % total \in lost
        BY <1>4, <4>1
      <4>. QED  BY <4>2, <4>3
    <3>3. E = {i \in 1..len : stream[lo + i] # holed[lo + i]}
      BY DEF BlockErrors, len, lo
    <3>. HIDE DEF E
    <3>. QED  BY <3>2, <3>3 DEF Gone
  <2>5. IsFiniteSet(G) /\ Cardinality(G) \in Nat /\ Cardinality(G) <= x * c
    <3>. HIDE DEF len, lo
    <3>. QED  BY <1>5, <2>2, <2>3
  <2>6. c \in Nat /\ full \in Nat /\ c <= full
    <3>. HIDE DEF len
    <3>. QED  BY <1>2, <2>2, CeilDivGrows
  <2>7. x \in Nat /\ x * full <= parity \div 2
    BY <1>6
  <2>8. parity \div 2 <= p \div 2 /\ parity \div 2 \in Nat /\ p \div 2 \in Nat
    BY <1>2
  <2>. HIDE DEF E, G, c, full, x
  <2>9. x * c <= x * full /\ x * c \in Nat /\ x * full \in Nat
    BY <2>6, <2>7, ProductMonotone
  <2>10. Cardinality(E) <= Cardinality(G) /\ Cardinality(E) \in Nat
    BY <2>4, <2>5, FS_Subset, FS_CardinalityType
  <2>11. Cardinality(E) <= p \div 2
    BY <2>5, <2>7, <2>8, <2>9, <2>10
  <2>. QED  BY <2>11 DEF E
<1>9. WithinTheBound(stream, holed, data, p)
  BY <1>7, <1>8 DEF WithinTheBound
<1>. HIDE DEF stream, holed, S
<1>10. recover(holed) = Some(data)
  BY <1>3, <1>9, Recovers DEF stream
<1>. QED  BY <1>10 DEF holed, stream

-----------------------------------------------------------------------------
(* What is in hand is read one symbol after another.                       *)
Pick(s) == CHOOSE x \in s : TRUE

(* g lists the sets of D as Listed does.                                   *)
Lists(g, D) ==
  \A s \in D : g[s] = IF s = {} THEN <<>> ELSE Append(g[s \ {Pick(s)}], Pick(s))

Small(S, k) == {s \in SUBSET S : Cardinality(s) <= k}

LEMMA SmallerByOne ==
  ASSUME NEW S, IsFiniteSet(S), NEW s \in SUBSET S, s # {}
  PROVE  /\ Pick(s) \in s /\ s \ {Pick(s)} \in SUBSET S
         /\ Cardinality(s) \in Nat /\ Cardinality(s \ {Pick(s)}) = Cardinality(s) - 1
<1>1. Pick(s) \in s
  BY DEF Pick
<1>2. IsFiniteSet(s) /\ Cardinality(s) \in Nat
  BY FS_Subset, FS_CardinalityType
<1>. QED  BY <1>1, <1>2, FS_RemoveElement

LEMMA ListExists ==
  ASSUME NEW S, IsFiniteSet(S)
  PROVE  \E g : g = [s \in SUBSET S |-> IF s = {} THEN <<>> ELSE Append(g[s \ {Pick(s)}], Pick(s))]
<1>. DEFINE T == {k \in Nat : \E g : g = [s \in Small(S, k) |-> g[s]] /\ Lists(g, Small(S, k))}
<1>1. 0 \in T
  <2>. DEFINE g == [s \in Small(S, 0) |-> <<>>]
  <2>1. \A s \in Small(S, 0) : s = {}
    <3>. SUFFICES ASSUME NEW s \in Small(S, 0) PROVE s = {}
      OBVIOUS
    <3>1. s \in SUBSET S /\ Cardinality(s) <= 0
      BY DEF Small
    <3>2. IsFiniteSet(s) /\ Cardinality(s) \in Nat
      BY <3>1, FS_Subset, FS_CardinalityType
    <3>3. Cardinality(s) = 0
      BY <3>1, <3>2
    <3>. QED  BY <3>2, <3>3, FS_EmptySet
  <2>2. g = [s \in Small(S, 0) |-> g[s]] /\ Lists(g, Small(S, 0))
    BY <2>1 DEF Lists
  <2>. QED  BY <2>2
<1>2. ASSUME NEW k \in T PROVE k + 1 \in T
  <2>1. PICK g : g = [s \in Small(S, k) |-> g[s]] /\ Lists(g, Small(S, k))
    OBVIOUS
  <2>. DEFINE next(s) == IF s = {} THEN <<>> ELSE Append(g[s \ {Pick(s)}], Pick(s))
              G == [s \in Small(S, k + 1) |-> next(s)]
  <2>2. ASSUME NEW s \in Small(S, k + 1), s # {}
        PROVE  s \ {Pick(s)} \in Small(S, k) /\ s \ {Pick(s)} \in Small(S, k + 1)
    <3>1. s \in SUBSET S /\ Cardinality(s) <= k + 1
      BY DEF Small
    <3>. DEFINE r == s \ {Pick(s)}
    <3>2. r \in SUBSET S /\ Cardinality(s) \in Nat /\ Cardinality(r) = Cardinality(s) - 1
      BY <2>2, <3>1, SmallerByOne
    <3>3. k \in Nat
      OBVIOUS
    <3>. HIDE DEF r, T
    <3>4. Cardinality(r) <= k /\ Cardinality(r) <= k + 1
      BY <3>1, <3>2, <3>3
    <3>. QED  BY <3>2, <3>4 DEF Small, r
  <2>3. ASSUME NEW s \in Small(S, k + 1)
        PROVE  G[s] = IF s = {} THEN <<>> ELSE Append(G[s \ {Pick(s)}], Pick(s))
    <3>1. G[s] = next(s)
      OBVIOUS
    <3>2. CASE s = {}
      BY <3>1, <3>2
    <3>3. CASE s # {}
      <4>. DEFINE r == s \ {Pick(s)}
      <4>1. r \in Small(S, k) /\ r \in Small(S, k + 1)
        BY <2>2, <3>3
      <4>. HIDE DEF r
      <4>2. G[r] = next(r) /\ g[r] = next(r)
        BY <2>1, <4>1 DEF Lists
      <4>. QED  BY <3>1, <3>3, <4>2 DEF r
    <3>. QED  BY <3>2, <3>3
  <2>4. G = [s \in Small(S, k + 1) |-> G[s]]
    OBVIOUS
  <2>5. Lists(G, Small(S, k + 1))
    BY <2>3 DEF Lists
  <2>. HIDE DEF G
  <2>. QED  BY <2>4, <2>5
<1>3. T = Nat
  <2>1. T \in SUBSET Nat
    OBVIOUS
  <2>. HIDE DEF T
  <2>. QED  BY <1>1, <1>2, <2>1, Induction
<1>4. Cardinality(S) \in Nat
  BY FS_CardinalityType
<1>5. PICK g : g = [s \in Small(S, Cardinality(S)) |-> g[s]] /\ Lists(g, Small(S, Cardinality(S)))
  BY <1>3, <1>4
<1>6. Small(S, Cardinality(S)) = SUBSET S
  BY FS_Subset DEF Small
<1>. QED  BY <1>5, <1>6 DEF Lists

(* A sequence of all of s, without repetition.                             *)
Enumerates(q, s, S) ==
  /\ q \in Seq(S) /\ Len(q) = Cardinality(s)
  /\ \A i \in 1..Len(q) : q[i] \in s
  /\ \A x \in s : \E i \in 1..Len(q) : q[i] = x
  /\ \A i, j \in 1..Len(q) : i # j => q[i] # q[j]

LEMMA Longer ==
  ASSUME NEW S, NEW q \in Seq(S), NEW x \in S
  PROVE  /\ Append(q, x) \in Seq(S) /\ Len(Append(q, x)) = Len(q) + 1
         /\ \A i \in 1..Len(q) : Append(q, x)[i] = q[i]
         /\ Append(q, x)[Len(q) + 1] = x
<1>1. Append(q, x) \in Seq(S)
  BY AppendProperties
<1>2. Len(Append(q, x)) = Len(q) + 1
  BY AppendProperties
<1>3. \A i \in 1..Len(q) : Append(q, x)[i] = q[i]
  BY AppendProperties
<1>4. Append(q, x)[Len(q) + 1] = x
  BY AppendProperties
<1>. QED  BY <1>1, <1>2, <1>3, <1>4

LEMMA ListedEnumerates ==
  ASSUME NEW S, IsFiniteSet(S)
  PROVE  Enumerates(Listed(S), S, S)
<1>. DEFINE next(g) == [s \in SUBSET S |-> IF s = {} THEN <<>> ELSE Append(g[s \ {Pick(s)}], Pick(s))]
            g == CHOOSE f : f = next(f)
            T == {k \in Nat : \A s \in Small(S, k) : Enumerates(g[s], s, S)}
<1>1. Listed(S) = g[S]
  BY Zenon DEF Listed, FoldSet, MapThenFoldSet, Pick
<1>2. g = next(g)
  <2>1. \E f : f = next(f)
    BY ListExists
  <2>. HIDE DEF next
  <2>. QED  BY <2>1
<1>. HIDE DEF g
<1>3. \A s \in SUBSET S : g[s] = IF s = {} THEN <<>> ELSE Append(g[s \ {Pick(s)}], Pick(s))
  BY <1>2
<1>4. Enumerates(g[{}], {}, S)
  <2>1. g[{}] = <<>>
    BY <1>3
  <2>. QED  BY <2>1, FS_EmptySet DEF Enumerates
<1>5. 0 \in T
  <2>. SUFFICES ASSUME NEW s \in Small(S, 0) PROVE Enumerates(g[s], s, S)
    OBVIOUS
  <2>1. s \in SUBSET S /\ Cardinality(s) <= 0
    BY DEF Small
  <2>2. IsFiniteSet(s) /\ Cardinality(s) \in Nat
    BY <2>1, FS_Subset, FS_CardinalityType
  <2>3. Cardinality(s) = 0
    BY <2>1, <2>2
  <2>4. s = {}
    BY <2>2, <2>3, FS_EmptySet
  <2>. QED  BY <1>4, <2>4
<1>6. ASSUME NEW k \in T PROVE k + 1 \in T
  <2>. SUFFICES ASSUME NEW s \in Small(S, k + 1) PROVE Enumerates(g[s], s, S)
    OBVIOUS
  <2>. SUFFICES ASSUME s # {} PROVE Enumerates(g[s], s, S)
    BY <1>4
  <2>. DEFINE x == Pick(s)
              r == s \ {x}
              q == g[r]
              n == Len(q)
  <2>1. s \in SUBSET S /\ Cardinality(s) <= k + 1 /\ k \in Nat
    BY DEF Small
  <2>2. /\ x \in s /\ r \in SUBSET S /\ Cardinality(s) \in Nat
        /\ Cardinality(r) = Cardinality(s) - 1
    BY <2>1, SmallerByOne
  <2>3. r \in Small(S, k)
    <3>. HIDE DEF r, T
    <3>. QED  BY <2>1, <2>2 DEF Small
  <2>4. Enumerates(q, r, S)
    BY <2>3
  <2>5. g[s] = Append(q, x)
    BY <1>3, <2>1
  <2>6. x \notin r /\ s = r \cup {x} /\ x \in S
    BY <2>1, <2>2
  <2>. HIDE DEF q, r, x, T
  <2>7. q \in Seq(S) /\ n \in Nat /\ n = Cardinality(s) - 1
    BY <2>2, <2>4, LenProperties DEF Enumerates
  <2>8. /\ Append(q, x) \in Seq(S) /\ Len(Append(q, x)) = n + 1
        /\ \A i \in 1..n : Append(q, x)[i] = q[i]
        /\ Append(q, x)[n + 1] = x
    BY <2>6, <2>7, Longer
  <2>. HIDE DEF n
  <2>9. \A i \in 1..(n + 1) : i \in 1..n \/ i = n + 1
    BY <2>7
  <2>10. \A i \in 1..n : q[i] \in r
    BY <2>4 DEF Enumerates, n
  <2>11. \A y \in r : \E i \in 1..n : q[i] = y
    BY <2>4 DEF Enumerates, n
  <2>12. \A i, j \in 1..n : i # j => q[i] # q[j]
    BY <2>4 DEF Enumerates, n
  <2>. DEFINE t == Append(q, x)
  <2>13. Len(t) = Cardinality(s) /\ Len(t) = n + 1 /\ t \in Seq(S)
    BY <2>2, <2>7, <2>8
  <2>14. \A i \in 1..n : t[i] = q[i]
    BY <2>8
  <2>15. t[n + 1] = x /\ n + 1 \in 1..(n + 1) /\ \A i \in 1..n : i \in 1..(n + 1)
    BY <2>7, <2>8
  <2>. HIDE DEF t
  <2>16. \A i \in 1..(n + 1) : t[i] \in s
    BY <2>2, <2>6, <2>9, <2>10, <2>14, <2>15
  <2>17. \A y \in s : \E i \in 1..(n + 1) : t[i] = y
    BY <2>6, <2>11, <2>14, <2>15
  <2>18. \A i, j \in 1..(n + 1) : i # j => t[i] # t[j]
    BY <2>6, <2>9, <2>10, <2>12, <2>14, <2>15
  <2>. QED  BY <2>5, <2>13, <2>16, <2>17, <2>18 DEF Enumerates, t
<1>7. T = Nat
  <2>1. T \in SUBSET Nat
    OBVIOUS
  <2>. HIDE DEF T
  <2>. QED  BY <1>5, <1>6, <2>1, Induction
<1>8. Cardinality(S) \in T /\ S \in Small(S, Cardinality(S))
  <2>1. Cardinality(S) \in Nat
    BY FS_CardinalityType
  <2>2. S \in Small(S, Cardinality(S))
    BY <2>1 DEF Small
  <2>. HIDE DEF T
  <2>. QED  BY <1>7, <2>1, <2>2
<1>. QED  BY <1>1, <1>8

LEMMA ReverseEnumerates ==
  ASSUME NEW q, NEW s, NEW S, Enumerates(q, s, S)
  PROVE  Enumerates(Reverse(q), s, S)
<1>. DEFINE n == Len(q)
            r == Reverse(q)
            other(i) == n - i + 1
<1>1. q \in Seq(S) /\ n \in Nat /\ \A i \in 1..n : q[i] \in S
  <2>1. q \in Seq(S)
    BY DEF Enumerates
  <2>. QED  BY <2>1, LenProperties, ElementOfSeq
<1>2. \A i \in 1..n : other(i) \in 1..n /\ other(other(i)) = i
  BY <1>1
<1>3. \A i, j \in 1..n : i # j => other(i) # other(j)
  BY <1>1
<1>4. r = [i \in 1..n |-> q[other(i)]]
  BY DEF Reverse
<1>. HIDE DEF other
<1>5. r \in Seq(S) /\ Len(r) = n /\ \A i \in 1..n : r[i] = q[other(i)]
  BY <1>1, <1>2, <1>4
<1>6. /\ n = Cardinality(s)
      /\ \A i \in 1..n : q[i] \in s
      /\ \A x \in s : \E i \in 1..n : q[i] = x
      /\ \A i, j \in 1..n : i # j => q[i] # q[j]
  BY DEF Enumerates
<1>. HIDE DEF n, r
<1>7. \A x \in s : \E i \in 1..n : r[i] = x
  <2>. SUFFICES ASSUME NEW x \in s PROVE \E i \in 1..n : r[i] = x
    OBVIOUS
  <2>1. PICK i \in 1..n : q[i] = x
    BY <1>6
  <2>2. other(i) \in 1..n /\ r[other(i)] = q[i]
    BY <1>2, <1>5
  <2>. QED  BY <2>1, <2>2
<1>8. \A i \in 1..n : r[i] \in s
  BY <1>2, <1>5, <1>6
<1>9. \A i, j \in 1..n : i # j => r[i] # r[j]
  BY <1>2, <1>3, <1>5, <1>6
<1>. QED  BY <1>5, <1>6, <1>7, <1>8, <1>9 DEF Enumerates, r

(* Whichever way what is in hand is read, each symbol is read once.        *)
LEMMA OrdersEnumerate ==
  ASSUME NEW S, IsFiniteSet(S), NEW read,
         read \in {Listed(S) \o Listed({}), Reverse(Listed(S) \o Listed({}))}
  PROVE  Enumerates(read, S, S)
<1>1. Enumerates(Listed(S), S, S)
  BY ListedEnumerates
<1>2. Listed({}) = <<>>
  <2>1. Enumerates(Listed({}), {}, {}) /\ Cardinality({}) = 0
    BY ListedEnumerates, FS_EmptySet
  <2>. DEFINE q == Listed({})
  <2>. HIDE DEF q
  <2>2. q \in Seq({}) /\ Len(q) = 0
    BY <2>1 DEF Enumerates, q
  <2>3. q = <<>>
    BY <2>2, EmptySeq
  <2>. QED  BY <2>3 DEF q
<1>. DEFINE q == Listed(S)
<1>. HIDE DEF q
<1>3. q \in Seq(S)
  BY <1>1 DEF Enumerates, q
<1>4. q \o <<>> = q
  BY <1>3, ConcatEmptySeq
<1>5. read = q \/ read = Reverse(q)
  BY <1>2, <1>4 DEF q
<1>. QED  BY <1>1, <1>5, ReverseEnumerates DEF q

(* Some of the parts of one stream.                                        *)
PartsOf(stream, total) == {PartOf(stream, total, j) : j \in 0..(total - 1)}

LEMMA PartsAreRead ==
  ASSUME NEW stream, NEW total \in Nat \ {0}, NEW S, S # {}, IsFiniteSet(S),
         S \subseteq PartsOf(stream, total), NEW read, Enumerates(read, S, S)
  PROVE  /\ PartsRead(read, stream, total) /\ read # <<>>
         /\ IndicesOf(read) = {s.index : s \in S}
<1>. DEFINE n == Len(read)
<1>1. \A s \in S : s.index \in 0..(total - 1) /\ s = PartOf(stream, total, s.index)
  <2>. SUFFICES ASSUME NEW s \in S
                PROVE  s.index \in 0..(total - 1) /\ s = PartOf(stream, total, s.index)
    OBVIOUS
  <2>1. PICK j \in 0..(total - 1) : s = PartOf(stream, total, j)
    BY DEF PartsOf
  <2>2. s.index = j
    BY <2>1, PartFields
  <2>. QED  BY <2>1, <2>2
<1>2. /\ n = Cardinality(S)
      /\ \A i \in 1..n : read[i] \in S
      /\ \A x \in S : \E i \in 1..n : read[i] = x
      /\ \A i, j \in 1..n : i # j => read[i] # read[j]
  BY DEF Enumerates
<1>3. n \in Nat \ {0}
  <2>1. Cardinality(S) \in Nat /\ Cardinality(S) # 0
    BY FS_CardinalityType, FS_EmptySet
  <2>. QED  BY <1>2, <2>1
<1>4. read # <<>>
  <2>1. Len(<<>>) = 0
    OBVIOUS
  <2>. QED  BY <1>3, <2>1
<1>. HIDE DEF n
<1>5. \A i, j \in 1..n : i # j => read[i].index # read[j].index
  <2>. SUFFICES ASSUME NEW i \in 1..n, NEW j \in 1..n, i # j, read[i].index = read[j].index
                PROVE  FALSE
    OBVIOUS
  <2>1. read[i] = read[j]
    BY <1>1, <1>2
  <2>. QED  BY <1>2, <2>1
<1>6. PartsRead(read, stream, total)
  BY <1>1, <1>2, <1>3, <1>5 DEF PartsRead, n
<1>7. {read[i].index : i \in 1..n} = {s.index : s \in S}
  BY <1>2
<1>. QED  BY <1>4, <1>6, <1>7 DEF IndicesOf, n

(* As many places are missing as symbols.                                  *)
LEMMA PlacesLost ==
  ASSUME NEW stream, NEW total \in Nat \ {0}, NEW S, S \subseteq PartsOf(stream, total)
  PROVE  /\ Cardinality((0..(total - 1)) \ {s.index : s \in S})
              <= Cardinality(PartsOf(stream, total) \ S)
         /\ Cardinality((0..(total - 1)) \ {s.index : s \in S}) \in Nat
         /\ Cardinality(PartsOf(stream, total) \ S) \in Nat
<1>. DEFINE places == 0..(total - 1)
            lost == places \ {s.index : s \in S}
            gone == PartsOf(stream, total) \ S
            f == [j \in places |-> PartOf(stream, total, j)]
            g == [j \in lost |-> PartOf(stream, total, j)]
<1>1. IsFiniteSet(places)
  BY FS_Interval
<1>2. f \in Surjection(places, PartsOf(stream, total))
  BY DEF PartsOf, Surjection
<1>3. IsFiniteSet(PartsOf(stream, total))
  <2>. HIDE DEF f, places
  <2>. QED  BY <1>1, <1>2, FS_Surjection
<1>4. IsFiniteSet(gone)
  BY <1>3, FS_Difference
<1>5. g \in Injection(lost, gone)
  <2>1. \A j \in lost : g[j] = PartOf(stream, total, j) /\ g[j].index = j
    BY PartFields
  <2>2. \A j \in lost : g[j] \in gone
    <3>. SUFFICES ASSUME NEW j \in lost PROVE g[j] \in gone
      OBVIOUS
    <3>1. g[j] \in PartsOf(stream, total)
      BY <2>1 DEF PartsOf
    <3>2. g[j] \notin S
      BY <2>1
    <3>. QED  BY <3>1, <3>2
  <2>. DEFINE h == g
  <2>3. DOMAIN g = lost
    OBVIOUS
  <2>4. IsInjective(g)
    BY <2>1, <2>3 DEF IsInjective
  <2>5. g \in [lost -> gone]
    BY <2>2
  <2>. HIDE DEF g, lost, gone
  <2>. QED  BY <2>4, <2>5 DEF Injection
<1>. HIDE DEF g, gone, lost
<1>6. IsFiniteSet(lost) /\ Cardinality(lost) <= Cardinality(gone)
  BY <1>4, <1>5, FS_Injection
<1>. QED  BY <1>4, <1>6, FS_CardinalityType DEF lost, gone

-----------------------------------------------------------------------------
(* What a printing is: all the parts, in order, of the stream of a         *)
(* document, each within the capacity it was asked for.                    *)
Stream(document, parity) == Laid(document, Clamp(parity))

IsPrinting(r) ==
  /\ r.document \in Seq(Bytes) /\ Len(r.document) < Power(Radix, LengthBytes)
  /\ r.parity \in Nat /\ r.parity <= MaxParity
  /\ Len(r.symbols) \in Nat \ {0} /\ DOMAIN r.symbols = 1..Len(r.symbols)
  /\ \A j \in 1..Len(r.symbols) :
       /\ r.symbols[j] = PartOf(Stream(r.document, r.parity), Len(r.symbols), j - 1)
       /\ Heading + Len(r.symbols[j].cells) <= r.capacity

LEMMA Clamped ==
  ASSUME NEW parity \in Nat, parity <= MaxParity
  PROVE  Clamp(parity) \in 2..MaxParity /\ parity <= Clamp(parity)
<1>1. MaxParity \in Nat /\ MaxParity >= 2
  BY EccAssumption, Codes
<1>2. Min({parity, MaxParity}) = parity
  BY <1>1, OfTwo
<1>3. Max({2, parity}) = IF 2 >= parity THEN 2 ELSE parity
  BY OfTwo
<1>. QED  BY <1>1, <1>2, <1>3 DEF Clamp

(* One document in parts that hold what is useful of the capacity asked    *)
(* for.                                                                    *)
LEMMA Packed ==
  ASSUME NEW document \in Documents, NEW capacity \in Capacities, NEW parity \in Parities,
         empaquetar(document, capacity, parity).status = "ok"
  PROVE  IsPrinting([document |-> document, capacity |-> capacity, parity |-> parity,
                     symbols |-> empaquetar(document, capacity, parity).data])
<1>. DEFINE stream == protect(document, parity)
            room == useful(capacity)
            needed == CeilDiv(Len(stream), room)
            total == Max({needed, 1})
            symbols == [j \in 1..total |->
                         Symbol(Version, j - 1, total, Len(stream), interleave(stream, total, j - 1))]
<1>1. /\ document \in Seq(Bytes) /\ Len(document) < Power(Radix, LengthBytes)
      /\ capacity \in Nat /\ parity \in Nat /\ Heading \in Nat /\ MaxParity \in Nat
  BY PaperAssumption, EccAssumption, Codes
<1>2. /\ ~(capacity <= Heading) /\ ~(parity > MaxParity)
      /\ empaquetar(document, capacity, parity).data = symbols
  BY DEF empaquetar, PaperError
<1>3. parity <= MaxParity /\ room \in Nat \ {0} /\ Heading + room = capacity
  BY <1>1, <1>2 DEF useful
<1>4. Clamp(parity) \in 2..MaxParity
  BY <1>1, <1>3, Clamped
<1>5. stream = Stream(document, parity)
  BY ProtectIs DEF Stream
<1>6. stream \in Seq(Bytes) /\ Len(stream) \in Nat
  <2>1. Layout(Laid(document, Clamp(parity)), document, Clamp(parity))
    BY <1>1, <1>4, LaidOut
  <2>. QED  BY <1>5, <2>1 DEF Layout, Stream
<1>7. needed \in Nat /\ Len(stream) <= needed * room
  BY <1>3, <1>6, CeilDivCounts
<1>. HIDE DEF stream, room, needed
<1>8. total \in Nat \ {0} /\ needed <= total
  <2>1. total = IF needed >= 1 THEN needed ELSE 1
    BY <1>7, OfTwo
  <2>. QED  BY <1>7, <2>1
<1>. HIDE DEF total
<1>9. DOMAIN symbols = 1..total /\ Len(symbols) = total
  BY <1>8
<1>10. ASSUME NEW j \in 1..total
       PROVE  /\ symbols[j] = PartOf(stream, total, j - 1)
              /\ Heading + Len(symbols[j].cells) <= capacity
  <2>1. symbols[j] = PartOf(stream, total, j - 1)
    BY DEF PartOf
  <2>2. symbols[j].cells = interleave(stream, total, j - 1)
    BY <2>1, PartFields
  <2>. DEFINE cells == interleave(stream, total, j - 1)
              S == Bytes
              k == room + 1
  <2>3. j - 1 \in 0..(total - 1)
    BY <1>8
  <2>. HIDE DEF S
  <2>4. /\ cells \in Seq(S)
        /\ \A i \in Nat \ {0} : i <= Len(cells) <=> position(j - 1, i, total) < Len(stream)
    BY <1>6, <1>8, <2>3, InterleaveTakes DEF S
  <2>5. Len(cells) \in Nat
    BY <2>4, LenProperties
  <2>6. needed * room <= total * room /\ total * room \in Nat /\ needed * room \in Nat
    BY <1>3, <1>7, <1>8, ProductMonotone
  <2>7. k \in Nat \ {0} /\ position(j - 1, k, total) = (j - 1) + room * total
    BY <1>3 DEF position
  <2>8. room * total = total * room
    BY <1>3, <1>8
  <2>9. ~(position(j - 1, k, total) < Len(stream))
    <3>. DEFINE x == total * room
                y == needed * room
    <3>1. Len(stream) <= y /\ y <= x /\ x \in Nat /\ y \in Nat
      BY <1>7, <2>6
    <3>2. position(j - 1, k, total) = (j - 1) + x
      BY <2>7, <2>8
    <3>. HIDE DEF x, y, k
    <3>. QED  BY <1>6, <2>3, <3>1, <3>2
  <2>10. ~(k <= Len(cells))
    BY <2>4, <2>7, <2>9
  <2>. HIDE DEF cells
  <2>11. Len(cells) <= room
    BY <1>3, <2>5, <2>10
  <2>. QED  BY <1>1, <1>3, <2>1, <2>2, <2>5, <2>11 DEF cells
<1>. HIDE DEF symbols
<1>. QED  BY <1>1, <1>2, <1>3, <1>5, <1>8, <1>9, <1>10 DEF IsPrinting

LEMMA ToleratedIsNat ==
  ASSUME NEW total \in Nat \ {0}, NEW parity \in Nat
  PROVE  tolerated(total, parity) \in Nat
<1>. DEFINE ofHeader == CeilDiv(HeaderSize, total)
            ofBlock == Max({CeilDiv(Block, total), 1})
            half == parity \div 2
            first == half \div ofBlock
            second == IF total >= HeaderSize THEN HeaderFixes ELSE HeaderFixes \div ofHeader
<1>1. HeaderSize \in Nat \ {0} /\ HeaderFixes \in Nat /\ Block \in Nat /\ half \in Nat
  BY EccAssumption, Codes
<1>2. ofHeader \in Nat \ {0} /\ ofBlock \in Nat \ {0}
  <2>1. HeaderSize \in Nat /\ HeaderSize > 0 /\ HeaderSize <= HeaderSize /\ Block <= Block
    BY <1>1
  <2>2. ofHeader \in Nat /\ ofHeader >= 1 /\ CeilDiv(Block, total) \in Nat
    BY <1>1, <2>1, CeilDivGrows
  <2>3. ofBlock = IF CeilDiv(Block, total) >= 1 THEN CeilDiv(Block, total) ELSE 1
    BY <2>2, OfTwo
  <2>. HIDE DEF ofHeader, ofBlock
  <2>. QED  BY <2>2, <2>3
<1>. HIDE DEF ofHeader, ofBlock, half
<1>3. first \in Nat /\ second \in Nat
  BY <1>1, <1>2, QuotientIsNat
<1>4. tolerated(total, parity) = Min({first, second})
  BY DEF tolerated, ofHeader, ofBlock, half
<1>. HIDE DEF first, second
<1>5. Min({first, second}) = IF first <= second THEN first ELSE second
  <2>1. first \in Int /\ second \in Int
    BY <1>3
  <2>. QED  BY <2>1, OfTwo
<1>. QED  BY <1>3, <1>4, <1>5

(* Some of the symbols of one printing are put together, and give the      *)
(* document when no more are missing than simbolos_perdidos_tolerados says.*)
LEMMA PartsOfPrinting ==
  ASSUME NEW r, IsPrinting(r), NEW S, S # {}, IsFiniteSet(S), S \subseteq Range(r.symbols),
         NEW read, Enumerates(read, S, S)
  PROVE  /\ reensamblar(read).status \in {"ok", "unrecovered"}
         /\ Cardinality(Range(r.symbols) \ S) <= tolerated(Len(r.symbols), r.parity) =>
              reensamblar(read) = [status |-> "ok", data |-> r.document]
<1>. DEFINE total == Len(r.symbols)
            p == Clamp(r.parity)
            stream == Laid(r.document, p)
            places == {s.index : s \in S}
            cells == Bytes
<1>1. /\ r.document \in Seq(Bytes) /\ Len(r.document) < Power(Radix, LengthBytes)
      /\ r.parity \in Nat /\ r.parity <= MaxParity
      /\ total \in Nat \ {0} /\ DOMAIN r.symbols = 1..total
      /\ \A j \in 1..total : r.symbols[j] = PartOf(stream, total, j - 1)
  BY DEF IsPrinting, Stream
<1>2. p \in 2..MaxParity /\ r.parity <= p
  BY <1>1, Clamped
<1>3. stream \in Seq(cells) /\ stream # <<>>
  <2>1. Layout(stream, r.document, p)
    BY <1>1, <1>2, LaidOut
  <2>2. HeaderSize \in Nat \ {0}
    BY EccAssumption, Codes
  <2>3. stream \in Seq(cells) /\ HeaderSize <= Len(stream)
    BY <2>1 DEF Layout
  <2>. HIDE DEF stream, cells
  <2>4. Len(<<>>) = 0
    OBVIOUS
  <2>. QED  BY <2>2, <2>3, <2>4
<1>. HIDE DEF stream, cells, p, total
<1>4. Range(r.symbols) = PartsOf(stream, total)
  <2>1. \A j \in 0..(total - 1) : j + 1 \in 1..total /\ (j + 1) - 1 = j
    BY <1>1
  <2>2. \A j \in 1..total : j - 1 \in 0..(total - 1)
    BY <1>1
  <2>. DEFINE q == r.symbols
  <2>3. DOMAIN q = 1..total /\ \A j \in 1..total : q[j] = PartOf(stream, total, j - 1)
    BY <1>1
  <2>. HIDE DEF q
  <2>4. ASSUME NEW s \in Range(q) PROVE s \in PartsOf(stream, total)
    <3>1. PICK j \in 1..total : s = q[j]
      BY <2>3 DEF Range
    <3>. QED  BY <2>2, <2>3, <3>1 DEF PartsOf
  <2>5. ASSUME NEW s \in PartsOf(stream, total) PROVE s \in Range(q)
    <3>1. PICK j \in 0..(total - 1) : s = PartOf(stream, total, j)
      BY DEF PartsOf
    <3>2. s = q[j + 1] /\ j + 1 \in DOMAIN q
      BY <2>1, <2>3, <3>1
    <3>. QED  BY <3>2 DEF Range
  <2>6. Range(q) = PartsOf(stream, total)
    BY <2>4, <2>5
  <2>. QED  BY <2>6 DEF q
<1>5. PartsRead(read, stream, total) /\ read # <<>> /\ IndicesOf(read) = places
  BY <1>1, <1>4, PartsAreRead
<1>6. /\ coherent(read) /\ (\A i \in 1..Len(read) : read[i].version = Version)
      /\ assembled(read) = Holed(stream, total, places)
  <2>1. coherent(read) /\ \A i \in 1..Len(read) : read[i].version = Version
    BY <1>1, <1>3, <1>5, PartsCohere
  <2>2. assembled(read) = Holed(stream, total, places)
    BY <1>1, <1>3, <1>5, AssembledIsHoled
  <2>. QED  BY <2>1, <2>2
<1>7. reensamblar(read) =
        IF recover(Holed(stream, total, places)).ok
        THEN [status |-> "ok", data |-> recover(Holed(stream, total, places)).data]
        ELSE PaperError("unrecovered")
  BY <1>5, <1>6 DEF reensamblar
<1>8. ASSUME Cardinality(Range(r.symbols) \ S) <= tolerated(total, r.parity)
      PROVE  recover(Holed(stream, total, places)) = Some(r.document)
  <2>. DEFINE gone == (0..(total - 1)) \ places
              left == PartsOf(stream, total) \ S
              bound == tolerated(total, r.parity)
  <2>1. /\ Cardinality(gone) <= Cardinality(left)
        /\ Cardinality(gone) \in Nat /\ Cardinality(left) \in Nat
    BY <1>1, <1>4, PlacesLost
  <2>2. Cardinality(left) <= bound
    BY <1>4, <1>8
  <2>3. bound \in Int
    <3>1. total \in Nat \ {0} /\ r.parity \in Nat
      BY <1>1
    <3>2. tolerated(total, r.parity) \in Nat
      BY <3>1, ToleratedIsNat
    <3>. QED  BY <3>2
  <2>. HIDE DEF gone, left, bound
  <2>4. Cardinality(gone) <= bound
    BY <2>1, <2>2, <2>3
  <2>. QED  BY <1>1, <1>2, <2>4, HoledReads DEF stream, gone, bound
<1>9. Some(r.document).ok /\ Some(r.document).data = r.document
  BY DEF Some
<1>. QED  BY <1>7, <1>8, <1>9 DEF PaperError, total

-----------------------------------------------------------------------------
(* Whatever is answered, an error comes without data.                      *)
Clean(r) == r.status = "ok" \/ r.data = <<>>

LEMMA Answers ==
  /\ \A d, n, p : Clean(empaquetar(d, n, p))
  /\ \A read : Clean(reensamblar(read))
  /\ \A d, f : Clean(write_text(d, f))
  /\ \A t, f : Clean(read_text(t, f))
  /\ \A w : Clean(leer_palabras(w))
<1>1. ASSUME NEW d, NEW n, NEW p PROVE Clean(empaquetar(d, n, p))
  BY DEF Clean, empaquetar, PaperError
<1>2. ASSUME NEW read PROVE Clean(reensamblar(read))
  BY DEF Clean, reensamblar, PaperError
<1>3. ASSUME NEW d, NEW f PROVE Clean(write_text(d, f))
  BY DEF Clean, write_text, escribir, PaperError, TypedOk, TypedError
<1>4. ASSUME NEW t, NEW f PROVE Clean(read_text(t, f))
  <2>1. Clean(leer(t, f))
    BY DEF Clean, leer, TypedOk, TypedError
  <2>. QED  BY <2>1 DEF Clean, read_text, TypedOk, TypedError
<1>5. ASSUME NEW w PROVE Clean(leer_palabras(w))
  BY DEF Clean, leer_palabras, TypedOk, TypedError
<1>. QED  BY <1>1, <1>2, <1>3, <1>4, <1>5

(* Nothing is printed but by empaquetar, and what was read last, where     *)
(* symbols were, is what is in hand, in one of its orders: neither grows   *)
(* nor changes after it.                                                   *)
Printings ==
  /\ DOMAIN printed = Copies
  /\ \A c \in Copies : printed[c] = NotPrinted \/ IsPrinting(printed[c])

Hands ==
  /\ IsFiniteSet(hand)
  /\ \A s \in hand \ Strays : \E c \in Copies : s \in Range(printed[c].symbols)
  /\ again \subseteq hand

Readings ==
  /\ Unused \/ Blank
  /\ Clean(outcome)
  /\ HasRead => \E read \in Orders : outcome = reensamblar(read)

IInv == Printings /\ Hands /\ Readings

LEMMA InitReads == Init => IInv
<1>. SUFFICES ASSUME Init PROVE IInv
  OBVIOUS
<1>1. Printings
  BY DEF Init, Printings
<1>2. Hands
  BY FS_EmptySet DEF Init, Hands
<1>3. Readings
  BY DEF Init, Readings, Unused, Blank, Clean, NotRead, PaperError, HasRead
<1>. QED  BY <1>1, <1>2, <1>3 DEF IInv

(* What nobody does to the symbols leaves printings and hands as they are. *)
LEMMA SymbolsStay ==
  ASSUME Printings, Hands, UNCHANGED <<printed, hand, again>>
  PROVE  Printings' /\ Hands'
BY DEF Printings, Hands

LEMMA NextReads == IInv /\ [Next]_vars => IInv'
<1>. SUFFICES ASSUME IInv, [Next]_vars PROVE IInv'
  OBVIOUS
<1>. USE DEF IInv
<1>. DEFINE Silent == outcome' = NotRead
<1>0. Clean(NotRead)
  BY DEF Clean, NotRead, PaperError
<1>1. ASSUME NEW c \in Copies, NEW d \in Documents, NEW n \in Capacities, NEW p \in Parities,
             PrintSymbols(c, d, n, p)
      PROVE  IInv'
  <2>. DEFINE r == empaquetar(d, n, p)
              new == [document |-> d, capacity |-> n, parity |-> p, symbols |-> r.data]
  <2>1. Clean(r)
    BY Answers
  <2>2. r.status = "ok" => IsPrinting(new)
    BY Packed
  <2>. HIDE DEF r
  <2>3. /\ Blank /\ hand = {} /\ UNCHANGED <<hand, again, text, phrase>>
        /\ outcome' = IF r.status = "ok" THEN NotRead ELSE r
        /\ printed' = IF r.status # "ok" THEN printed ELSE [printed EXCEPT ![c] = new]
    BY <1>1 DEF PrintSymbols, r
  <2>. HIDE DEF new
  <2>4. Printings'
    <3>1. CASE r.status # "ok"
      BY <2>3, <3>1 DEF Printings
    <3>2. CASE r.status = "ok"
      <4>1. /\ DOMAIN printed' = Copies
            /\ \A e \in Copies : printed'[e] = IF e = c THEN new ELSE printed[e]
        BY <2>3, <3>2 DEF Printings
      <4>. QED  BY <2>2, <3>2, <4>1 DEF Printings
    <3>. QED  BY <3>1, <3>2
  <2>5. Hands'
    BY <2>3, FS_EmptySet DEF Hands
  <2>6. Readings'
    BY <1>0, <2>1, <2>3 DEF Readings, Blank, HasRead, Clean
  <2>. QED  BY <2>4, <2>5, <2>6
<1>2. ASSUME NEW c \in Copies, NEW j \in 1..MaxSymbols, Scan(c, j)
      PROVE  IInv'
  <2>. DEFINE s == printed[c].symbols[j]
  <2>1. /\ hand' = hand \cup {s} /\ Silent
        /\ UNCHANGED <<printed, again, text, phrase>>
        /\ j \in 1..Len(printed[c].symbols)
    BY <1>2 DEF Scan
  <2>2. s \in Range(printed[c].symbols)
    <3>1. printed[c] # NotPrinted
      <4>1. Len(NotPrinted.symbols) = 0
        BY DEF NotPrinted
      <4>. QED  BY <2>1, <4>1
    <3>2. IsPrinting(printed[c])
      BY <3>1 DEF Printings
    <3>3. j \in DOMAIN printed[c].symbols
      BY <2>1, <3>2 DEF IsPrinting
    <3>. QED  BY <3>3 DEF Range
  <2>. HIDE DEF s
  <2>3. Printings'
    BY <2>1 DEF Printings
  <2>4. IsFiniteSet(hand')
    BY <2>1, FS_AddElement DEF Hands
  <2>5. Hands'
    BY <2>1, <2>2, <2>4 DEF Hands
  <2>6. Readings'
    BY <1>0, <2>1 DEF Readings, HasRead, Unused, Blank
  <2>. QED  BY <2>3, <2>5, <2>6
<1>3. ASSUME NEW s \in Strays, ScanStray(s)
      PROVE  IInv'
  <2>1. hand' = hand \cup {s} /\ Silent /\ UNCHANGED <<printed, again, text, phrase>>
    BY <1>3 DEF ScanStray
  <2>2. Printings'
    BY <2>1 DEF Printings
  <2>3. IsFiniteSet(hand')
    BY <2>1, FS_AddElement DEF Hands
  <2>4. Hands'
    BY <2>1, <2>3 DEF Hands
  <2>5. Readings'
    BY <1>0, <2>1 DEF Readings, HasRead, Unused, Blank
  <2>. QED  BY <2>2, <2>4, <2>5
<1>4. ASSUME NEW s \in hand, ScanAgain(s)
      PROVE  IInv'
  <2>1. again' = {s} /\ Silent /\ UNCHANGED <<printed, hand, text, phrase>>
    BY <1>4 DEF ScanAgain
  <2>2. Printings' /\ Hands'
    BY <2>1 DEF Printings, Hands
  <2>3. Readings'
    BY <1>0, <2>1 DEF Readings, HasRead, Unused, Blank
  <2>. QED  BY <2>2, <2>3
<1>5. ASSUME ReadSymbols
      PROVE  IInv'
  <2>1. /\ UNCHANGED <<printed, hand, again, text, phrase>>
        /\ \E read \in Orders : outcome' = reensamblar(read)
    BY <1>5 DEF ReadSymbols
  <2>2. Orders' = Orders
    BY <2>1 DEF Orders
  <2>3. Clean(outcome)'
    BY <2>1, Answers DEF Clean
  <2>4. Readings'
    BY <2>1, <2>2, <2>3 DEF Readings, Unused, Blank
  <2>. QED  BY <2>1, <2>4, SymbolsStay
<1>6. ASSUME Unused, UNCHANGED <<printed, hand, again>>, Clean(outcome)'
      PROVE  IInv'
  <2>1. Unused'
    BY <1>6 DEF Unused
  <2>2. Readings'
    BY <1>6, <2>1 DEF Readings, HasRead
  <2>. QED  BY <1>6, <2>2, SymbolsStay
<1>7. text # NoText \/ phrase # NoPhrase => Unused
  BY DEF Readings, Blank
<1>8. outcome' = NotRead => Clean(outcome)'
  BY <1>0 DEF Clean
<1>9. ASSUME NEW d \in Documents,
             NEW f \in {Bare} \cup {Guarded(p) : p \in Parities} \cup {InSymbols(a) : a \in Alphabets},
             Type(d, f)
      PROVE  IInv'
  <2>. DEFINE r == write_text(d, f)
  <2>1. Clean(r)
    BY Answers
  <2>. HIDE DEF r
  <2>2. Unused /\ UNCHANGED <<printed, hand, again>> /\ outcome' = IF r.status = "ok" THEN NotRead ELSE r
    BY <1>9 DEF Type, r
  <2>3. Clean(outcome)'
    BY <1>8, <2>1, <2>2 DEF Clean
  <2>. QED  BY <1>6, <2>2, <2>3
<1>10. ASSUME NEW i \in 1..(Len(text.characters)), Slip(i)
       PROVE  IInv'
  <2>1. text # NoText /\ UNCHANGED <<printed, hand, again>> /\ outcome' = NotRead
    BY <1>10 DEF Slip
  <2>. QED  BY <1>6, <1>7, <1>8, <2>1
<1>11. ASSUME ReadText
       PROVE  IInv'
  <2>1. /\ text # NoText /\ UNCHANGED <<printed, hand, again>>
        /\ outcome' = read_text(text.characters, text.frame)
    BY <1>11 DEF ReadText
  <2>2. Clean(outcome)'
    BY <2>1, Answers DEF Clean
  <2>. QED  BY <1>6, <1>7, <2>1, <2>2
<1>12. ASSUME NEW s \in Secrets, WriteWords(s)
       PROVE  IInv'
  <2>1. Unused /\ UNCHANGED <<printed, hand, again>> /\ outcome' = NotRead
    BY <1>12 DEF WriteWords
  <2>. QED  BY <1>6, <1>8, <2>1
<1>13. ASSUME NEW i \in 1..Len(phrase.words), WordSlip(i)
       PROVE  IInv'
  <2>1. phrase # NoPhrase /\ UNCHANGED <<printed, hand, again>> /\ outcome' = NotRead
    BY <1>13 DEF WordSlip
  <2>. QED  BY <1>6, <1>7, <1>8, <2>1
<1>14. ASSUME ReadWords
       PROVE  IInv'
  <2>1. /\ phrase # NoPhrase /\ UNCHANGED <<printed, hand, again>>
        /\ outcome' = leer_palabras(phrase.words)
    BY <1>14 DEF ReadWords
  <2>2. Clean(outcome)'
    BY <2>1, Answers DEF Clean
  <2>. QED  BY <1>6, <1>7, <2>1, <2>2
<1>15. ASSUME UNCHANGED vars
       PROVE  IInv'
  <2>1. /\ UNCHANGED <<printed, hand, again, text, phrase, outcome>>
        /\ Orders' = Orders
    BY <1>15 DEF vars, Orders
  <2>2. Readings'
    BY <2>1 DEF Readings, HasRead, Unused, Blank, Clean
  <2>. QED  BY <2>1, <2>2, SymbolsStay
<1>. QED  BY <1>1, <1>2, <1>3, <1>4, <1>5, <1>9, <1>10, <1>11, <1>12, <1>13, <1>14, <1>15 DEF Next

LEMMA ReadsAlways == Spec => []IInv
BY InitReads, NextReads, PTL DEF Spec

-----------------------------------------------------------------------------
(* Every symbol in hand knows its place among those of its printing and    *)
(* fits in the capacity asked for, whatever is read twice was read, and no *)
(* error carries data (papel.rs empaquetar, reensamblar).                  *)
THEOREM TypeCorrect == Spec => []TypeOK
<1>1. IInv => TypeOK
  <2>. SUFFICES ASSUME IInv PROVE TypeOK
    OBVIOUS
  <2>1. ASSUME NEW c \in Copies, NEW j \in 1..Len(printed[c].symbols)
        PROVE  /\ printed[c].symbols[j].index = j - 1
               /\ printed[c].symbols[j].total = Len(printed[c].symbols)
               /\ Heading + Len(printed[c].symbols[j].cells) <= printed[c].capacity
    <3>1. printed[c] # NotPrinted
      <4>1. Len(NotPrinted.symbols) = 0
        BY DEF NotPrinted
      <4>. QED  BY <4>1
    <3>2. IsPrinting(printed[c])
      BY <3>1 DEF IInv, Printings
    <3>. DEFINE r == printed[c]
    <3>. HIDE DEF r
    <3>3. /\ r.symbols[j] = PartOf(Stream(r.document, r.parity), Len(r.symbols), j - 1)
          /\ Heading + Len(r.symbols[j].cells) <= r.capacity
      BY <3>2 DEF IsPrinting, r
    <3>4. r.symbols[j].index = j - 1 /\ r.symbols[j].total = Len(r.symbols)
      BY <3>3, PartFields
    <3>. QED  BY <3>3, <3>4 DEF r
  <2>. QED  BY <2>1 DEF IInv, Hands, Readings, Clean, TypeOK
<1>. QED  BY <1>1, ReadsAlways, PTL

(* What is read of one printing: one of its documents' readings.           *)
LEMMA ReadOfOnePrinting ==
  ASSUME IInv, HasRead, NEW c \in Copies, hand \subseteq SymbolsOf(c), again = {}
  PROVE  /\ IsPrinting(printed[c]) /\ outcome.status \in {"ok", "unrecovered"}
         /\ Cardinality(SymbolsOf(c) \ hand) <= tolerated(Len(printed[c].symbols), printed[c].parity) =>
              outcome = [status |-> "ok", data |-> printed[c].document]
<1>1. hand # {} /\ IsFiniteSet(hand)
  BY DEF IInv, Hands, HasRead
<1>2. IsPrinting(printed[c])
  <2>1. ASSUME printed[c] = NotPrinted PROVE FALSE
    <3>1. Range(<<>>) = {}
      BY DEF Range
    <3>2. printed[c].symbols = <<>>
      BY <2>1 DEF NotPrinted
    <3>. QED  BY <1>1, <3>1, <3>2 DEF SymbolsOf
  <2>. QED  BY <2>1 DEF IInv, Printings
<1>3. PICK read \in Orders : outcome = reensamblar(read)
  BY DEF IInv, Readings
<1>4. Enumerates(read, hand, hand)
  BY <1>1, OrdersEnumerate DEF Orders
<1>. DEFINE r == printed[c]
<1>. HIDE DEF r
<1>5. hand \subseteq Range(r.symbols) /\ IsPrinting(r)
  BY <1>2 DEF SymbolsOf, r
<1>6. /\ reensamblar(read).status \in {"ok", "unrecovered"}
      /\ Cardinality(Range(r.symbols) \ hand) <= tolerated(Len(r.symbols), r.parity) =>
           reensamblar(read) = [status |-> "ok", data |-> r.document]
  BY <1>1, <1>4, <1>5, PartsOfPrinting
<1>. QED  BY <1>2, <1>3, <1>6 DEF SymbolsOf, r

(* The ceiling on what a reading may reserve, and every other check of     *)
(* coherence, refuses no part of one printing, however few of its symbols  *)
(* are read and in whichever order (papel.rs reensamblar, techo).          *)
THEOREM PartsOfOneCohere == Spec => []PartsAreCoherent
<1>1. IInv => PartsAreCoherent
  BY ReadOfOnePrinting DEF PartsAreCoherent
<1>. QED  BY <1>1, ReadsAlways, PTL

(* A printing that misses no more symbols than simbolos_perdidos_tolerados *)
(* told whoever printed it is read whole, for any document, any capacity   *)
(* and any parity, whichever symbols are lost.                             *)
THEOREM ToleratedLossReads == Spec => []LossWithinTheBoundReads
<1>1. IInv => LossWithinTheBoundReads
  <2>. SUFFICES ASSUME IInv, NEW c \in Copies, HasRead, hand \subseteq SymbolsOf(c), again = {},
                       Cardinality(SymbolsOf(c) \ hand)
                         <= tolerated(Len(printed[c].symbols), printed[c].parity)
                PROVE  Read(printed[c].document)
    BY DEF LossWithinTheBoundReads
  <2>1. outcome = [status |-> "ok", data |-> printed[c].document]
    BY ReadOfOnePrinting
  <2>. QED  BY <2>1 DEF Read
<1>. QED  BY <1>1, ReadsAlways, PTL

(* What error correction promises by itself (ecc.rs protect, recover):     *)
(* with no more errors than the header corrects in the header, and half    *)
(* the parity in each block, whatever the errors turn bytes into, a        *)
(* protected document is recovered.                                        *)
THEOREM ErrorsWithinParityCostNothing ==
  ASSUME NEW data \in Seq(Bytes), Len(data) < Power(Radix, LengthBytes),
         NEW parity \in Nat, parity <= MaxParity, NEW S, NEW cells \in Seq(S),
         Len(protect(data, parity)) <= Len(cells),
         WithinTheBound(protect(data, parity), cells, data, Clamp(parity))
  PROVE  recover(cells) = Some(data)
<1>1. Clamp(parity) \in 2..MaxParity
  BY Clamped
<1>2. protect(data, parity) = Laid(data, Clamp(parity))
  BY ProtectIs
<1>. QED  BY <1>1, <1>2, Recovers

(* The bits of the number that bits write are those bits, and the number   *)
(* that the bits of a number write is that number, if it has no more.      *)
LEMMA NumberInBits ==
  ASSUME NEW w \in Nat
  PROVE  /\ Power(2, w) \in Nat
         /\ \A b \in [1..w -> {0, 1}] : Number(b) \in 0..(Power(2, w) - 1) /\ InBits(Number(b), w) = b
         /\ \A n \in 0..(Power(2, w) - 1) : InBits(n, w) \in [1..w -> {0, 1}] /\ Number(InBits(n, w)) = n
<1>. DEFINE two == 2
            count == Power(2, w)
<1>0. two \in Nat \ {0, 1} /\ 0..(two - 1) = {0, 1}
  OBVIOUS
<1>. HIDE DEF two
<1>1. [1..w -> {0, 1}] = DigitsIn(w, two) /\ count = Power(two, w) /\ count \in Nat
  <2>1. Power(two, w) \in Nat
    BY <1>0, PowerUnfolds
  <2>. QED  BY <1>0, <2>1 DEF DigitsIn, two
<1>. HIDE DEF count
<1>2. \A b : Number(b) = ValueOf(b, two)
  BY DEF Number, two
<1>3. \A n : InBits(n, w) = Shown(n, w, two)
  BY DEF InBits, Shown, two
<1>4. ASSUME NEW b \in [1..w -> {0, 1}] PROVE Number(b) \in 0..(count - 1) /\ InBits(Number(b), w) = b
  <2>1. b \in DigitsIn(w, two)
    BY <1>1
  <2>2. /\ ValueOf(b, two) \in Nat /\ ValueOf(b, two) < Power(two, w)
        /\ Shown(ValueOf(b, two), w, two) = b
    BY <1>0, <2>1, ReadIsShown
  <2>. QED  BY <1>1, <1>2, <1>3, <2>2
<1>5. ASSUME NEW n \in 0..(count - 1) PROVE InBits(n, w) \in [1..w -> {0, 1}] /\ Number(InBits(n, w)) = n
  <2>1. n \in Nat /\ n < Power(two, w)
    BY <1>1
  <2>2. Shown(n, w, two) \in DigitsIn(w, two)
    BY <1>0, <2>1, ShownDigits
  <2>3. ValueOf(Shown(n, w, two), two) = n
    BY <1>0, <2>1, ShownIsRead
  <2>. QED  BY <1>1, <1>2, <1>3, <2>2, <2>3
<1>. QED  BY <1>1, <1>4, <1>5 DEF count

(* Numbers of the bits of a word.                                          *)
Bits == [1..WordBits -> {0, 1}]
Count == Power(2, WordBits)

LEMMA NumberAndBits ==
  /\ \A b \in Bits : Number(b) \in 0..(Count - 1) /\ InBits(Number(b), WordBits) = b
  /\ \A n \in 0..(Count - 1) : InBits(n, WordBits) \in Bits /\ Number(InBits(n, WordBits)) = n
<1>1. WordBits \in Nat
  BY TecleableAssumption
<1>. QED  BY <1>1, NumberInBits DEF Bits, Count

(* And of a byte.                                                          *)
ByteIn == [1..ByteBits -> {0, 1}]

LEMMA ByteAndBits ==
  /\ \A b \in ByteIn : Number(b) \in Bytes
  /\ \A v \in Bytes : InBits(v, ByteBits) \in ByteIn /\ Number(InBits(v, ByteBits)) = v
<1>1. ByteBits \in Nat /\ Radix = Power(2, ByteBits)
  BY TecleableAssumption
<1>. QED  BY <1>1, NumberInBits DEF ByteIn, Bytes

-----------------------------------------------------------------------------
(* Lists in groups of equal size.                                          *)

(* Every place is in a group, and every place of a group is a place.       *)
LEMMA GroupPlaces ==
  ASSUME NEW k \in Nat, NEW w \in Nat \ {0}
  PROVE  /\ k * w \in Nat
         /\ \A p \in 1..k, q \in 1..w : (p - 1) * w + q \in 1..(k * w)
         /\ \A j \in 1..(k * w) : \E p \in 1..k, q \in 1..w : j = (p - 1) * w + q
<1>1. k * w \in Nat
  OBVIOUS
<1>2. ASSUME NEW p \in 1..k, NEW q \in 1..w PROVE (p - 1) * w + q \in 1..(k * w)
  <2>1. p - 1 \in Nat /\ p - 1 < k
    OBVIOUS
  <2>2. (p - 1) * w + w <= k * w /\ (p - 1) * w \in Nat
    BY <2>1, ProductsOrdered
  <2>. DEFINE a == (p - 1) * w
              b == k * w
  <2>3. a \in Nat /\ b \in Nat /\ a + w <= b
    BY <1>1, <2>2
  <2>. HIDE DEF a, b
  <2>4. a + q \in 1..b
    BY <2>3
  <2>. QED  BY <2>4 DEF a, b
<1>3. ASSUME NEW j \in 1..(k * w) PROVE \E p \in 1..k, q \in 1..w : j = (p - 1) * w + q
  <2>. DEFINE a == (j - 1) \div w
              r == (j - 1) % w
  <2>1. j \in Nat /\ j >= 1 /\ j <= k * w
    BY <1>1
  <2>2. a \in Int /\ r \in 0..(w - 1) /\ j - 1 = w * a + r
    BY <2>1, Euclid
  <2>3. a \in Nat
    BY <2>1, QuotientIsNat
  <2>. HIDE DEF a, r
  <2>4. ~(k <= a)
    <3>. SUFFICES ASSUME k <= a PROVE FALSE
      OBVIOUS
    <3>1. k * w <= a * w
      BY <2>3, ProductMonotone
    <3>2. a * w = w * a /\ a * w \in Nat
      BY <2>3
    <3>. QED  BY <1>1, <2>1, <2>2, <3>1, <3>2
  <2>5. a + 1 \in 1..k /\ r + 1 \in 1..w /\ (a + 1) - 1 = a
    BY <2>2, <2>3, <2>4
  <2>6. a * w = w * a /\ a * w \in Nat
    BY <2>3
  <2>7. j = ((a + 1) - 1) * w + (r + 1)
    BY <2>1, <2>2, <2>5, <2>6
  <2>. QED  BY <2>5, <2>7
<1>. QED  BY <1>1, <1>2, <1>3

(* A list is known by its elements.                                        *)
LEMMA SameList ==
  ASSUME NEW C, NEW D, NEW n \in Nat, NEW s \in [1..n -> C], NEW t \in [1..n -> D],
         \A i \in 1..n : s[i] = t[i]
  PROVE  s = t
OBVIOUS

(* Groups joined.                                                          *)
Grouped(list, g, k, w) ==
  \A p \in 1..k, q \in 1..w : list[(p - 1) * w + q] = g[p][q]

LEMMA JoinedGroups ==
  ASSUME NEW S, NEW k \in Nat, NEW w \in Nat \ {0}, NEW g \in [1..k -> [1..w -> S]]
  PROVE  /\ FlattenSeq(g) \in [1..(k * w) -> S]
         /\ Grouped(FlattenSeq(g), g, k, w)
<1>1. CASE k = 0
  <2>1. g = <<>> /\ 1..(k * w) = {}
    BY <1>1
  <2>2. FlattenSeq(<<>>) = <<>>
    BY DEF FlattenSeq
  <2>3. <<>> \in [{} -> S]
    OBVIOUS
  <2>. QED  BY <1>1, <2>1, <2>2, <2>3 DEF Grouped
<1>2. CASE k # 0
  <2>1. k \in Nat \ {0} /\ k \in 1..k
    BY <1>2
  <2>2. ASSUME NEW p \in 1..k PROVE g[p] \in Seq(S) /\ Len(g[p]) = w /\ g[p] \in [1..w -> S]
    OBVIOUS
  <2>3. g \in [1..k -> Seq(S)]
    BY <2>2
  <2>4. \A i \in 1..(k - 1) : Len(g[i]) = w
    BY <2>2
  <2>5. FlattenSeq(g) \in Seq(S) /\ Placed(g, FlattenSeq(g), k, w)
    BY <2>1, <2>3, <2>4, FlattenPlaces
  <2>. DEFINE f == FlattenSeq(g)
  <2>. HIDE DEF f
  <2>6. Len(f) = k * w /\ k * w \in Nat
    <3>1. (k - 1) * w + w = k * w /\ k * w \in Nat
      OBVIOUS
    <3>2. Len(f) = (k - 1) * w + Len(g[k])
      BY <2>5 DEF Placed, f
    <3>. QED  BY <2>1, <2>2, <3>1, <3>2
  <2>7. f \in [1..(k * w) -> S]
    BY <2>5, <2>6, LenProperties DEF f
  <2>8. Grouped(f, g, k, w)
    BY <2>2, <2>5 DEF Placed, Grouped, f
  <2>. QED  BY <2>7, <2>8 DEF f
<1>. QED  BY <1>1, <1>2

(* A list is its groups joined.                                            *)
LEMMA GroupsOfList ==
  ASSUME NEW S, NEW k \in Nat, NEW w \in Nat \ {0}, NEW g \in [1..k -> [1..w -> S]],
         NEW list \in [1..(k * w) -> S], Grouped(list, g, k, w)
  PROVE  FlattenSeq(g) = list
<1>. DEFINE f == FlattenSeq(g)
            n == k * w
<1>1. f \in [1..n -> S] /\ Grouped(f, g, k, w)
  BY JoinedGroups
<1>. HIDE DEF f
<1>2. n \in Nat
  OBVIOUS
<1>3. ASSUME NEW j \in 1..n PROVE f[j] = list[j]
  <2>1. PICK p \in 1..k : \E q \in 1..w : j = (p - 1) * w + q
    BY <1>3, GroupPlaces
  <2>2. PICK q \in 1..w : j = (p - 1) * w + q
    BY <2>1
  <2>3. f[j] = g[p][q]
    BY <1>1, <2>2 DEF Grouped
  <2>4. list[j] = g[p][q]
    BY <2>2 DEF Grouped
  <2>. QED  BY <2>3, <2>4
<1>. HIDE DEF n
<1>4. list \in [1..n -> S]
  BY DEF n
<1>5. f = list
  BY <1>1, <1>2, <1>3, <1>4, SameList
<1>. QED  BY <1>5 DEF f

(* A group of a list.                                                      *)
Group(list, p, w) == SubSeq(list, (p - 1) * w + 1, p * w)
IsGroup(g, S, list, p, w) ==
  g \in [1..w -> S] /\ \A q \in 1..w : g[q] = list[(p - 1) * w + q]

LEMMA GroupWithin ==
  ASSUME NEW S, NEW k \in Nat, NEW w \in Nat \ {0}, NEW n \in Nat, k * w <= n,
         NEW list \in [1..n -> S], NEW p \in 1..k
  PROVE  IsGroup(Group(list, p, w), S, list, p, w)
<1>. DEFINE a == (p - 1) * w
            b == p * w
            s == SubSeq(list, a + 1, b)
<1>1. a \in Nat /\ b \in Nat /\ b = a + w
  OBVIOUS
<1>2. \A q \in 1..w : a + q \in 1..n
  <2>1. \A q \in 1..w : a + q \in 1..(k * w)
    BY GroupPlaces
  <2>2. k * w \in Nat
    OBVIOUS
  <2>. QED  BY <2>1, <2>2
<1>3. list \in [1..n -> S]
  OBVIOUS
<1>. HIDE DEF a, b
<1>4. \A i \in (a + 1)..b : list[i] \in S
  <2>. TAKE i \in (a + 1)..b
  <2>1. i - a \in 1..w /\ i = a + (i - a)
    BY <1>1
  <2>. QED  BY <1>2, <1>3, <2>1
<1>. DEFINE m == a + 1
<1>5. m \in Int /\ b \in Int /\ b - m + 1 = w /\ m <= b
  BY <1>1
<1>6. \A q \in 1..w : m + q - 1 = a + q
  BY <1>1
<1>7. /\ SubSeq(list, m, b) \in Seq(S)
      /\ Len(SubSeq(list, m, b)) = w
      /\ \A q \in 1..w : SubSeq(list, m, b)[q] = list[m + q - 1]
  <2>1. \A i \in m..b : list[i] \in S
    BY <1>4
  <2>. HIDE DEF m
  <2>. QED  BY <1>5, <2>1, SubSeqProperties
<1>8. s \in [1..w -> S]
  BY <1>7, LenProperties
<1>9. \A q \in 1..w : s[q] = list[a + q]
  BY <1>6, <1>7
<1>. QED  BY <1>8, <1>9 DEF a, b, Group, IsGroup

LEMMA GroupOf ==
  ASSUME NEW S, NEW k \in Nat, NEW w \in Nat \ {0}, NEW list \in [1..(k * w) -> S],
         NEW p \in 1..k
  PROVE  IsGroup(Group(list, p, w), S, list, p, w)
<1>. DEFINE n == k * w
<1>1. n \in Nat /\ k * w <= n /\ list \in [1..n -> S]
  OBVIOUS
<1>. HIDE DEF n
<1>. QED  BY <1>1, GroupWithin

-----------------------------------------------------------------------------
(* Phrases.                                                                *)

(* The words of a secret of n bits, and its bits with the checksum's.      *)
WordsFor(n) == (n + SumBits[n]) \div WordBits
Summed(secret) == secret \o Digest[secret]

(* A multiple is the multiple of its quotient.                             *)
LEMMA Multiple ==
  ASSUME NEW a \in Nat \ {0}, NEW w \in Nat \ {0}, (a % w) = 0
  PROVE  a \div w \in Nat \ {0} /\ (a \div w) * w = a
<1>1. a = w * (a \div w) + (a % w) /\ a \div w \in Int
  BY Euclid
<1>2. a \div w \in Nat
  BY QuotientIsNat
<1>. DEFINE q == a \div w
<1>3. q \in Nat /\ a = w * q
  BY <1>1, <1>2
<1>. HIDE DEF q
<1>4. q # 0 /\ q * w = a
  BY <1>3
<1>. QED  BY <1>3, <1>4 DEF q

(* A multiple has one quotient.                                            *)
LEMMA QuotientOf ==
  ASSUME NEW k \in Nat, NEW w \in Nat \ {0}
  PROVE  (k * w) \div w = k
OBVIOUS

(* The sizes of what makes a phrase.                                       *)
LEMMA SizesOf ==
  ASSUME NEW n \in Sizes
  PROVE  /\ n \in Nat \ {0} /\ SumBits[n] \in Nat /\ WordBits \in Nat \ {0}
         /\ WordsFor(n) \in Nat \ {0} /\ WordsFor(n) * WordBits = n + SumBits[n]
<1>1. /\ n \in Nat \ {0} /\ SumBits[n] \in Nat /\ WordBits \in Nat \ {0}
      /\ ((n + SumBits[n]) % WordBits) = 0
  BY TecleableAssumption
<1>. DEFINE a == n + SumBits[n]
<1>2. a \in Nat \ {0}
  BY <1>1
<1>. HIDE DEF a
<1>3. a \div WordBits \in Nat \ {0} /\ (a \div WordBits) * WordBits = a
  BY <1>1, <1>2, Multiple DEF a
<1>. QED  BY <1>1, <1>3 DEF a, WordsFor

(* A secret, of one of the sizes, and its checksum.                        *)
LEMMA SecretOf ==
  ASSUME NEW n \in Sizes, NEW s \in [1..n -> {0, 1}]
  PROVE  /\ s \in Secrets /\ Len(s) = n
         /\ Digest[s] \in [1..SumBits[n] -> {0, 1}]
         /\ Summed(s) \in [1..(WordsFor(n) * WordBits) -> {0, 1}]
         /\ \A i \in 1..(n + SumBits[n]) : Summed(s)[i] = IF i <= n THEN s[i] ELSE Digest[s][i - n]
<1>1. n \in Nat /\ SumBits[n] \in Nat /\ WordsFor(n) * WordBits = n + SumBits[n]
  BY SizesOf
<1>2. s \in Seq({0, 1}) /\ Len(s) = n
  BY <1>1
<1>3. s \in Secrets
  BY DEF Secrets
<1>4. Digest[s] \in [1..SumBits[n] -> {0, 1}]
  BY <1>2, <1>3, TecleableAssumption
<1>5. Digest[s] \in Seq({0, 1}) /\ Len(Digest[s]) = SumBits[n]
  BY <1>1, <1>4
<1>. DEFINE d == Digest[s]
<1>. HIDE DEF d
<1>6. /\ s \o d \in Seq({0, 1}) /\ Len(s \o d) = n + SumBits[n]
      /\ \A i \in 1..(n + SumBits[n]) : (s \o d)[i] = IF i <= n THEN s[i] ELSE d[i - n]
  <2>1. d \in Seq({0, 1}) /\ Len(d) = SumBits[n]
    BY <1>5 DEF d
  <2>2. /\ s \o d \in Seq({0, 1}) /\ Len(s \o d) = Len(s) + Len(d)
        /\ \A i \in 1..(Len(s) + Len(d)) : (s \o d)[i] = IF i <= Len(s) THEN s[i] ELSE d[i - Len(s)]
    BY <1>2, <2>1, ConcatProperties
  <2>. QED  BY <1>2, <2>1, <2>2
<1>7. s \o d \in [1..(n + SumBits[n]) -> {0, 1}]
  BY <1>6, LenProperties
<1>. QED  BY <1>1, <1>2, <1>3, <1>4, <1>6, <1>7 DEF Summed, d

(* The phrase of a secret: its numbers write the bits, group by group.     *)
LEMMA PhraseOf ==
  ASSUME NEW n \in Sizes, NEW s \in [1..n -> {0, 1}]
  PROVE  /\ Phrase(s) \in [1..WordsFor(n) -> 0..(Count - 1)]
         /\ Len(Phrase(s)) = WordsFor(n)
         /\ \A p \in 1..WordsFor(n), q \in 1..WordBits :
              InBits(Phrase(s)[p], WordBits)[q] = Summed(s)[(p - 1) * WordBits + q]
<1>. DEFINE k == WordsFor(n)
            w == WordBits
            b == Summed(s)
<1>1. k \in Nat /\ w \in Nat \ {0} /\ b \in [1..(k * w) -> {0, 1}]
  BY SizesOf, SecretOf
<1>. DEFINE group(p) == SubSeq(b, (p - 1) * w + 1, p * w)
<1>2. ASSUME NEW p \in 1..k
      PROVE  group(p) \in Bits /\ \A q \in 1..w : group(p)[q] = b[(p - 1) * w + q]
  <2>. DEFINE two == {0, 1}
  <2>1. b \in [1..(k * w) -> two]
    BY <1>1
  <2>2. IsGroup(Group(b, p, w), two, b, p, w)
    <3>. HIDE DEF k, b, w, two
    <3>. QED  BY <1>1, <2>1, GroupOf
  <2>. QED  BY <2>2 DEF Bits, IsGroup, Group
<1>3. Phrase(s) = [p \in 1..k |-> Number(group(p))]
  <2>1. Len(b) = k * w /\ Len(b) \div w = k
    <3>1. k * w \in Nat
      BY <1>1
    <3>. DEFINE m == k * w
    <3>2. b \in Seq({0, 1}) /\ Len(b) = m
      <4>. HIDE DEF k, b
      <4>1. b \in [1..m -> {0, 1}] /\ m \in Nat
        BY <1>1, <3>1
      <4>. HIDE DEF m
      <4>. QED  BY <4>1
    <3>. QED  BY <1>1, <3>2, QuotientOf
  <2>. QED  BY <2>1 DEF Phrase, Summed
<1>. HIDE DEF group, k, w, b
<1>4. ASSUME NEW p \in 1..k
      PROVE  /\ Number(group(p)) \in 0..(Count - 1)
             /\ InBits(Number(group(p)), WordBits) = group(p)
  BY <1>2, NumberAndBits
<1>5. Phrase(s) \in [1..k -> 0..(Count - 1)]
  BY <1>3, <1>4
<1>6. Len(Phrase(s)) = k
  BY <1>1, <1>3
<1>7. ASSUME NEW p \in 1..k, NEW q \in 1..w
      PROVE  InBits(Phrase(s)[p], WordBits)[q] = b[(p - 1) * w + q]
  <2>1. Phrase(s)[p] = Number(group(p))
    BY <1>3
  <2>. QED  BY <1>2, <1>4, <2>1
<1>. QED  BY <1>5, <1>6, <1>7 DEF k, w, b

-----------------------------------------------------------------------------
(* Words.                                                                  *)

(* What may be typed for the word at place i of the list: all of it, or as *)
(* many letters of it as are enough.                                       *)
StandsFor(typed, i) ==
  /\ i + 1 \in 1..Len(Words)
  /\ \/ typed = Words[i + 1]
     \/ IsPrefix(typed, Words[i + 1]) /\ Len(typed) \in Nat /\ Len(typed) >= Enough

(* The list has as many words as there are numbers.                        *)
LEMMA ListOfWords ==
  /\ Len(Words) = Count /\ Count \in Nat /\ Enough \in Nat \ {0}
  /\ \A i \in 1..Len(Words) : Words[i] \in Seq(STRING) /\ Len(Words[i]) \in Nat
<1>1. Words \in Seq(Seq(STRING)) /\ Len(Words) = Count /\ Enough \in Nat \ {0}
  BY TecleableAssumption DEF Count
<1>2. Len(Words) \in Nat /\ \A i \in 1..Len(Words) : Words[i] \in Seq(STRING)
  BY <1>1
<1>. QED  BY <1>1, <1>2, LenProperties

(* A word begins with itself.                                              *)
LEMMA BeginsWithItself ==
  ASSUME NEW i \in 1..Len(Words)
  PROVE  IsPrefix(Words[i], Words[i])
BY ListOfWords DEF IsPrefix

(* Enough letters say which word it is.                                    *)
LEMMA EnoughIsEnough ==
  ASSUME NEW i \in 1..Len(Words), NEW j \in 1..Len(Words), NEW typed,
         IsPrefix(typed, Words[i]), IsPrefix(typed, Words[j]),
         Len(typed) \in Nat, Len(typed) >= Enough
  PROVE  i = j
<1>1. ASSUME NEW k \in 1..Len(Words), IsPrefix(typed, Words[k])
      PROVE  Beginning(Words[k]) = SubSeq(typed, 1, Enough)
  <2>. DEFINE v == Words[k]
              l == Len(v)
              t == Len(typed)
  <2>1. v \in Seq(STRING) /\ l \in Nat /\ Enough \in Nat \ {0}
    BY ListOfWords
  <2>2. t <= l /\ SubSeq(typed, 1, t) = SubSeq(v, 1, t) /\ t \in Nat /\ t >= Enough
    BY <1>1 DEF IsPrefix
  <2>3. Min({Enough, l}) = Enough
    <3>1. Enough \in Int /\ l \in Int /\ Enough <= l
      BY <2>1, <2>2
    <3>. HIDE DEF l
    <3>. QED  BY <3>1, OfTwo
  <2>4. SubSeq(v, 1, Enough) = SubSeq(typed, 1, Enough)
    <3>. HIDE DEF v, t
    <3>1. \A i2 \in 1..Enough : SubSeq(typed, 1, t)[i2] = typed[i2] /\ SubSeq(v, 1, t)[i2] = v[i2]
      BY <2>1, <2>2
    <3>2. \A i2 \in 1..Enough : typed[i2] = v[i2]
      BY <2>2, <3>1
    <3>. QED  BY <2>1, <3>2
  <2>. QED  BY <2>3, <2>4 DEF Beginning
<1>2. Beginning(Words[i]) = Beginning(Words[j])
  BY <1>1
<1>. QED  BY <1>2, TecleableAssumption

(* What may be typed for a word is read as that word.                      *)
LEMMA IndexOf ==
  ASSUME NEW i \in 0..(Count - 1), NEW typed, StandsFor(typed, i)
  PROVE  indice_de(typed) = {i}
<1>. DEFINE exact == {j \in 1..Len(Words) : Words[j] = typed}
            candidates == {j \in 1..Len(Words) : IsPrefix(typed, Words[j])}
            found == IF exact # {} THEN exact
                     ELSE IF Cardinality(candidates) = 1 /\ Len(typed) >= Enough
                     THEN candidates ELSE {}
<1>1. i + 1 \in 1..Len(Words) /\ (i + 1) - 1 = i
  BY ListOfWords
<1>2. found = {i + 1}
  <2>1. CASE typed = Words[i + 1]
    <3>1. ASSUME NEW j \in 1..Len(Words), Words[j] = typed PROVE j = i + 1
      <4>1. Beginning(Words[j]) = Beginning(Words[i + 1])
        BY <2>1, <3>1
      <4>. QED  BY <1>1, <4>1, TecleableAssumption
    <3>2. exact = {i + 1}
      BY <1>1, <2>1, <3>1
    <3>. QED  BY <3>2
  <2>2. CASE IsPrefix(typed, Words[i + 1]) /\ Len(typed) \in Nat /\ Len(typed) >= Enough
    <3>1. candidates = {i + 1}
      BY <1>1, <2>2, EnoughIsEnough
    <3>2. exact \subseteq candidates
      BY BeginsWithItself
    <3>3. exact = {} \/ exact = {i + 1}
      BY <3>1, <3>2
    <3>4. Cardinality(candidates) = 1
      BY <3>1, FS_Singleton
    <3>. HIDE DEF exact, candidates
    <3>. QED  BY <2>2, <3>1, <3>3, <3>4
  <2>. QED  BY <2>1, <2>2 DEF StandsFor
<1>3. indice_de(typed) = {j - 1 : j \in found}
  BY DEF indice_de
<1>. HIDE DEF found
<1>. QED  BY <1>1, <1>2, <1>3

(* Whatever word is found begins with what was typed.                      *)
LEMMA FoundBegins ==
  ASSUME NEW typed, NEW i \in indice_de(typed)
  PROVE  i \in 0..(Count - 1) /\ IsPrefix(typed, Words[i + 1])
<1>. DEFINE exact == {j \in 1..Len(Words) : Words[j] = typed}
            candidates == {j \in 1..Len(Words) : IsPrefix(typed, Words[j])}
            found == IF exact # {} THEN exact
                     ELSE IF Cardinality(candidates) = 1 /\ Len(typed) >= Enough
                     THEN candidates ELSE {}
<1>1. found \subseteq candidates
  <2>1. exact \subseteq candidates
    BY BeginsWithItself
  <2>. HIDE DEF exact, candidates
  <2>. QED  BY <2>1
<1>2. indice_de(typed) = {j - 1 : j \in found}
  BY DEF indice_de
<1>3. PICK j \in candidates : i = j - 1
  <2>. HIDE DEF found, candidates
  <2>. QED  BY <1>1, <1>2
<1>4. j \in 1..Len(Words) /\ IsPrefix(typed, Words[j]) /\ i + 1 = j /\ i \in 0..(Count - 1)
  BY <1>3, ListOfWords
<1>. QED  BY <1>4

-----------------------------------------------------------------------------
(* Reading words.                                                          *)

Index(typed) == CHOOSE i \in indice_de(typed) : TRUE
Groups(words) == [p \in 1..Len(words) |-> InBits(Index(words[p]), WordBits)]
SizesFor(words) == {n \in Sizes : n + SumBits[n] = Len(words) * WordBits}

(* What is read when every word is one of the list, and there are as many  *)
(* as a secret of n bits has.                                              *)
LEMMA WordsRead ==
  ASSUME NEW words, Len(words) \in Nat, NEW n \in Sizes,
         n + SumBits[n] = Len(words) * WordBits,
         \A p \in 1..Len(words) : indice_de(words[p]) # {}
  PROVE  LET bits == FlattenSeq(Groups(words))
         IN  leer_palabras(words) =
               IF SubSeq(bits, Len(SubSeq(bits, 1, n)) + 1, Len(bits)) # Digest[SubSeq(bits, 1, n)]
               THEN TypedError("checksum") ELSE TypedOk(SubSeq(bits, 1, n))
<1>1. SizesFor(words) = {n}
  BY TecleableAssumption DEF SizesFor
<1>2. n = CHOOSE m \in SizesFor(words) : TRUE
  BY <1>1
<1>3. SizesFor(words) # {}
  BY <1>1
<1>4. ~ \E p \in 1..Len(words) : indice_de(words[p]) = {}
  OBVIOUS
<1>. QED  BY <1>2, <1>3, <1>4, Zenon DEF leer_palabras, Groups, Index, SizesFor

(* The bits of the words, each one of the list.                            *)
AreBitsOf(bits, x, k) ==
  /\ bits \in [1..(k * WordBits) -> {0, 1}]
  /\ \A p \in 1..k, q \in 1..WordBits : bits[(p - 1) * WordBits + q] = InBits(x[p], WordBits)[q]

LEMMA BitsRead ==
  ASSUME NEW words, NEW k \in Nat, Len(words) = k, NEW x \in [1..k -> 0..(Count - 1)],
         \A p \in 1..k : x[p] = Index(words[p])
  PROVE  AreBitsOf(FlattenSeq(Groups(words)), x, k)
<1>1. Groups(words) = [p \in 1..k |-> InBits(x[p], WordBits)]
  BY DEF Groups
<1>2. \A p \in 1..k : InBits(x[p], WordBits) \in Bits
  BY NumberAndBits
<1>3. Groups(words) \in [1..k -> Bits]
  BY <1>1, <1>2
<1>4. WordBits \in Nat \ {0}
  BY TecleableAssumption
<1>. DEFINE g == Groups(words)
            two == {0, 1}
<1>5. g \in [1..k -> [1..WordBits -> two]]
  BY <1>3 DEF Bits
<1>. HIDE DEF g, two
<1>6. /\ FlattenSeq(g) \in [1..(k * WordBits) -> two]
      /\ Grouped(FlattenSeq(g), g, k, WordBits)
  BY <1>4, <1>5, JoinedGroups
<1>7. \A p \in 1..k : g[p] = InBits(x[p], WordBits)
  BY <1>1 DEF g
<1>8. \A p \in 1..k, q \in 1..WordBits : FlattenSeq(g)[(p - 1) * WordBits + q] = InBits(x[p], WordBits)[q]
  BY <1>6, <1>7 DEF Grouped
<1>. QED  BY <1>6, <1>8 DEF g, two, AreBitsOf

(* The first elements of a list and the rest.                              *)
FirstOf(a, list, S, n) == a \in [1..n -> S] /\ \A i \in 1..n : a[i] = list[i]
RestOf(a, list, S, n, r) == a \in [1..r -> S] /\ \A i \in 1..r : a[i] = list[n + i]

LEMMA TwoParts ==
  ASSUME NEW S, NEW n \in Nat \ {0}, NEW r \in Nat, NEW list \in [1..(n + r) -> S]
  PROVE  /\ FirstOf(SubSeq(list, 1, n), list, S, n)
         /\ RestOf(SubSeq(list, n + 1, n + r), list, S, n, r)
<1>1. \A i \in 1..(n + r) : list[i] \in S
  OBVIOUS
<1>2. /\ SubSeq(list, 1, n) \in Seq(S) /\ Len(SubSeq(list, 1, n)) = n
      /\ \A i \in 1..n : SubSeq(list, 1, n)[i] = list[i]
  <2>1. 1 \in Int /\ n \in Int /\ 1 <= n /\ n - 1 + 1 = n /\ \A i \in 1..n : 1 + i - 1 = i
    OBVIOUS
  <2>2. \A i \in 1..n : list[i] \in S
    BY <1>1
  <2>. QED  BY <2>1, <2>2, SubSeqProperties
<1>3. /\ SubSeq(list, n + 1, n + r) \in Seq(S) /\ Len(SubSeq(list, n + 1, n + r)) = r
      /\ \A i \in 1..r : SubSeq(list, n + 1, n + r)[i] = list[n + i]
  <2>. DEFINE a == n + 1
              b == n + r
  <2>1. a \in Int /\ b \in Int /\ (b - a + 1 = r) /\ (a <= b <=> r # 0)
        /\ \A i \in 1..r : a + i - 1 = n + i
    OBVIOUS
  <2>2. \A i \in a..b : list[i] \in S
    BY <1>1
  <2>. HIDE DEF a, b
  <2>3. /\ SubSeq(list, a, b) \in Seq(S)
        /\ Len(SubSeq(list, a, b)) = (IF a <= b THEN b - a + 1 ELSE 0)
        /\ \A i \in 1..(b - a + 1) : SubSeq(list, a, b)[i] = list[a + i - 1]
    BY <2>1, <2>2, SubSeqProperties
  <2>4. Len(SubSeq(list, a, b)) = r
    BY <2>1, <2>3
  <2>. QED  BY <2>1, <2>3, <2>4 DEF a, b
<1>. QED  BY <1>2, <1>3, LenProperties DEF FirstOf, RestOf

(* What is read as a secret is the phrase of that secret, word for word or *)
(* abbreviated.                                                            *)
IsPhraseOf(words, secret) ==
  /\ Len(words) = Len(Phrase(secret))
  /\ \A i \in 1..Len(words) : IsPrefix(words[i], Spelled(Phrase(secret))[i])

LEMMA OnlyPhrasesAreRead ==
  ASSUME NEW words, Len(words) \in Nat, leer_palabras(words).status = "ok"
  PROVE  IsPhraseOf(words, leer_palabras(words).data)
<1>. DEFINE k == Len(words)
            w == WordBits
<1>1. \A e \in {"count", "word", "checksum"} : TypedError(e).status # "ok"
  BY DEF TypedError
<1>2. PICK n \in Sizes : n + SumBits[n] = k * w
  <2>1. SizesFor(words) # {}
    BY <1>1, Zenon DEF leer_palabras, SizesFor
  <2>. QED  BY <2>1 DEF SizesFor
<1>3. \A p \in 1..k : indice_de(words[p]) # {}
  <2>. SUFFICES ASSUME \E p \in 1..k : indice_de(words[p]) = {} PROVE FALSE
    OBVIOUS
  <2>. QED  BY <1>1, Zenon DEF leer_palabras
<1>. DEFINE x == [p \in 1..k |-> Index(words[p])]
            b == FlattenSeq(Groups(words))
            s == SubSeq(b, 1, n)
<1>4. ASSUME NEW p \in 1..k
      PROVE  x[p] \in 0..(Count - 1) /\ IsPrefix(words[p], Words[x[p] + 1])
  <2>1. x[p] \in indice_de(words[p])
    BY <1>3 DEF Index
  <2>. QED  BY <2>1, FoundBegins
<1>5. /\ n \in Nat \ {0} /\ SumBits[n] \in Nat /\ w \in Nat \ {0} /\ k \in Nat
      /\ WordsFor(n) = k /\ n + SumBits[n] = k * w
  BY <1>2, SizesOf, QuotientOf DEF WordsFor
<1>6. leer_palabras(words) =
        IF SubSeq(b, Len(s) + 1, Len(b)) # Digest[s] THEN TypedError("checksum") ELSE TypedOk(s)
  BY <1>2, <1>3, WordsRead
<1>7. b \in [1..(k * w) -> {0, 1}]
      /\ \A p \in 1..k, q \in 1..w : b[(p - 1) * w + q] = InBits(x[p], WordBits)[q]
  <2>1. x \in [1..k -> 0..(Count - 1)] /\ \A p \in 1..k : x[p] = Index(words[p])
    BY <1>4
  <2>2. AreBitsOf(b, x, k)
    <3>. HIDE DEF x, k
    <3>. QED  BY <1>5, <2>1, BitsRead DEF k
  <2>. HIDE DEF x, k, b
  <2>. QED  BY <2>2 DEF AreBitsOf
<1>. HIDE DEF x, b, w, k
<1>8. Len(b) = n + SumBits[n] /\ b \in [1..(n + SumBits[n]) -> {0, 1}]
  <2>. DEFINE m == n + SumBits[n]
  <2>1. m \in Nat /\ b \in [1..m -> {0, 1}]
    BY <1>5, <1>7
  <2>. HIDE DEF m
  <2>2. Len(b) = m
    BY <2>1
  <2>. QED  BY <2>1, <2>2 DEF m
<1>. DEFINE r == SumBits[n]
            d == SubSeq(b, n + 1, n + r)
<1>9. /\ s \in [1..n -> {0, 1}] /\ Len(s) = n /\ \A i \in 1..n : s[i] = b[i]
      /\ \A i \in 1..r : d[i] = b[n + i]
  <2>. DEFINE two == {0, 1}
  <2>1. b \in [1..(n + r) -> two] /\ r \in Nat
    BY <1>5, <1>8
  <2>. HIDE DEF r, two
  <2>2. /\ FirstOf(SubSeq(b, 1, n), b, two, n)
        /\ RestOf(SubSeq(b, n + 1, n + r), b, two, n, r)
    BY <1>5, <2>1, TwoParts
  <2>3. s \in [1..n -> two] => Len(s) = n
    BY <1>5
  <2>. QED  BY <2>2, <2>3 DEF two, FirstOf, RestOf
<1>. HIDE DEF s
<1>10. leer_palabras(words).data = s /\ d = Digest[s]
  <2>1. SubSeq(b, Len(s) + 1, Len(b)) = d
    BY <1>8, <1>9
  <2>2. leer_palabras(words) = IF d # Digest[s] THEN TypedError("checksum") ELSE TypedOk(s)
    BY <1>6, <2>1
  <2>3. TypedError("checksum").status # "ok" /\ TypedOk(s).data = s
    BY DEF TypedError, TypedOk
  <2>. HIDE DEF d
  <2>. QED  BY <2>2, <2>3
<1>11. /\ Phrase(s) \in [1..k -> 0..(Count - 1)] /\ Len(Phrase(s)) = k
       /\ \A p \in 1..k, q \in 1..w : InBits(Phrase(s)[p], WordBits)[q] = Summed(s)[(p - 1) * w + q]
  BY <1>5, <1>9, PhraseOf DEF w
<1>12. \A i \in 1..(k * w) : Summed(s)[i] = b[i]
  <2>. TAKE i \in 1..(k * w)
  <2>1. i \in 1..(n + SumBits[n])
    BY <1>5
  <2>2. Summed(s)[i] = IF i <= n THEN s[i] ELSE Digest[s][i - n]
    BY <1>9, <2>1, SecretOf
  <2>3. CASE i <= n
    BY <1>9, <2>1, <2>2, <2>3
  <2>4. CASE ~(i <= n)
    <3>1. i - n \in 1..r /\ n + (i - n) = i
      BY <1>5, <2>1, <2>4
    <3>2. d[i - n] = b[i]
      BY <1>9, <3>1
    <3>. HIDE DEF d
    <3>. QED  BY <1>10, <2>2, <2>4, <3>2
  <2>. QED  BY <2>3, <2>4
<1>13. ASSUME NEW p \in 1..k PROVE Phrase(s)[p] = x[p]
  <2>1. Phrase(s)[p] \in 0..(Count - 1) /\ x[p] \in 0..(Count - 1)
    BY <1>4, <1>11
  <2>2. \A q \in 1..w : InBits(Phrase(s)[p], WordBits)[q] = InBits(x[p], WordBits)[q]
    <3>. TAKE q \in 1..w
    <3>1. (p - 1) * w + q \in 1..(k * w)
      BY <1>5, GroupPlaces
    <3>. QED  BY <1>7, <1>11, <1>12, <3>1
  <2>3. InBits(Phrase(s)[p], WordBits) \in Bits /\ InBits(x[p], WordBits) \in Bits
    BY <2>1, NumberAndBits
  <2>4. InBits(Phrase(s)[p], WordBits) = InBits(x[p], WordBits)
    <3>1. \A q \in 1..WordBits : InBits(Phrase(s)[p], WordBits)[q] = InBits(x[p], WordBits)[q]
      BY <2>2 DEF w
    <3>2. WordBits \in Nat
      BY <1>5 DEF w
    <3>. QED  BY <2>3, <3>1, <3>2, SameList DEF Bits
  <2>. QED  BY <2>1, <2>4, NumberAndBits
<1>14. ASSUME NEW p \in 1..k PROVE IsPrefix(words[p], Spelled(Phrase(s))[p])
  <2>1. Spelled(Phrase(s))[p] = Words[Phrase(s)[p] + 1]
    BY <1>11 DEF Spelled
  <2>. QED  BY <1>4, <1>13, <2>1
<1>. QED  BY <1>10, <1>11, <1>14 DEF IsPhraseOf, k

(* Words that stand for those of a phrase are read as its secret.          *)
LEMMA AbbreviatedIsRead ==
  ASSUME NEW n \in Sizes, NEW s \in [1..n -> {0, 1}], NEW words,
         Len(words) = WordsFor(n),
         \A p \in 1..WordsFor(n) : StandsFor(words[p], Phrase(s)[p])
  PROVE  leer_palabras(words) = TypedOk(s)
<1>. DEFINE k == WordsFor(n)
            w == WordBits
            x == Phrase(s)
            b == FlattenSeq(Groups(words))
<1>1. /\ n \in Nat \ {0} /\ SumBits[n] \in Nat /\ w \in Nat \ {0} /\ k \in Nat
      /\ n + SumBits[n] = k * w /\ Len(words) = k
  BY SizesOf
<1>2. /\ x \in [1..k -> 0..(Count - 1)]
      /\ \A p \in 1..k, q \in 1..w : InBits(x[p], WordBits)[q] = Summed(s)[(p - 1) * w + q]
  BY PhraseOf
<1>3. ASSUME NEW p \in 1..k PROVE indice_de(words[p]) = {x[p]}
  <2>1. x[p] \in 0..(Count - 1)
    BY <1>2
  <2>. QED  BY <2>1, IndexOf
<1>4. \A p \in 1..k : x[p] = Index(words[p])
  BY <1>3 DEF Index
<1>5. \A p \in 1..k : indice_de(words[p]) # {}
  BY <1>3
<1>6. leer_palabras(words) =
        IF SubSeq(b, Len(SubSeq(b, 1, n)) + 1, Len(b)) # Digest[SubSeq(b, 1, n)]
        THEN TypedError("checksum") ELSE TypedOk(SubSeq(b, 1, n))
  BY <1>1, <1>5, WordsRead
<1>7. b \in [1..(k * w) -> {0, 1}]
      /\ \A p \in 1..k, q \in 1..w : b[(p - 1) * w + q] = InBits(x[p], WordBits)[q]
  <2>1. AreBitsOf(b, x, k)
    <3>. HIDE DEF x, k
    <3>. QED  BY <1>1, <1>2, <1>4, BitsRead
  <2>. HIDE DEF x, k, b
  <2>. QED  BY <2>1 DEF AreBitsOf
<1>8. /\ Summed(s) \in [1..(k * w) -> {0, 1}] /\ Digest[s] \in [1..SumBits[n] -> {0, 1}]
      /\ \A i \in 1..(n + SumBits[n]) : Summed(s)[i] = IF i <= n THEN s[i] ELSE Digest[s][i - n]
  BY SecretOf
<1>. HIDE DEF x, b, w, k
<1>9. \A i \in 1..(k * w) : b[i] = Summed(s)[i]
  <2>. TAKE i \in 1..(k * w)
  <2>1. PICK p \in 1..k : \E q \in 1..w : i = (p - 1) * w + q
    BY <1>1, GroupPlaces
  <2>2. PICK q \in 1..w : i = (p - 1) * w + q
    BY <2>1
  <2>. QED  BY <1>2, <1>7, <2>2
<1>. DEFINE r == SumBits[n]
            a == SubSeq(b, 1, n)
            d == SubSeq(b, n + 1, n + r)
<1>10. Len(b) = n + r /\ b \in [1..(n + r) -> {0, 1}]
  <2>. DEFINE m == n + r
  <2>1. m \in Nat /\ b \in [1..m -> {0, 1}]
    BY <1>1, <1>7
  <2>. HIDE DEF m
  <2>2. Len(b) = m
    BY <2>1
  <2>. QED  BY <2>1, <2>2 DEF m
<1>11. /\ a \in [1..n -> {0, 1}] /\ Len(a) = n /\ \A i \in 1..n : a[i] = b[i]
       /\ d \in [1..r -> {0, 1}] /\ \A i \in 1..r : d[i] = b[n + i]
  <2>. DEFINE two == {0, 1}
  <2>1. b \in [1..(n + r) -> two] /\ r \in Nat
    BY <1>1, <1>10
  <2>. HIDE DEF r, two
  <2>2. /\ FirstOf(SubSeq(b, 1, n), b, two, n)
        /\ RestOf(SubSeq(b, n + 1, n + r), b, two, n, r)
    BY <1>1, <2>1, TwoParts
  <2>3. a \in [1..n -> two] => Len(a) = n
    BY <1>1
  <2>. QED  BY <2>2, <2>3 DEF two, FirstOf, RestOf
<1>12. a = s
  <2>1. \A i \in 1..n : a[i] = s[i]
    <3>. TAKE i \in 1..n
    <3>1. i \in 1..(n + SumBits[n]) /\ i \in 1..(k * w) /\ i <= n
      BY <1>1
    <3>. QED  BY <1>8, <1>9, <1>11, <3>1
  <2>. HIDE DEF a
  <2>. QED  BY <1>1, <1>11, <2>1, SameList
<1>13. d = Digest[s]
  <2>1. \A i \in 1..r : d[i] = Digest[s][i]
    <3>. TAKE i \in 1..r
    <3>1. n + i \in 1..(n + SumBits[n]) /\ n + i \in 1..(k * w) /\ ~(n + i <= n) /\ (n + i) - n = i
      BY <1>1
    <3>2. Summed(s)[n + i] = Digest[s][i]
      BY <1>8, <3>1
    <3>. QED  BY <1>9, <1>11, <3>1, <3>2
  <2>2. r \in Nat /\ Digest[s] \in [1..r -> {0, 1}] /\ d \in [1..r -> {0, 1}]
    BY <1>1, <1>8, <1>11
  <2>. HIDE DEF d, r
  <2>. QED  BY <2>1, <2>2, SameList
<1>14. SubSeq(b, Len(a) + 1, Len(b)) = d
  BY <1>10, <1>11
<1>. HIDE DEF a, d
<1>. QED  BY <1>6, <1>12, <1>13, <1>14 DEF a

-----------------------------------------------------------------------------
(* What is typed of a phrase: its words, all of them or enough of each, as *)
(* long as nothing else happened to them; and what was read last is what   *)
(* they read as.                                                           *)
AllCut == \A s \in Range(slips) : s = "cut"

Abbreviated(words, secret) ==
  /\ Len(words) = Len(Phrase(secret))
  /\ \A p \in 1..Len(words) : StandsFor(words[p], Phrase(secret)[p])

SlipNames == {"wrong", "dropped", "added", "unclear", "spaced", "repeated",
              "cut", "chopped", "other", "lost", "swapped"}

Slipped ==
  /\ slips \in Seq(SlipNames) /\ (Blank => slips = <<>>)
  /\ text = NoText \/ phrase = NoPhrase
  /\ text = [document |-> text.document, frame |-> text.frame, characters |-> text.characters]
  /\ text.frame = Bare /\ text.document = <<>> => text.characters = <<>>
  /\ phrase = [secret |-> phrase.secret, words |-> phrase.words]

Typed ==
  phrase # NoPhrase =>
    /\ phrase.secret \in Secrets /\ phrase.words \in Seq(Seq(STRING))
    /\ AllCut => Abbreviated(phrase.words, phrase.secret)

WordsAreRead ==
  phrase # NoPhrase /\ outcome # NotRead => outcome = leer_palabras(phrase.words)

WordsInv == Slipped /\ Typed /\ WordsAreRead

(* A secret has a size.                                                    *)
LEMMA SecretHasSize ==
  ASSUME NEW s \in Secrets
  PROVE  \E n \in Sizes : s \in [1..n -> {0, 1}]
BY DEF Secrets

(* A secret is not nothing.                                                *)
LEMMA SecretIsSomething ==
  ASSUME NEW s \in Secrets
  PROVE  s # <<>>
<1>1. PICK n \in Sizes : s \in [1..n -> {0, 1}]
  BY SecretHasSize
<1>2. n \in Nat \ {0} /\ Len(s) = n
  BY <1>1, SizesOf, SecretOf
<1>. QED  BY <1>2

(* Nothing written in Base32 is nothing.                                   *)
LEMMA NothingIsWritten ==
  ASSUME NEW f, f.kind = "bare"
  PROVE  escribir(<<>>, f) = TypedOk(<<>>)
<1>1. FlattenSeq([i \in 1..Len(<<>>) |-> InBits(<<>>[i], ByteBits)]) = <<>>
  <2>1. [i \in 1..Len(<<>>) |-> InBits(<<>>[i], ByteBits)] = <<>>
    OBVIOUS
  <2>. QED  BY <2>1 DEF FlattenSeq
<1>2. CeilDiv(0, SymbolBits) = 0
  <2>1. SymbolBits \in Nat \ {0}
    BY TecleableAssumption
  <2>. DEFINE b == SymbolBits
  <2>. HIDE DEF b
  <2>2. (0 + b - 1) \div b = 0
    BY <2>1 DEF b
  <2>. QED  BY <2>2 DEF CeilDiv, b
<1>3. Len(<<>>) = 0
  OBVIOUS
<1>4. a_cinco_bits(<<>>) = <<>>
  BY <1>1, <1>2, <1>3 DEF a_cinco_bits
<1>5. escribir(<<>>, f) = TypedOk([i \in 1..Len(<<>>) |-> Letter(<<>>[i])])
  BY <1>4 DEF escribir
<1>. QED  BY <1>5

(* What is typed at first.                                                 *)
LEMMA FirstTyped ==
  ASSUME NEW d, NEW f, write_text(d, f).status = "ok", f = Bare, d = <<>>
  PROVE  write_text(d, f).data = <<>>
<1>1. f.kind = "bare"
  BY DEF Bare, Frame
<1>2. write_text(d, f) = TypedOk(<<>>)
  BY <1>1, NothingIsWritten DEF write_text
<1>. QED  BY <1>2 DEF TypedOk

(* The words of a phrase are words of the list.                            *)
LEMMA SpelledWords ==
  ASSUME NEW s \in Secrets
  PROVE  /\ Spelled(Phrase(s)) \in Seq(Seq(STRING))
         /\ Abbreviated(Spelled(Phrase(s)), s)
<1>1. PICK n \in Sizes : s \in [1..n -> {0, 1}]
  BY SecretHasSize
<1>. DEFINE x == Phrase(s)
            k == WordsFor(n)
<1>2. x \in [1..k -> 0..(Count - 1)] /\ Len(x) = k /\ k \in Nat
  BY <1>1, PhraseOf, SizesOf
<1>. HIDE DEF x, k
<1>3. ASSUME NEW p \in 1..k
      PROVE  x[p] + 1 \in 1..Len(Words) /\ Words[x[p] + 1] \in Seq(STRING)
  <2>1. x[p] \in 0..(Count - 1)
    BY <1>2
  <2>2. x[p] + 1 \in 1..Len(Words)
    BY <2>1, ListOfWords
  <2>. QED  BY <2>2, ListOfWords
<1>4. Spelled(x) = [p \in 1..k |-> Words[x[p] + 1]]
  BY <1>2 DEF Spelled
<1>5. Spelled(x) \in Seq(Seq(STRING)) /\ Len(Spelled(x)) = k
  BY <1>2, <1>3, <1>4
<1>6. \A p \in 1..k : StandsFor(Spelled(x)[p], x[p])
  BY <1>3, <1>4 DEF StandsFor
<1>. QED  BY <1>2, <1>5, <1>6 DEF Abbreviated, x

(* A word that stands for another still does when it is cut, if enough     *)
(* letters are left.                                                       *)
LEMMA CutWord ==
  ASSUME NEW w \in Seq(STRING), NEW i, StandsFor(w, i), NEW n \in 1..(Len(w) - 1), n >= Enough
  PROVE  StandsFor(SubSeq(w, 1, n), i)
<1>. DEFINE v == Words[i + 1]
            c == SubSeq(w, 1, n)
<1>1. i + 1 \in 1..Len(Words) /\ v \in Seq(STRING) /\ Len(v) \in Nat
  BY ListOfWords DEF StandsFor
<1>2. IsPrefix(w, v)
  BY <1>1, BeginsWithItself DEF StandsFor
<1>3. Len(w) \in Nat /\ n \in Nat /\ n <= Len(w)
  BY LenProperties
<1>4. Len(c) = n
  BY <1>3
<1>5. Len(w) <= Len(v) /\ SubSeq(w, 1, Len(w)) = SubSeq(v, 1, Len(w))
  BY <1>2 DEF IsPrefix
<1>. HIDE DEF v
<1>6. \A j \in 1..n : w[j] = v[j]
  <2>. TAKE j \in 1..n
  <2>1. j \in 1..Len(w)
    BY <1>3
  <2>2. SubSeq(w, 1, Len(w))[j] = w[j] /\ SubSeq(v, 1, Len(w))[j] = v[j]
    BY <1>1, <1>3, <1>5, <2>1
  <2>. QED  BY <1>5, <2>2
<1>7. SubSeq(c, 1, Len(c)) = SubSeq(v, 1, Len(c))
  <2>1. \A j \in 1..n : SubSeq(c, 1, n)[j] = w[j]
    BY <1>3
  <2>2. \A j \in 1..n : SubSeq(v, 1, n)[j] = v[j]
    BY <1>1, <1>3, <1>5
  <2>3. SubSeq(c, 1, n) \in [1..n -> STRING] /\ SubSeq(v, 1, n) \in [1..n -> STRING]
    <3>1. c \in Seq(STRING)
      BY <1>3
    <3>2. SubSeq(c, 1, n) \in Seq(STRING) /\ Len(SubSeq(c, 1, n)) = n
      <4>. HIDE DEF c
      <4>. QED  BY <1>3, <1>4, <3>1
    <3>3. SubSeq(v, 1, n) \in Seq(STRING) /\ Len(SubSeq(v, 1, n)) = n
      BY <1>1, <1>3, <1>5
    <3>. HIDE DEF c
    <3>. QED  BY <1>3, <3>2, <3>3, LenProperties
  <2>4. SubSeq(c, 1, n) = SubSeq(v, 1, n)
    <3>. HIDE DEF c
    <3>1. \A j \in 1..n : SubSeq(c, 1, n)[j] = SubSeq(v, 1, n)[j]
      BY <1>6, <2>1, <2>2
    <3>. QED  BY <1>3, <2>3, <3>1, SameList
  <2>. QED  BY <1>4, <2>4
<1>8. Len(c) <= Len(v)
  BY <1>1, <1>3, <1>4, <1>5
<1>9. IsPrefix(c, v)
  <2>. HIDE DEF c
  <2>. QED  BY <1>7, <1>8 DEF IsPrefix
<1>. QED  BY <1>1, <1>3, <1>4, <1>9 DEF StandsFor, v

(* What a slip makes of words, and what it is called.                      *)
CutAt(cut, words, i) ==
  \E n \in 1..(Len(words[i]) - 1) :
    n >= Enough /\ cut = [words EXCEPT ![i] = SubSeq(words[i], 1, n)]

LEMMA WordSlipMakes ==
  ASSUME NEW words \in Seq(Seq(STRING)), NEW i \in 1..Len(words), NEW s \in WordSlips(words, i)
  PROVE  /\ s[1] \in SlipNames /\ s[2] \in Seq(Seq(STRING))
         /\ s[1] = "cut" => CutAt(s[2], words, i)
<1>0. Len(words) \in Nat /\ i \in Nat /\ words[i] \in Seq(STRING) /\ Len(words[i]) \in Nat
  OBVIOUS
<1>1. ASSUME NEW n \in 1..(Len(words[i]) - 1),
             s = <<IF n >= Enough THEN "cut" ELSE "chopped", ReplaceAt(words, i, SubSeq(words[i], 1, n))>>
      PROVE  /\ s[1] \in SlipNames /\ s[2] \in Seq(Seq(STRING))
             /\ s[1] = "cut" => CutAt(s[2], words, i)
  <2>1. s[2] = [words EXCEPT ![i] = SubSeq(words[i], 1, n)]
    BY <1>1 DEF ReplaceAt
  <2>2. SubSeq(words[i], 1, n) \in Seq(STRING)
    BY <1>0
  <2>3. s[2] \in Seq(Seq(STRING))
    BY <2>1, <2>2
  <2>4. s[1] = IF n >= Enough THEN "cut" ELSE "chopped"
    BY <1>1
  <2>5. s[1] \in SlipNames
    BY <2>4 DEF SlipNames
  <2>6. s[1] = "cut" => n >= Enough
    <3>1. "cut" # "chopped"
      OBVIOUS
    <3>. QED  BY <2>4, <3>1, Zenon
  <2>. QED  BY <2>1, <2>3, <2>5, <2>6, Zenon DEF CutAt
<1>2. ASSUME NEW w \in Range(Words), s = <<"other", ReplaceAt(words, i, w)>>
      PROVE  s[1] = "other" /\ s[2] \in Seq(Seq(STRING))
  <2>1. w \in Seq(STRING)
    BY TecleableAssumption DEF Range
  <2>2. s[1] = "other" /\ s[2] = [words EXCEPT ![i] = w]
    BY <1>2 DEF ReplaceAt
  <2>. QED  BY <2>1, <2>2
<1>3. ASSUME s = <<"lost", RemoveAt(words, i)>>
      PROVE  s[1] = "lost" /\ s[2] \in Seq(Seq(STRING))
  <2>1. s[1] = "lost" /\ s[2] = SubSeq(words, 1, i - 1) \o SubSeq(words, i + 1, Len(words))
    BY <1>3 DEF RemoveAt
  <2>2. SubSeq(words, 1, i - 1) \in Seq(Seq(STRING)) /\ SubSeq(words, i + 1, Len(words)) \in Seq(Seq(STRING))
    BY <1>0
  <2>. QED  BY <2>1, <2>2, ConcatProperties
<1>4. ASSUME i # 1, s = <<"swapped", [words EXCEPT ![i] = words[i - 1], ![i - 1] = words[i]]>>
      PROVE  s[1] = "swapped" /\ s[2] \in Seq(Seq(STRING))
  <2>1. i - 1 \in 1..Len(words) /\ words[i - 1] \in Seq(STRING)
    BY <1>0, <1>4
  <2>. QED  BY <1>0, <1>4, <2>1
<1>5. \/ \E n \in 1..(Len(words[i]) - 1) :
           s = <<IF n >= Enough THEN "cut" ELSE "chopped", ReplaceAt(words, i, SubSeq(words[i], 1, n))>>
      \/ \E w \in Range(Words) : s = <<"other", ReplaceAt(words, i, w)>>
      \/ s = <<"lost", RemoveAt(words, i)>>
      \/ i # 1 /\ s = <<"swapped", [words EXCEPT ![i] = words[i - 1], ![i - 1] = words[i]]>>
  <2>1. {1} \cap 1..(i - 1) # {} => i # 1
    BY <1>0
  <2>. QED  BY <2>1 DEF WordSlips
<1>6. \A t \in {"other", "lost", "swapped"} : t \in SlipNames /\ t # "cut"
  BY DEF SlipNames
<1>7. CASE \E n \in 1..(Len(words[i]) - 1) :
             s = <<IF n >= Enough THEN "cut" ELSE "chopped", ReplaceAt(words, i, SubSeq(words[i], 1, n))>>
  BY <1>1, <1>7, Zenon
<1>8. CASE \E w \in Range(Words) : s = <<"other", ReplaceAt(words, i, w)>>
  BY <1>2, <1>6, <1>8, Zenon
<1>9. CASE s = <<"lost", RemoveAt(words, i)>>
  BY <1>3, <1>6, <1>9, Zenon
<1>10. CASE i # 1 /\ s = <<"swapped", [words EXCEPT ![i] = words[i - 1], ![i - 1] = words[i]]>>
  BY <1>4, <1>6, <1>10, Zenon
<1>. QED  BY <1>5, <1>7, <1>8, <1>9, <1>10, Zenon

LEMMA InitWords == Init => WordsInv
<1>. SUFFICES ASSUME Init PROVE WordsInv
  OBVIOUS
<1>1. text = NoText /\ phrase = NoPhrase /\ slips = <<>>
  BY DEF Init
<1>2. Slipped
  BY <1>1 DEF Slipped, NoText, NoPhrase
<1>. QED  BY <1>1, <1>2 DEF WordsInv, Typed, WordsAreRead

(* What leaves the text, the words and the slips as they are.              *)
LEMMA WordsStay ==
  ASSUME WordsInv, UNCHANGED <<text, phrase, slips>>,
         outcome' = NotRead \/ phrase = NoPhrase \/ outcome' = leer_palabras(phrase.words)
  PROVE  WordsInv'
<1>1. Slipped'
  BY DEF WordsInv, Slipped, Blank
<1>2. Typed'
  BY DEF WordsInv, Typed, AllCut
<1>3. WordsAreRead'
  BY DEF WordsInv, WordsAreRead
<1>. QED  BY <1>1, <1>2, <1>3 DEF WordsInv

(* Slips are noted one after the other.                                    *)
LEMMA SlipNoted ==
  ASSUME slips \in Seq(SlipNames), NEW t \in SlipNames, slips' = Append(slips, t)
  PROVE  slips' \in Seq(SlipNames) /\ (AllCut' => AllCut /\ t = "cut")
<1>1. /\ slips' \in Seq(SlipNames) /\ Len(slips') = Len(slips) + 1 /\ Len(slips) \in Nat
      /\ slips'[Len(slips) + 1] = t /\ \A i \in 1..Len(slips) : slips'[i] = slips[i]
      /\ DOMAIN slips' = 1..(Len(slips) + 1) /\ DOMAIN slips = 1..Len(slips)
  OBVIOUS
<1>2. t \in Range(slips')
  BY <1>1 DEF Range
<1>3. Range(slips) \subseteq Range(slips')
  BY <1>1 DEF Range
<1>. QED  BY <1>1, <1>2, <1>3 DEF AllCut

LEMMA NextWords == WordsInv /\ [Next]_vars => WordsInv'
<1>. SUFFICES ASSUME WordsInv, [Next]_vars PROVE WordsInv'
  OBVIOUS
<1>. USE DEF WordsInv
<1>1. ASSUME NEW c \in Copies, NEW d \in Documents, NEW n \in Capacities, NEW p \in Parities,
             PrintSymbols(c, d, n, p)
      PROVE  WordsInv'
  <2>1. phrase = NoPhrase /\ UNCHANGED <<text, phrase, slips>>
    BY <1>1 DEF PrintSymbols, Blank
  <2>. QED  BY <2>1, WordsStay
<1>2. ASSUME NEW c \in Copies, NEW j \in 1..MaxSymbols, Scan(c, j)
      PROVE  WordsInv'
  BY <1>2, WordsStay DEF Scan
<1>3. ASSUME NEW s \in Strays, ScanStray(s)
      PROVE  WordsInv'
  BY <1>3, WordsStay DEF ScanStray
<1>4. ASSUME NEW s \in hand, ScanAgain(s)
      PROVE  WordsInv'
  BY <1>4, WordsStay DEF ScanAgain
<1>5. ASSUME ReadSymbols
      PROVE  WordsInv'
  <2>1. phrase = NoPhrase /\ UNCHANGED <<text, phrase, slips>>
    BY <1>5 DEF ReadSymbols, Blank
  <2>. QED  BY <2>1, WordsStay
<1>6. ASSUME NEW d \in Documents,
             NEW f \in {Bare} \cup {Guarded(p) : p \in Parities} \cup {InSymbols(a) : a \in Alphabets},
             Type(d, f)
      PROVE  WordsInv'
  <2>. DEFINE r == write_text(d, f)
  <2>1. r.status = "ok" /\ f = Bare /\ d = <<>> => r.data = <<>>
    BY FirstTyped
  <2>. HIDE DEF r
  <2>2. /\ Blank /\ UNCHANGED <<phrase, slips>>
        /\ text' = IF r.status # "ok" THEN NoText ELSE [document |-> d, frame |-> f, characters |-> r.data]
    BY <1>6 DEF Type, r
  <2>3. slips = <<>> /\ phrase = NoPhrase
    BY <2>2 DEF Slipped, Blank
  <2>4. text' = [document |-> text'.document, frame |-> text'.frame, characters |-> text'.characters]
    BY <2>2 DEF NoText
  <2>5. text'.frame = Bare /\ text'.document = <<>> => text'.characters = <<>>
    BY <2>1, <2>2 DEF NoText
  <2>6. Slipped'
    BY <2>2, <2>3, <2>4, <2>5 DEF Slipped
  <2>. QED  BY <2>2, <2>3, <2>6 DEF Typed, WordsAreRead
<1>7. ASSUME NEW i \in 1..(Len(text.characters)), Slip(i)
      PROVE  WordsInv'
  <2>1. /\ text # NoText /\ UNCHANGED phrase
        /\ \E s \in Slips(text.characters, i, Letters(text.frame)) :
             /\ text' = [text EXCEPT !.characters = s[2]]
             /\ slips' = Append(slips, s[1])
    BY <1>7 DEF Slip
  <2>2. PICK s \in Slips(text.characters, i, Letters(text.frame)) :
             /\ text' = [text EXCEPT !.characters = s[2]]
             /\ slips' = Append(slips, s[1])
    BY <2>1
  <2>3. s[1] \in SlipNames
    BY DEF Slips, SlipNames
  <2>4. slips \in Seq(SlipNames) /\ phrase = NoPhrase
    BY <2>1 DEF Slipped
  <2>5. slips' \in Seq(SlipNames)
    BY <2>2, <2>3, <2>4, SlipNoted
  <2>6. /\ text' = [document |-> text.document, frame |-> text.frame, characters |-> s[2]]
        /\ text'.document = text.document /\ text'.frame = text.frame
    <3>. DEFINE d == text.document
                f == text.frame
                c == text.characters
    <3>1. text = [document |-> d, frame |-> f, characters |-> c]
      BY DEF Slipped
    <3>. HIDE DEF d, f, c
    <3>. QED  BY <2>2, <3>1
  <2>7. ~(text.frame = Bare /\ text.document = <<>>)
    <3>. SUFFICES ASSUME text.characters = <<>> PROVE FALSE
      BY DEF Slipped
    <3>. QED  OBVIOUS
  <2>8. text' # NoText
    BY <2>6, <2>7 DEF NoText
  <2>9. text' = [document |-> text'.document, frame |-> text'.frame, characters |-> text'.characters]
    BY <2>6
  <2>10. Slipped'
    BY <2>1, <2>4, <2>5, <2>6, <2>7, <2>8, <2>9 DEF Slipped, Blank
  <2>. QED  BY <2>1, <2>4, <2>10 DEF Typed, WordsAreRead
<1>8. ASSUME ReadText
      PROVE  WordsInv'
  <2>1. text # NoText /\ UNCHANGED <<text, phrase, slips>>
    BY <1>8 DEF ReadText
  <2>2. phrase = NoPhrase
    BY <2>1 DEF Slipped
  <2>. QED  BY <2>1, <2>2, WordsStay
<1>9. ASSUME NEW s \in Secrets, WriteWords(s)
      PROVE  WordsInv'
  <2>1. /\ Blank /\ UNCHANGED <<text, slips>> /\ outcome' = NotRead
        /\ phrase' = [secret |-> s, words |-> Spelled(Phrase(s))]
    BY <1>9 DEF WriteWords
  <2>2. slips = <<>> /\ text = NoText
    BY <2>1 DEF Slipped, Blank
  <2>3. phrase' # NoPhrase
    <3>1. s # <<>>
      BY SecretIsSomething
    <3>. QED  BY <2>1, <3>1 DEF NoPhrase
  <2>4. phrase'.secret = s /\ phrase'.words = Spelled(Phrase(s))
    BY <2>1
  <2>5. Slipped'
    BY <2>1, <2>2, <2>3, <2>4 DEF Slipped, Blank
  <2>6. Typed'
    BY <2>4, SpelledWords DEF Typed
  <2>. QED  BY <2>1, <2>5, <2>6 DEF WordsAreRead
<1>10. ASSUME NEW i \in 1..Len(phrase.words), WordSlip(i)
       PROVE  WordsInv'
  <2>. DEFINE words == phrase.words
              secret == phrase.secret
  <2>1. /\ phrase # NoPhrase /\ UNCHANGED text /\ outcome' = NotRead
        /\ \E s \in WordSlips(words, i) :
             /\ phrase' = [phrase EXCEPT !.words = s[2]]
             /\ slips' = Append(slips, s[1])
    BY <1>10 DEF WordSlip
  <2>2. PICK s \in WordSlips(words, i) :
             /\ phrase' = [phrase EXCEPT !.words = s[2]]
             /\ slips' = Append(slips, s[1])
    BY <2>1
  <2>3. words \in Seq(Seq(STRING)) /\ secret \in Secrets /\ (AllCut => Abbreviated(words, secret))
    BY <2>1 DEF Typed
  <2>4. text = NoText /\ slips \in Seq(SlipNames)
    BY <2>1 DEF Slipped
  <2>5. phrase' = [secret |-> secret, words |-> s[2]]
    <3>1. phrase = [secret |-> secret, words |-> words]
      BY DEF Slipped
    <3>. HIDE DEF secret, words
    <3>. QED  BY <2>2, <3>1
  <2>. HIDE DEF words, secret
  <2>6. i \in 1..Len(words)
    BY DEF words
  <2>7. /\ s[1] \in SlipNames /\ s[2] \in Seq(Seq(STRING))
        /\ s[1] = "cut" => CutAt(s[2], words, i)
    BY <2>3, <2>6, WordSlipMakes
  <2>8. slips' \in Seq(SlipNames) /\ (AllCut' => AllCut /\ s[1] = "cut")
    BY <2>2, <2>4, <2>7, SlipNoted
  <2>9. phrase' # NoPhrase
    <3>1. secret # <<>>
      BY <2>3, SecretIsSomething
    <3>. QED  BY <2>5, <3>1 DEF NoPhrase
  <2>10. Slipped'
    BY <2>1, <2>4, <2>5, <2>8, <2>9 DEF Slipped, Blank
  <2>11. ASSUME AllCut' PROVE Abbreviated(s[2], secret)
    <3>1. Abbreviated(words, secret)
      BY <2>3, <2>8, <2>11
    <3>2. PICK n \in 1..(Len(words[i]) - 1) :
            n >= Enough /\ s[2] = [words EXCEPT ![i] = SubSeq(words[i], 1, n)]
      BY <2>7, <2>8, <2>11 DEF CutAt
    <3>3. Len(s[2]) = Len(words) /\ Len(words) \in Nat
          /\ \A p \in 1..Len(words) : s[2][p] = IF p = i THEN SubSeq(words[i], 1, n) ELSE words[p]
      BY <2>3, <2>6, <3>2
    <3>4. words[i] \in Seq(STRING)
      BY <2>3, <2>6
    <3>5. StandsFor(words[i], Phrase(secret)[i])
      BY <2>6, <3>1 DEF Abbreviated
    <3>6. StandsFor(SubSeq(words[i], 1, n), Phrase(secret)[i])
      BY <3>2, <3>4, <3>5, CutWord
    <3>7. \A p \in 1..Len(words) : StandsFor(s[2][p], Phrase(secret)[p])
      BY <3>1, <3>3, <3>6 DEF Abbreviated
    <3>. QED  BY <3>1, <3>3, <3>7 DEF Abbreviated
  <2>12. Typed'
    BY <2>3, <2>5, <2>7, <2>11 DEF Typed
  <2>. QED  BY <2>1, <2>10, <2>12 DEF WordsAreRead
<1>11. ASSUME ReadWords
       PROVE  WordsInv'
  BY <1>11, WordsStay DEF ReadWords
<1>12. ASSUME UNCHANGED vars
       PROVE  WordsInv'
  <2>1. UNCHANGED <<text, phrase, slips, outcome>>
    BY <1>12 DEF vars
  <2>2. outcome' = NotRead \/ phrase = NoPhrase \/ outcome' = leer_palabras(phrase.words)
    BY <2>1 DEF WordsAreRead
  <2>. QED  BY <2>1, <2>2, WordsStay
<1>. QED  BY <1>1, <1>2, <1>3, <1>4, <1>5, <1>6, <1>7, <1>8, <1>9, <1>10, <1>11, <1>12 DEF Next

LEMMA WordsAlways == Spec => []WordsInv
BY InitWords, NextWords, PTL DEF Spec

(* A phrase is read as a secret only if it is, word for word or            *)
(* abbreviated, the phrase of that very secret; and words of which enough  *)
(* letters are left are read as the secret they were written for, for any  *)
(* list of words told apart by as many letters, any sizes of secrets and   *)
(* any checksum (papel.rs palabras::escribir, leer, indice_de).            *)
THEOREM PhrasesAlwaysCanonical == Spec => []PhrasesAreCanonical
<1>1. WordsInv => PhrasesAreCanonical
  <2>. SUFFICES ASSUME WordsInv, phrase # NoPhrase, outcome # NotRead
                PROVE  /\ outcome.status = "ok" => IsPhraseOf(phrase.words, outcome.data)
                       /\ (\A s \in Range(slips) : s = "cut") =>
                            outcome.status = "ok" /\ outcome.data = phrase.secret
    BY DEF PhrasesAreCanonical, IsPhraseOf
  <2>. DEFINE words == phrase.words
              secret == phrase.secret
  <2>1. /\ outcome = leer_palabras(words)
        /\ words \in Seq(Seq(STRING)) /\ secret \in Secrets
        /\ AllCut => Abbreviated(words, secret)
    BY DEF WordsInv, Typed, WordsAreRead
  <2>. HIDE DEF words, secret
  <2>2. outcome.status = "ok" => IsPhraseOf(words, outcome.data)
    <3>1. Len(words) \in Nat
      BY <2>1
    <3>. QED  BY <2>1, <3>1, OnlyPhrasesAreRead
  <2>3. ASSUME AllCut PROVE outcome = TypedOk(secret)
    <3>1. PICK n \in Sizes : secret \in [1..n -> {0, 1}]
      BY <2>1, SecretHasSize
    <3>2. Abbreviated(words, secret)
      BY <2>1, <2>3
    <3>3. Len(words) = WordsFor(n)
      BY <3>1, <3>2, PhraseOf DEF Abbreviated
    <3>4. \A p \in 1..WordsFor(n) : StandsFor(words[p], Phrase(secret)[p])
      BY <3>2, <3>3 DEF Abbreviated
    <3>. QED  BY <2>1, <3>1, <3>3, <3>4, AbbreviatedIsRead
  <2>. QED  BY <2>2, <2>3 DEF AllCut, TypedOk, words, secret
<1>. QED  BY <1>1, WordsAlways, PTL

-----------------------------------------------------------------------------
(* Numbers in a base, written and read.                                    *)

(* One list after another.                                                 *)
IsJoined(z, x, y, m, n, D) ==
  /\ z \in Seq(D) /\ Len(z) = m + n
  /\ \A i \in 1..m : z[i] = x[i]
  /\ \A i \in 1..n : z[m + i] = y[i]

LEMMA Joined ==
  ASSUME NEW D, NEW m \in Nat, NEW n \in Nat, NEW x \in [1..m -> D], NEW y \in [1..n -> D]
  PROVE  IsJoined(x \o y, x, y, m, n, D)
<1>1. x \in Seq(D) /\ y \in Seq(D) /\ Len(x) = m /\ Len(y) = n
  OBVIOUS
<1>2. /\ x \o y \in Seq(D) /\ Len(x \o y) = m + n
      /\ \A i \in 1..(m + n) : (x \o y)[i] = IF i <= m THEN x[i] ELSE y[i - m]
  BY <1>1, ConcatProperties
<1>. DEFINE z == x \o y
<1>. HIDE DEF z
<1>3. \A i \in 1..m : i \in 1..(m + n) /\ i <= m
  OBVIOUS
<1>4. \A i \in 1..n : m + i \in 1..(m + n) /\ ~(m + i <= m) /\ (m + i) - m = i
  OBVIOUS
<1>5. /\ z \in Seq(D) /\ Len(z) = m + n
      /\ \A i \in 1..m : z[i] = x[i]
      /\ \A i \in 1..n : z[m + i] = y[i]
  BY <1>2, <1>3, <1>4 DEF z
<1>. QED  BY <1>5 DEF z, IsJoined

(* Digits after digits.                                                    *)
LEMMA ValueJoins ==
  ASSUME NEW base \in Nat \ {0, 1}, NEW m \in Nat, NEW n \in Nat,
         NEW x \in DigitsIn(m, base), NEW y \in DigitsIn(n, base)
  PROVE  /\ x \o y \in DigitsIn(m + n, base)
         /\ ValueOf(x \o y, base) = ValueOf(x, base) * Power(base, n) + ValueOf(y, base)
<1>. DEFINE D == 0..(base - 1)
            z == x \o y
            P(k) == Power(base, k)
<1>1. x \in Seq(D) /\ y \in Seq(D) /\ Len(x) = m /\ Len(y) = n
  BY DEF DigitsIn
<1>2. /\ z \in Seq(D) /\ Len(z) = m + n
      /\ \A i \in 1..m : z[i] = x[i]
      /\ \A i \in 1..n : z[m + i] = y[i]
  <2>1. x \in [1..m -> D] /\ y \in [1..n -> D]
    BY DEF DigitsIn
  <2>2. IsJoined(x \o y, x, y, m, n, D)
    <3>. HIDE DEF D
    <3>. QED  BY <2>1, Joined
  <2>. QED  BY <2>2 DEF IsJoined
<1>. HIDE DEF z
<1>3. z \in [1..(m + n) -> D]
  BY <1>2, LenProperties
<1>4. z \in DigitsIn(m + n, base)
  BY <1>3 DEF DigitsIn
<1>5. z \in [1..(m + n) -> Nat] /\ x \in [1..m -> Nat] /\ y \in [1..n -> Nat]
  BY <1>3 DEF DigitsIn
<1>. DEFINE l == m + n
<1>6. l \in Nat
  OBVIOUS
<1>. HIDE DEF l
<1>7. PICK g : ValuesTo(g, z, l, base) /\ ValueOf(z, base) = g[l]
  BY <1>5, <1>6, ValueIs DEF l
<1>8. PICK h : ValuesTo(h, x, m, base) /\ ValueOf(x, base) = h[m]
  BY <1>5, ValueIs
<1>9. PICK e : ValuesTo(e, y, n, base) /\ ValueOf(y, base) = e[n]
  BY <1>5, ValueIs
<1>. DEFINE T == {j \in 0..m : g[j] = h[j]}
<1>10. \A j \in 0..m : j \in T
  <2>1. 0 \in T
    BY <1>7, <1>8 DEF ValuesTo
  <2>2. ASSUME NEW j \in 1..m, j - 1 \in T PROVE j \in T
    <3>1. j \in 1..l /\ j \in 0..m
      BY DEF l
    <3>2. g[j] = base * g[j - 1] + z[j] /\ h[j] = base * h[j - 1] + x[j]
      BY <1>7, <1>8, <3>1 DEF ValuesTo
    <3>3. z[j] = x[j] /\ g[j - 1] = h[j - 1]
      BY <1>2, <2>2
    <3>. QED  BY <3>1, <3>2, <3>3
  <2>. HIDE DEF T
  <2>. QED  BY <2>1, <2>2, UpTo
<1>. DEFINE H == h[m]
            U == {j \in 0..n : g[m + j] = H * P(j) + e[j]}
<1>11. H \in Nat /\ P(0) = 1 /\ \A k \in Nat : P(k) \in Nat /\ P(k + 1) = base * P(k)
  <2>1. H \in Nat
    BY <1>8 DEF ValuesTo
  <2>2. P(0) = 1 /\ \A k \in Nat : P(k) \in Nat /\ P(k + 1) = base * P(k)
    BY PowerUnfolds
  <2>. QED  BY <2>1, <2>2
<1>. HIDE DEF H, P
<1>12. \A j \in 0..n : j \in U
  <2>1. 0 \in U
    <3>1. g[m + 0] = H
      <4>1. m + 0 = m /\ m \in 0..m
        OBVIOUS
      <4>. QED  BY <1>10, <4>1 DEF H
    <3>2. e[0] = 0 /\ H * 1 + 0 = H
      BY <1>9, <1>11 DEF ValuesTo
    <3>. QED  BY <1>11, <3>1, <3>2
  <2>2. ASSUME NEW j \in 1..n, j - 1 \in U PROVE j \in U
    <3>. DEFINE i == j - 1
                p == P(i)
                c == e[i]
                d == y[j]
    <3>1. i \in Nat /\ i + 1 = j /\ j \in 0..n /\ m + j \in 1..l /\ (m + j) - 1 = m + i
      BY DEF l
    <3>2. g[m + j] = base * g[m + i] + z[m + j]
      <4>1. g[m + j] = base * g[(m + j) - 1] + z[m + j]
        BY <1>7, <3>1 DEF ValuesTo
      <4>. QED  BY <3>1, <4>1
    <3>3. e[j] = base * c + d /\ c \in Nat /\ d \in Nat
      BY <1>5, <1>9 DEF ValuesTo
    <3>4. P(j) = base * p /\ p \in Nat
      BY <1>11, <3>1
    <3>5. g[m + i] = H * p + c /\ z[m + j] = d
      BY <1>2, <2>2
    <3>. HIDE DEF i, p, c, d
    <3>6. base * (H * p + c) + d = H * (base * p) + (base * c + d)
      BY <1>11, <3>3, <3>4
    <3>. QED  BY <3>1, <3>2, <3>3, <3>4, <3>5, <3>6
  <2>. HIDE DEF U
  <2>. QED  BY <2>1, <2>2, UpTo
<1>13. g[l] = H * P(n) + e[n]
  BY <1>12 DEF l
<1>. QED  BY <1>4, <1>7, <1>8, <1>9, <1>13 DEF z, H, P

(* Digits the other way round.                                             *)
LEMMA Reversed ==
  ASSUME NEW base \in Nat \ {0, 1}, NEW m \in Nat, NEW n \in Nat,
         NEW x \in DigitsIn(m, base), NEW y \in DigitsIn(n, base)
  PROVE  /\ Reverse(x) \in DigitsIn(m, base)
         /\ Reverse(x \o y) = Reverse(y) \o Reverse(x)
<1>. DEFINE D == 0..(base - 1)
            z == x \o y
            a == Reverse(x)
            b == Reverse(y)
            l == m + n
<1>1. x \in [1..m -> D] /\ y \in [1..n -> D] /\ x \in Seq(D) /\ y \in Seq(D) /\ Len(x) = m /\ Len(y) = n
  BY DEF DigitsIn
<1>2. /\ z \in Seq(D) /\ Len(z) = l
      /\ \A i \in 1..m : z[i] = x[i]
      /\ \A i \in 1..n : z[m + i] = y[i]
  <2>1. x \in [1..m -> D] /\ y \in [1..n -> D]
    BY DEF DigitsIn
  <2>2. IsJoined(x \o y, x, y, m, n, D)
    <3>. HIDE DEF D
    <3>. QED  BY <2>1, Joined
  <2>. QED  BY <2>2 DEF IsJoined
<1>. HIDE DEF z
<1>3. a = [i \in 1..m |-> x[(m - i) + 1]] /\ b = [i \in 1..n |-> y[(n - i) + 1]]
  BY <1>1 DEF Reverse
<1>4. Reverse(z) = [i \in 1..l |-> z[(l - i) + 1]]
  BY <1>2 DEF Reverse
<1>. HIDE DEF a, b, D
<1>5. a \in [1..m -> D] /\ b \in [1..n -> D]
  <2>1. \A i \in 1..m : (m - i) + 1 \in 1..m
    OBVIOUS
  <2>2. \A i \in 1..n : (n - i) + 1 \in 1..n
    OBVIOUS
  <2>. QED  BY <1>1, <1>3, <2>1, <2>2
<1>6. a \in Seq(D) /\ b \in Seq(D) /\ Len(a) = m /\ Len(b) = n
  BY <1>5
<1>7. /\ b \o a \in Seq(D) /\ Len(b \o a) = n + m
      /\ \A i \in 1..n : (b \o a)[i] = b[i]
      /\ \A i \in 1..m : (b \o a)[n + i] = a[i]
  BY <1>5, Joined DEF IsJoined
<1>. DEFINE s == b \o a
            t == Reverse(z)
<1>. HIDE DEF s, t
<1>8. l \in Nat /\ n + m = l
  OBVIOUS
<1>9. \A i \in 1..l : z[i] \in D
  <2>1. z \in [1..l -> D]
    BY <1>2, <1>8, LenProperties
  <2>. QED  BY <2>1
<1>10. ASSUME NEW i \in 1..l PROVE t[i] = s[i]
  <2>1. t[i] = z[(l - i) + 1]
    BY <1>4 DEF t
  <2>2. CASE i <= n
    <3>1. i \in 1..n /\ (n - i) + 1 \in 1..n /\ (l - i) + 1 = m + ((n - i) + 1)
      BY <2>2
    <3>2. z[(l - i) + 1] = y[(n - i) + 1]
      BY <1>2, <3>1
    <3>3. s[i] = y[(n - i) + 1]
      BY <1>3, <1>7, <3>1 DEF s
    <3>. QED  BY <2>1, <3>2, <3>3
  <2>3. CASE ~(i <= n)
    <3>. DEFINE j == i - n
    <3>1. j \in 1..m /\ (m - j) + 1 \in 1..m /\ (l - i) + 1 = (m - j) + 1 /\ i = n + j
      BY <2>3
    <3>. HIDE DEF j
    <3>2. z[(l - i) + 1] = x[(m - j) + 1]
      BY <1>2, <3>1
    <3>3. s[n + j] = a[j]
      BY <1>7, <3>1 DEF s
    <3>4. a[j] = x[(m - j) + 1]
      BY <1>3, <3>1
    <3>. QED  BY <2>1, <3>1, <3>2, <3>3, <3>4
  <2>. QED  BY <2>2, <2>3
<1>11. t \in [1..l -> D]
  <2>1. \A i \in 1..l : (l - i) + 1 \in 1..l
    BY <1>8
  <2>. QED  BY <1>4, <1>9, <2>1 DEF t
<1>12. s \in [1..l -> D]
  <2>1. s \in Seq(D) /\ Len(s) = l
    BY <1>7, <1>8 DEF s
  <2>. HIDE DEF l
  <2>. QED  BY <2>1, <1>8, LenProperties
<1>13. t = s
  <2>. HIDE DEF l
  <2>. QED  BY <1>8, <1>10, <1>11, <1>12, SameList
<1>. QED  BY <1>5, <1>13 DEF s, t, z, a, b, D, DigitsIn

(* A number fits in as many digits as it has, and in no fewer.             *)
LEMMA LengthFits ==
  ASSUME NEW base \in Nat \ {0, 1}, NEW v \in Nat
  PROVE  /\ LengthIn(v, base) \in Nat /\ Power(base, LengthIn(v, base)) > v
         /\ \A j \in Nat : j < LengthIn(v, base) => Power(base, j) <= v
<1>. DEFINE P(k) == Power(base, k)
            T == {k \in Nat : P(k) > v}
            Fits(k) == P(k) > v /\ \A j \in 0..(k - 1) : P(j) <= v
<1>1. \A k \in Nat : P(k) \in Nat
  BY PowerUnfolds
<1>2. P(v) >= v + 1
  BY PowersGrow
<1>. HIDE DEF P
<1>3. v \in T
  BY <1>1, <1>2
<1>4. PICK m \in T : \A k \in T : m <= k
  <2>1. T \in SUBSET Nat /\ T # {}
    BY <1>3
  <2>. HIDE DEF T
  <2>. QED  BY <2>1, LeastOfNaturals
<1>5. m \in 0..v
  BY <1>3, <1>4
<1>6. ASSUME NEW j \in 0..(m - 1) PROVE P(j) <= v
  <2>1. j \in Nat /\ ~(m <= j)
    BY <1>5
  <2>2. j \notin T
    BY <1>4, <2>1
  <2>. QED  BY <1>1, <2>1, <2>2
<1>7. \E k \in 0..v : Fits(k)
  BY <1>5, <1>6
<1>8. LengthIn(v, base) = CHOOSE k \in 0..v : Fits(k)
  BY DEF LengthIn, P
<1>. DEFINE k == LengthIn(v, base)
<1>9. k \in 0..v /\ Fits(k)
  <2>. HIDE DEF Fits
  <2>. QED  BY <1>7, <1>8
<1>. HIDE DEF k
<1>10. \A j \in Nat : j < k => j \in 0..(k - 1)
  BY <1>9
<1>. QED  BY <1>9, <1>10 DEF k, P

(* A word takes at least one digit.                                        *)
LEMMA StepTaken ==
  ASSUME NEW base \in Nat \ {0, 1}, base < Word
  PROVE  paso_maximo(base) \in Nat \ {0}
<1>. DEFINE P(k) == Power(base, k)
            T == {k \in 1..Word : P(k + 1) >= Word}
            Most(k) == P(k) < Word /\ P(k + 1) >= Word
<1>0. Word \in Nat \ {0, 1}
  BY CodecAssumption
<1>1. \A k \in Nat : P(k) \in Nat
  BY PowerUnfolds
<1>2. Word \in T
  <2>1. Word + 1 \in Nat /\ Word \in 1..Word
    BY <1>0
  <2>2. P(Word + 1) >= (Word + 1) + 1
    BY <2>1, PowersGrow
  <2>3. P(Word + 1) \in Nat
    BY <1>1, <2>1
  <2>. HIDE DEF P
  <2>4. P(Word + 1) >= Word
    BY <1>0, <2>2, <2>3
  <2>. QED  BY <2>1, <2>4
<1>3. PICK m \in T : \A k \in T : m <= k
  <2>1. T \in SUBSET Nat /\ T # {}
    BY <1>0, <1>2
  <2>. HIDE DEF T
  <2>. QED  BY <2>1, LeastOfNaturals
<1>4. P(1) = base
  <2>1. P(0) = 1 /\ P(0 + 1) = base * P(0)
    BY PowerUnfolds
  <2>2. 0 + 1 = 1 /\ base * 1 = base
    OBVIOUS
  <2>. QED  BY <2>1, <2>2
<1>. HIDE DEF P
<1>5. P(m) < Word
  <2>1. CASE m = 1
    BY <1>4, <2>1
  <2>2. CASE m # 1
    <3>1. m - 1 \in 1..Word /\ ~(m <= m - 1) /\ (m - 1) + 1 = m /\ m \in Nat
      BY <1>0, <2>2
    <3>2. m - 1 \notin T
      BY <1>3, <3>1
    <3>3. ~(P(m) >= Word)
      BY <3>1, <3>2
    <3>. QED  BY <1>0, <1>1, <3>1, <3>3
  <2>. QED  BY <2>1, <2>2
<1>6. \E k \in 1..Word : Most(k)
  BY <1>5
<1>7. paso_maximo(base) = CHOOSE k \in 1..Word : Most(k)
  BY DEF paso_maximo, P
<1>8. paso_maximo(base) \in 1..Word
  <2>. HIDE DEF Most
  <2>. QED  BY <1>6, <1>7
<1>. QED  BY <1>0, <1>8

-----------------------------------------------------------------------------
(* Digits written a word at a time.                                        *)

(* A quotient is smaller.                                                  *)
LEMMA QuotientSmaller ==
  ASSUME NEW w \in Nat, NEW p \in Nat \ {0, 1}
  PROVE  w \div p \in 0..w /\ (w # 0 => w \div p \in 0..(w - 1))
<1>. DEFINE q == w \div p
            r == w % p
<1>1. q \in Nat /\ r \in 0..(p - 1) /\ w = p * q + r
  BY LastDigit
<1>. HIDE DEF q, r
<1>2. 2 * q <= p * q /\ p * q \in Nat
  <2>1. 2 \in Nat /\ p \in Nat /\ 2 <= p
    OBVIOUS
  <2>. QED  BY <1>1, <2>1, ProductMonotone
<1>3. q \in 0..w /\ (w # 0 => q \in 0..(w - 1))
  BY <1>1, <1>2
<1>. QED  BY <1>3 DEF q

(* Pieces of a number, from the lowest.                                    *)
Chunks(f, m, p, more, last) ==
  \A w \in 0..m : f[w] = IF w >= p THEN more[w] \o f[w \div p] ELSE last[w]

LEMMA ChunksExist ==
  ASSUME NEW D, NEW v \in Nat, NEW p \in Nat \ {0, 1},
         NEW more \in [0..v -> Seq(D)], NEW last \in [0..v -> Seq(D)]
  PROVE  \E f \in [0..v -> Seq(D)] : Chunks(f, v, p, more, last)
<1>. DEFINE T == {m \in 0..v : \E f \in [0..m -> Seq(D)] : Chunks(f, m, p, more, last)}
<1>1. 0 \in T
  <2>. DEFINE f == [w \in 0..0 |-> last[w]]
  <2>1. f \in [0..0 -> Seq(D)]
    OBVIOUS
  <2>2. Chunks(f, 0, p, more, last)
    BY DEF Chunks
  <2>. QED  BY <2>1, <2>2
<1>2. ASSUME NEW m \in 1..v, m - 1 \in T PROVE m \in T
  <2>1. PICK f \in [0..(m - 1) -> Seq(D)] : Chunks(f, m - 1, p, more, last)
    BY <1>2
  <2>. DEFINE x == IF m >= p THEN more[m] \o f[m \div p] ELSE last[m]
              g == [w \in 0..m |-> IF w <= m - 1 THEN f[w] ELSE x]
  <2>2. m \div p \in 0..(m - 1)
    <3>1. m \in Nat /\ m # 0
      OBVIOUS
    <3>. QED  BY <3>1, QuotientSmaller
  <2>3. x \in Seq(D)
    <3>1. m \in 0..v /\ more[m] \in Seq(D) /\ last[m] \in Seq(D) /\ f[m \div p] \in Seq(D)
      BY <2>2
    <3>. QED  BY <3>1, ConcatProperties
  <2>4. g \in [0..m -> Seq(D)]
    <3>. HIDE DEF x
    <3>. QED  BY <2>3
  <2>5. ASSUME NEW w \in 0..m
        PROVE  g[w] = IF w >= p THEN more[w] \o g[w \div p] ELSE last[w]
    <3>1. CASE w <= m - 1
      <4>1. w \in 0..(m - 1) /\ w \in Nat
        BY <3>1
      <4>2. w \div p \in 0..w
        BY <4>1, QuotientSmaller
      <4>3. w \div p \in 0..(m - 1) /\ w \div p \in 0..m
        BY <3>1, <4>2
      <4>. HIDE DEF x
      <4>4. g[w] = f[w] /\ g[w \div p] = f[w \div p]
        BY <3>1, <4>3
      <4>5. f[w] = IF w >= p THEN more[w] \o f[w \div p] ELSE last[w]
        BY <2>1, <4>1 DEF Chunks
      <4>. QED  BY <4>4, <4>5
    <3>2. CASE ~(w <= m - 1)
      <4>1. w = m /\ m \in 0..m /\ ~(m <= m - 1)
        BY <3>2
      <4>2. m \div p \in 0..m /\ m \div p <= m - 1
        BY <2>2
      <4>3. g[m] = x /\ g[m \div p] = f[m \div p]
        <5>. HIDE DEF x
        <5>. QED  BY <4>1, <4>2
      <4>. HIDE DEF g
      <4>. QED  BY <4>1, <4>3
    <3>. QED  BY <3>1, <3>2
  <2>. HIDE DEF g
  <2>6. Chunks(g, m, p, more, last)
    BY <2>5 DEF Chunks
  <2>. QED  BY <2>4, <2>6
<1>3. \A m \in 0..v : m \in T
  <2>. HIDE DEF T
  <2>. QED  BY <1>1, <1>2, UpTo
<1>. QED  BY <1>3

(* Digits, lowest first, that write a number.                              *)
Writes(d, w, base) ==
  \E n \in Nat : d \in DigitsIn(n, base) /\ ValueOf(Reverse(d), base) = w

(* A number is written by its digits up to its length, and by those of     *)
(* what a power leaves of it before those of what the power is of it.      *)
LEMMA LowestWrites ==
  ASSUME NEW base \in Nat \ {0, 1}, NEW n \in Nat, NEW w \in Nat, w < Power(base, n)
  PROVE  Lowest(w, n, base) \in DigitsIn(n, base) /\ ValueOf(Reverse(Lowest(w, n, base)), base) = w
BY ShownDigits, ShownIsRead DEF Shown

LEMMA WritesMore ==
  ASSUME NEW base \in Nat \ {0, 1}, NEW k \in Nat \ {0}, NEW w \in Nat, NEW d,
         Writes(d, w \div Power(base, k), base)
  PROVE  Writes(Lowest(w % Power(base, k), k, base) \o d, w, base)
<1>. DEFINE p == Power(base, k)
            r == w % p
            q == w \div p
            a == Lowest(r, k, base)
<1>1. p \in Nat \ {0}
  BY PowerPositive
<1>2. r \in 0..(p - 1) /\ q \in Nat /\ w = p * q + r
  <2>. HIDE DEF p
  <2>1. w \in Int
    OBVIOUS
  <2>2. q \in Nat
    BY <1>1, QuotientIsNat
  <2>3. r \in 0..(p - 1) /\ w = p * q + r
    BY <1>1, <2>1, Euclid
  <2>. QED  BY <2>2, <2>3
<1>. HIDE DEF r
<1>3. r \in Nat /\ r < Power(base, k)
  BY <1>1, <1>2
<1>4. a \in DigitsIn(k, base) /\ ValueOf(Reverse(a), base) = r
  BY <1>3, LowestWrites
<1>. HIDE DEF a
<1>5. PICK n \in Nat : d \in DigitsIn(n, base) /\ ValueOf(Reverse(d), base) = q
  BY DEF Writes
<1>6. a \o d \in DigitsIn(k + n, base)
  BY <1>4, <1>5, ValueJoins
<1>7. /\ Reverse(a) \in DigitsIn(k, base)
      /\ Reverse(a \o d) = Reverse(d) \o Reverse(a)
  <2>1. k \in Nat
    OBVIOUS
  <2>. HIDE DEF p, q
  <2>2. Reverse(a \o d) = Reverse(d) \o Reverse(a)
    BY <1>4, <1>5, <2>1, Reversed, SMTT(30)
  <2>3. Reverse(a) \in DigitsIn(k, base)
    BY <1>4, <1>5, <2>1, Reversed
  <2>. QED  BY <2>2, <2>3
<1>8. Reverse(d) \in DigitsIn(n, base)
  BY <1>5, Reversed
<1>. DEFINE x == Reverse(d)
            y == Reverse(a)
<1>. HIDE DEF x, y
<1>9. ValueOf(x \o y, base) = ValueOf(x, base) * Power(base, k) + ValueOf(y, base)
  <2>1. x \in DigitsIn(n, base) /\ y \in DigitsIn(k, base)
    BY <1>7, <1>8 DEF x, y
  <2>. QED  BY <2>1, ValueJoins
<1>10. ValueOf(Reverse(a \o d), base) = q * p + r
  BY <1>4, <1>5, <1>7, <1>9 DEF x, y
<1>11. q * p + r = w
  <2>. HIDE DEF p, q
  <2>. QED  BY <1>1, <1>2
<1>12. k + n \in Nat
  OBVIOUS
<1>. HIDE DEF p, q
<1>13. Writes(a \o d, w, base)
  BY <1>6, <1>10, <1>11, <1>12 DEF Writes
<1>. QED  BY <1>13 DEF a, r, p

(* Taking k digits at a time writes the number.                            *)
LEMMA DigitsWrite ==
  ASSUME NEW base \in Nat \ {0, 1}, NEW k \in Nat \ {0}, NEW v \in Nat
  PROVE  Writes(digits(v, k, base), v, base)
<1>. DEFINE p == Power(base, k)
            D == 0..(base - 1)
            more == [w \in 0..v |-> Lowest(w % p, k, base)]
            last == [w \in 0..v |-> Lowest(w, LengthIn(w, base), base)]
            Step(h) == [w \in 0..v |-> IF w >= p THEN Lowest(w % p, k, base) \o h[w \div p]
                                       ELSE Lowest(w, LengthIn(w, base), base)]
            f == CHOOSE h : h = Step(h)
<1>1. p \in Nat \ {0, 1}
  <2>1. Power(base, k) \in Nat /\ Power(base, k) >= k + 1
    BY PowerPositive, PowersGrow
  <2>. QED  BY <2>1
<1>2. digits(v, k, base) = f[v]
  BY Zenon DEF digits
<1>. HIDE DEF p
<1>3. ASSUME NEW w \in 0..v PROVE w \in Nat /\ w % p \in Nat /\ LengthIn(w, base) \in Nat
  <2>1. w \in Nat
    OBVIOUS
  <2>2. w % p \in 0..(p - 1)
    BY <1>1, <2>1, LastDigit
  <2>3. LengthIn(w, base) \in Nat
    BY <2>1, LengthFits
  <2>4. p - 1 \in Nat
    BY <1>1
  <2>. QED  BY <2>1, <2>2, <2>3, <2>4
<1>4. \A r, n \in Nat : Lowest(r, n, base) \in Seq(D)
  <2>. TAKE r, n \in Nat
  <2>1. Lowest(r, n, base) \in DigitsIn(n, base)
    BY ShownDigits
  <2>. QED  BY <2>1 DEF DigitsIn
<1>5. more \in [0..v -> Seq(D)] /\ last \in [0..v -> Seq(D)]
  <2>. HIDE DEF D
  <2>. QED  BY <1>3, <1>4
<1>6. PICK g \in [0..v -> Seq(D)] : Chunks(g, v, p, more, last)
  <2>. HIDE DEF D, more, last
  <2>. QED  BY <1>1, <1>5, ChunksExist
<1>7. ASSUME NEW w \in 0..v PROVE g[w] = Step(g)[w]
  <2>1. g[w] = IF w >= p THEN more[w] \o g[w \div p] ELSE last[w]
    BY <1>6 DEF Chunks
  <2>2. more[w] = Lowest(w % p, k, base) /\ last[w] = Lowest(w, LengthIn(w, base), base)
    OBVIOUS
  <2>3. Step(g)[w] = IF w >= p THEN Lowest(w % p, k, base) \o g[w \div p]
                     ELSE Lowest(w, LengthIn(w, base), base)
    OBVIOUS
  <2>. HIDE DEF more, last, Step
  <2>. QED  BY <2>1, <2>2, <2>3
<1>8. g = Step(g)
  <2>1. DOMAIN g = 0..v /\ g = [w \in 0..v |-> g[w]]
    OBVIOUS
  <2>2. Step(g) = [w \in 0..v |-> Step(g)[w]]
    OBVIOUS
  <2>. HIDE DEF Step
  <2>. QED  BY <1>7, <2>1, <2>2
<1>9. f = Step(f)
  <2>. HIDE DEF Step
  <2>. QED  BY <1>8
<1>. HIDE DEF f
<1>10. ASSUME NEW w \in 0..v
       PROVE  f[w] = IF w >= p THEN Lowest(w % p, k, base) \o f[w \div p]
                     ELSE Lowest(w, LengthIn(w, base), base)
  <2>1. f[w] = Step(f)[w]
    <3>. HIDE DEF Step
    <3>. QED  BY <1>9
  <2>2. Step(f)[w] = IF w >= p THEN Lowest(w % p, k, base) \o f[w \div p]
                     ELSE Lowest(w, LengthIn(w, base), base)
    OBVIOUS
  <2>. HIDE DEF Step
  <2>. QED  BY <2>1, <2>2
<1>. DEFINE T == {m \in 0..v : \A w \in 0..m : Writes(f[w], w, base)}
<1>11. ASSUME NEW w \in 0..v, \A u \in 0..v : u < w => Writes(f[u], u, base)
       PROVE  Writes(f[w], w, base)
  <2>0. w \in Nat
    OBVIOUS
  <2>1. CASE w >= p
    <3>1. w # 0
      BY <1>1, <2>1
    <3>2. w \div p \in 0..v /\ w \div p < w
      <4>1. w \div p \in 0..(w - 1)
        BY <1>1, <2>0, <3>1, QuotientSmaller
      <4>. QED  BY <4>1
    <3>3. Writes(f[w \div p], w \div p, base)
      BY <1>11, <3>2
    <3>. DEFINE d == f[w \div p]
    <3>4. Writes(d, w \div Power(base, k), base)
      BY <3>3 DEF p
    <3>. HIDE DEF d
    <3>5. Writes(Lowest(w % Power(base, k), k, base) \o d, w, base)
      BY <2>0, <3>4, WritesMore
    <3>6. f[w] = Lowest(w % p, k, base) \o d
      BY <1>10, <2>1 DEF d
    <3>. QED  BY <3>5, <3>6 DEF p
  <2>2. CASE ~(w >= p)
    <3>. DEFINE n == LengthIn(w, base)
    <3>1. n \in Nat /\ Power(base, n) > w /\ Power(base, n) \in Nat
      BY <2>0, LengthFits, PowerPositive
    <3>. HIDE DEF n
    <3>2. w < Power(base, n)
      BY <2>0, <3>1
    <3>3. Lowest(w, n, base) \in DigitsIn(n, base) /\ ValueOf(Reverse(Lowest(w, n, base)), base) = w
      BY <2>0, <3>1, <3>2, LowestWrites
    <3>4. f[w] = Lowest(w, n, base)
      BY <1>10, <2>2 DEF n
    <3>. QED  BY <3>1, <3>3, <3>4 DEF Writes
  <2>. QED  BY <2>1, <2>2
<1>12. \A m \in 0..v : m \in T
  <2>1. 0 \in T
    <3>1. \A u \in 0..v : u < 0 => Writes(f[u], u, base)
      OBVIOUS
    <3>2. 0 \in 0..v
      OBVIOUS
    <3>3. Writes(f[0], 0, base)
      BY <1>11, <3>1, <3>2
    <3>. QED  BY <3>3
  <2>2. ASSUME NEW m \in 1..v, m - 1 \in T PROVE m \in T
    <3>1. m \in 0..v /\ \A u \in 0..v : u < m => u \in 0..(m - 1)
      OBVIOUS
    <3>2. \A u \in 0..(m - 1) : Writes(f[u], u, base)
      BY <2>2
    <3>3. Writes(f[m], m, base)
      BY <1>11, <3>1, <3>2
    <3>4. \A u \in 0..m : u = m \/ u \in 0..(m - 1)
      OBVIOUS
    <3>. QED  BY <3>1, <3>2, <3>3, <3>4
  <2>. HIDE DEF T
  <2>. QED  BY <2>1, <2>2, UpTo
<1>13. v \in T
  <2>. HIDE DEF T
  <2>1. v \in 0..v
    OBVIOUS
  <2>. QED  BY <1>12, <2>1
<1>. QED  BY <1>2, <1>13

-----------------------------------------------------------------------------
(* Containers written as a number.                                         *)
Marked(data) == <<1>> \o data

(* What is encoded is digits of the number of the data after a one.        *)
LEMMA EncodedIs ==
  ASSUME NEW n \in Nat, NEW data \in DigitsIn(n, Radix), NEW base \in Nat \ {0, 1}, base < Word
  PROVE  \E m \in Nat : /\ encode_base_n(data, base) \in DigitsIn(m, base)
                        /\ ValueOf(encode_base_n(data, base), base) = ValueOf(Marked(data), Radix)
<1>. DEFINE v == ValueOf(Marked(data), Radix)
            k == paso_maximo(base)
            d == digits(v, k, base)
<1>1. Radix \in Nat \ {0, 1}
  BY CodecAssumption
<1>2. <<1>> \in DigitsIn(1, Radix)
  <2>1. 1 \in 0..(Radix - 1)
    BY <1>1
  <2>. QED  BY <2>1 DEF DigitsIn
<1>3. Marked(data) \in DigitsIn(1 + n, Radix)
  <2>. DEFINE one == <<1>>
              l == 1
  <2>1. one \in DigitsIn(l, Radix) /\ l \in Nat
    BY <1>2
  <2>. HIDE DEF one, l
  <2>2. one \o data \in DigitsIn(l + n, Radix)
    BY <1>1, <2>1, ValueJoins
  <2>. QED  BY <2>2 DEF one, l, Marked
<1>4. v \in Nat
  <2>1. 1 + n \in Nat
    OBVIOUS
  <2>. QED  BY <1>1, <1>3, <2>1, ReadIsShown
<1>5. k \in Nat \ {0}
  BY StepTaken
<1>6. encode_base_n(data, base) = Reverse(d)
  BY DEF encode_base_n, Marked
<1>. HIDE DEF v, k
<1>7. Writes(d, v, base)
  BY <1>4, <1>5, DigitsWrite
<1>. HIDE DEF d
<1>8. PICK m \in Nat : d \in DigitsIn(m, base) /\ ValueOf(Reverse(d), base) = v
  BY <1>7 DEF Writes
<1>9. Reverse(d) \in DigitsIn(m, base)
  BY <1>8, Reversed
<1>. QED  BY <1>6, <1>8, <1>9 DEF v

(* What is decoded from digits of the number of the data after a one is    *)
(* the data.                                                               *)
LEMMA DecodedIs ==
  ASSUME NEW n \in Nat, NEW data \in DigitsIn(n, Radix), NEW base, NEW ds,
         ValueOf(ds, base) = ValueOf(Marked(data), Radix)
  PROVE  decode_base_n(ds, base) = data
<1>. DEFINE x == Marked(data)
            v == ValueOf(x, Radix)
            l == n + 1
            D == 0..(Radix - 1)
<1>1. Radix \in Nat \ {0, 1} /\ l \in Nat /\ l # 0 /\ l - 1 = n
  BY CodecAssumption
<1>2. /\ x \in DigitsIn(l, Radix) /\ x[1] = 1 /\ Tail(x) = data
  <2>1. 1 \in D /\ data \in [1..n -> D]
    BY <1>1 DEF DigitsIn
  <2>2. data \in Seq(D) /\ <<1>> \in Seq(D) /\ Len(data) = n /\ Len(<<1>>) = 1
    <3>. HIDE DEF D
    <3>. QED  BY <2>1
  <2>3. <<1>> \in [1..1 -> D]
    <3>. HIDE DEF D
    <3>. QED  BY <2>1
  <2>. DEFINE one == <<1>>
              u == 1
  <2>4. one \in [1..u -> D] /\ u \in Nat
    BY <2>3
  <2>. HIDE DEF one, u, D
  <2>5. IsJoined(one \o data, one, data, u, n, D)
    BY <2>1, <2>4, Joined
  <2>6. x = one \o data
    BY DEF Marked, one
  <2>7. /\ x \in Seq(D) /\ Len(x) = 1 + n
        /\ \A i \in 1..1 : x[i] = one[i]
        /\ \A i \in 1..n : x[1 + i] = data[i]
    BY <2>5, <2>6 DEF IsJoined, u
  <2>. HIDE DEF x
  <2>8. x[1] = 1
    BY <2>7 DEF one
  <2>9. Len(x) = l
    BY <2>7
  <2>10. x \in [1..l -> D]
    <3>. HIDE DEF l
    <3>. QED  BY <1>1, <2>7, <2>9, LenProperties
  <2>11. Tail(x) \in [1..n -> D] /\ \A i \in 1..n : Tail(x)[i] = data[i]
    <3>1. Tail(x) \in Seq(D) /\ Len(Tail(x)) = n /\ \A i \in 1..n : Tail(x)[i] = x[i + 1]
      BY <2>7
    <3>2. \A i \in 1..n : x[i + 1] = data[i]
      <4>1. \A i \in 1..n : i + 1 = 1 + i
        OBVIOUS
      <4>. QED  BY <2>7, <4>1
    <3>. QED  BY <3>1, <3>2, LenProperties
  <2>12. Tail(x) = data
    BY <2>1, <2>11, SameList
  <2>. QED  BY <2>8, <2>10, <2>12 DEF DigitsIn, D
<1>. HIDE DEF x, l
<1>3. /\ v \in Nat /\ v < Power(Radix, l) /\ Shown(v, l, Radix) = x
      /\ Power(Radix, n) <= v
  <2>1. /\ ValueOf(x, Radix) \in Nat
        /\ ValueOf(x, Radix) < Power(Radix, l)
        /\ Shown(ValueOf(x, Radix), l, Radix) = x
        /\ l # 0 /\ x[1] # 0 => Power(Radix, l - 1) <= ValueOf(x, Radix)
    BY <1>1, <1>2, ReadIsShown
  <2>2. Power(Radix, l - 1) = Power(Radix, n)
    BY <1>1
  <2>. QED  BY <1>1, <1>2, <2>1, <2>2
<1>. HIDE DEF v
<1>. DEFINE k == LengthIn(v, Radix)
<1>4. /\ k \in Nat /\ Power(Radix, k) > v
      /\ \A j \in Nat : j < k => Power(Radix, j) <= v
  BY <1>1, <1>3, LengthFits
<1>. HIDE DEF k
<1>5. \A j \in Nat : Power(Radix, j) \in Nat \ {0}
  BY <1>1, PowerPositive
<1>6. ~(l < k)
  BY <1>1, <1>3, <1>4, <1>5
<1>7. ~(k <= n)
  <2>1. k <= n => Power(Radix, k) <= Power(Radix, n)
    BY <1>1, <1>4, PowersOrdered
  <2>. QED  BY <1>3, <1>4, <1>5, <2>1
<1>8. k = l
  BY <1>1, <1>4, <1>6, <1>7
<1>9. v # 0
  BY <1>3, <1>5
<1>10. decode_base_n(ds, base) = Tail(Reverse(Lowest(v, k, Radix)))
  BY <1>9 DEF decode_base_n, v, x, k
<1>. QED  BY <1>2, <1>3, <1>8, <1>10 DEF Shown

(* Data of bytes, in a base a word holds, is what its encoding decodes to  *)
(* (codec.rs encode_base_n, decode_base_n).                                *)
THEOREM DecodingUndoesEncoding ==
  ASSUME NEW n \in Nat, NEW data \in [1..n -> 0..(Radix - 1)], NEW base \in Nat \ {0, 1}, base < Word
  PROVE  decode_base_n(encode_base_n(data, base), base) = data
<1>1. data \in DigitsIn(n, Radix)
  BY DEF DigitsIn
<1>. DEFINE ds == encode_base_n(data, base)
<1>2. ValueOf(ds, base) = ValueOf(Marked(data), Radix)
  BY <1>1, EncodedIs
<1>. HIDE DEF ds
<1>3. decode_base_n(ds, base) = data
  BY <1>1, <1>2, DecodedIs
<1>. QED  BY <1>3 DEF ds

-----------------------------------------------------------------------------
(* A container in the symbols of a dictionary that accepts its alphabet is *)
(* read back (dictionary.rs new, encode, decode).                          *)
LEMMA SymbolsDecode ==
  ASSUME NEW S, NEW a \in Seq(S), DictionaryAccepts(a), Len(a) < Word,
         NEW n \in Nat, NEW data \in [1..n -> 0..(Radix - 1)]
  PROVE  LET s == dictionary_encode(a, encode_base_n(data, Len(a)))
         IN  /\ \A i \in 1..Len(s) : s[i] \in Range(a)
             /\ decode_base_n([i \in 1..Len(s) |-> dictionary_index(a, s[i])], Len(a)) = data
<1>. DEFINE base == Len(a)
            ds == encode_base_n(data, base)
            s == dictionary_encode(a, ds)
<1>1. base \in Nat \ {0, 1} /\ base < Word /\ IsInjective(a) /\ DOMAIN a = 1..base
  <2>1. Len(a) \in Nat /\ DOMAIN a = 1..Len(a)
    OBVIOUS
  <2>2. Len(a) >= 2 /\ IsInjective(a)
    BY Zenon DEF DictionaryAccepts
  <2>. QED  BY <2>1, <2>2
<1>2. data \in DigitsIn(n, Radix)
  BY DEF DigitsIn
<1>. HIDE DEF base
<1>3. PICK m \in Nat : ds \in DigitsIn(m, base)
  BY <1>1, <1>2, EncodedIs
<1>4. decode_base_n(ds, base) = data
  BY <1>1, DecodingUndoesEncoding
<1>. HIDE DEF ds
<1>5. ds \in [1..m -> 0..(base - 1)] /\ Len(ds) = m
  BY <1>3 DEF DigitsIn
<1>6. s = [i \in 1..m |-> a[ds[i] + 1]] /\ Len(s) = m
  BY <1>5 DEF dictionary_encode
<1>. HIDE DEF s
<1>7. ASSUME NEW i \in 1..m PROVE s[i] \in Range(a) /\ dictionary_index(a, s[i]) = ds[i]
  <2>. DEFINE j == ds[i] + 1
  <2>1. ds[i] \in 0..(base - 1)
    BY <1>5
  <2>2. j \in 1..base /\ j - 1 = ds[i]
    BY <1>1, <2>1
  <2>. HIDE DEF j
  <2>3. s[i] = a[j]
    BY <1>6 DEF j
  <2>4. \A k \in 1..base : a[k] = a[j] => k = j
    BY <1>1, <2>2 DEF IsInjective
  <2>5. (CHOOSE k \in 1..base : a[k] = a[j]) = j
    BY <2>2, <2>4
  <2>. QED  BY <1>1, <2>2, <2>3, <2>5 DEF dictionary_index, base, Range
<1>8. [i \in 1..Len(s) |-> dictionary_index(a, s[i])] = ds
  BY <1>5, <1>6, <1>7
<1>. QED  BY <1>4, <1>6, <1>7, <1>8 DEF s, ds, base

-----------------------------------------------------------------------------
(* Base32.                                                                 *)

(* What is left over of a number of groups, less than a group, is dropped. *)
LEMMA RestDropped ==
  ASSUME NEW n \in Nat, NEW b \in Nat \ {0}, NEW l \in Nat, n * b <= l, l < n * b + b
  PROVE  l \div b = n
<1>1. CASE b = 1
  <2>1. n * 1 = n
    OBVIOUS
  <2>2. l = n
    BY <1>1, <2>1
  <2>3. l \div 1 = l
    OBVIOUS
  <2>. QED  BY <1>1, <2>2, <2>3
<1>2. CASE b # 1
  <2>. DEFINE d == l - n * b
  <2>1. n * b = b * n /\ n * b \in Nat
    OBVIOUS
  <2>2. d \in 0..(b - 1) /\ l = b * n + d /\ b \in Nat \ {0, 1}
    BY <1>2, <2>1
  <2>. HIDE DEF d
  <2>3. ((b * n + d) \div b) = n
    BY <2>2, LastDigit
  <2>. QED  BY <2>2, <2>3
<1>. QED  BY <1>1, <1>2

(* What is asked of Base32: bytes written in symbols are read as those     *)
(* bytes, and there are symbols where there are bytes.                     *)
Recodes(stream) ==
  /\ de_cinco_bits(a_cinco_bits(stream)) = stream
  /\ \E k \in Nat : /\ DOMAIN a_cinco_bits(stream) = 1..k
                    /\ a_cinco_bits(stream) \in [1..k -> Range(a_cinco_bits(stream))]
                    /\ (stream # <<>> => k # 0)

(* Any list of bytes is read back from its symbols of Base32, for any size *)
(* of a symbol that is less than a byte: the bits regrouped and the        *)
(* padding dropped (papel.rs a_cinco_bits, de_cinco_bits).                 *)
THEOREM Base32Recodes ==
  ASSUME NEW n \in Nat, NEW stream \in [1..n -> Bytes]
  PROVE  Recodes(stream)
<1>. DEFINE b == ByteBits
            w == SymbolBits
            S == {0, 1}
            g == [i \in 1..n |-> InBits(stream[i], b)]
            bits == FlattenSeq(g)
            total == n * b
            k == CeilDiv(total, w)
            bit(i) == IF i <= total THEN bits[i] ELSE 0
            symbols == [s \in 1..k |-> [i \in 1..w |-> bit((s - 1) * w + i)]]
            list == FlattenSeq(symbols)
            len == k * w
<1>1. b \in Nat \ {0} /\ w \in Nat \ {0} /\ w <= b
  BY TecleableAssumption
<1>2. Len(stream) = n
  OBVIOUS
<1>3. \A i \in 1..n : g[i] = InBits(stream[i], b) /\ g[i] \in [1..b -> S] /\ Number(g[i]) = stream[i]
  BY ByteAndBits DEF ByteIn
<1>4. g \in [1..n -> [1..b -> S]]
  <2>1. \A i \in 1..n : g[i] \in [1..b -> S]
    BY <1>3
  <2>. HIDE DEF S
  <2>2. DOMAIN g = 1..n /\ g = [i \in 1..n |-> g[i]]
    OBVIOUS
  <2>. HIDE DEF g
  <2>. QED  BY <2>1, <2>2
<1>. HIDE DEF b, w, S, g
<1>5. bits \in [1..total -> S] /\ Grouped(bits, g, n, b)
  BY <1>1, <1>4, JoinedGroups
<1>6. total \in Nat /\ 0 \in S
  BY <1>1 DEF S
<1>. HIDE DEF bits, total
<1>7. Len(bits) = total
  BY <1>5, <1>6
<1>8. a_cinco_bits(stream) = symbols
  BY <1>2, <1>7 DEF a_cinco_bits, bits, g, b, w
<1>9. /\ k \in Nat /\ total <= k * w
      /\ \A j \in Nat \ {0} : j <= k => (j - 1) * w < total
  BY <1>1, <1>6, CeilDivCounts
<1>. HIDE DEF k
<1>10. \A p \in 1..k, q \in 1..w : (p - 1) * w + q \in 1..len
  BY <1>1, <1>9, GroupPlaces
<1>11. len \in Nat
  BY <1>1, <1>9
<1>12. \A i \in 1..len : bit(i) \in S
  BY <1>5, <1>6, <1>11
<1>. HIDE DEF bit, len
<1>13. symbols \in [1..k -> [1..w -> S]]
  BY <1>10, <1>12
<1>14. \A p \in 1..k, q \in 1..w : symbols[p][q] = bit((p - 1) * w + q)
  OBVIOUS
<1>. HIDE DEF symbols
<1>15. list \in [1..len -> S] /\ Grouped(list, symbols, k, w)
  BY <1>1, <1>9, <1>13, JoinedGroups DEF len
<1>. HIDE DEF list
<1>16. ASSUME NEW j \in 1..len PROVE list[j] = bit(j)
  <2>1. j \in 1..(k * w)
    BY DEF len
  <2>2. PICK p \in 1..k : \E q \in 1..w : j = (p - 1) * w + q
    BY <1>1, <1>9, <2>1, GroupPlaces, ZenonT(30)
  <2>3. PICK q \in 1..w : j = (p - 1) * w + q
    BY <2>2
  <2>. QED  BY <1>14, <1>15, <2>3 DEF Grouped
<1>17. n * b <= len /\ len < n * b + b
  <2>1. total <= len
    BY <1>9 DEF len
  <2>2. len < total + w
    <3>1. CASE k = 0
      <4>1. 0 * w = 0
        BY <1>1
      <4>. QED  BY <1>1, <1>6, <3>1, <4>1 DEF len
    <3>2. CASE k # 0
      <4>1. (k - 1) * w < total
        BY <1>9, <3>2
      <4>2. (k - 1) * w + w = k * w /\ (k - 1) * w \in Int
        BY <1>1, <1>9
      <4>. QED  BY <1>1, <1>6, <1>11, <4>1, <4>2 DEF len
    <3>. QED  BY <3>1, <3>2
  <2>3. len < total + b
    BY <1>1, <1>6, <1>11, <2>2
  <2>. QED  BY <2>1, <2>3 DEF total
<1>18. len \div b = n
  BY <1>1, <1>11, <1>17, RestDropped
<1>19. ASSUME NEW j \in 1..n PROVE Number(SubSeq(list, (j - 1) * b + 1, j * b)) = stream[j]
  <2>. DEFINE x == Group(list, j, b)
  <2>1. IsGroup(x, S, list, j, b)
    BY <1>1, <1>11, <1>15, <1>17, GroupWithin
  <2>. HIDE DEF x
  <2>2. x \in [1..b -> S] /\ \A q \in 1..b : x[q] = list[(j - 1) * b + q]
    BY <2>1 DEF IsGroup
  <2>3. ASSUME NEW q \in 1..b PROVE x[q] = g[j][q]
    <3>. DEFINE i == (j - 1) * b + q
    <3>1. i \in 1..(n * b)
      BY <1>1, GroupPlaces
    <3>. HIDE DEF i
    <3>2. i \in 1..total /\ i \in 1..len /\ i <= total
      <4>1. i \in 1..total
        BY <3>1 DEF total
      <4>2. total <= len
        BY <1>17 DEF total
      <4>. QED  BY <1>6, <1>11, <4>1, <4>2
    <3>3. x[q] = bit(i)
      BY <1>16, <2>2, <3>2 DEF i
    <3>4. bit(i) = bits[i]
      BY <3>2 DEF bit
    <3>5. bits[i] = g[j][q]
      BY <1>5 DEF Grouped, i
    <3>. QED  BY <3>3, <3>4, <3>5
  <2>4. x = g[j]
    <3>1. g[j] \in [1..b -> S]
      BY <1>3
    <3>. DEFINE y == g[j]
    <3>2. b \in Nat /\ y \in [1..b -> S] /\ x \in [1..b -> S] /\ \A q \in 1..b : x[q] = y[q]
      BY <1>1, <2>2, <2>3, <3>1
    <3>. HIDE DEF y
    <3>3. x = y
      BY <3>2, SameList
    <3>. QED  BY <3>3 DEF y
  <2>5. Number(x) = stream[j]
    BY <1>3, <2>4
  <2>. QED  BY <2>5 DEF x, Group
<1>20. Len(list) = len
  BY <1>11, <1>15
<1>21. de_cinco_bits(symbols) = [j \in 1..n |-> Number(SubSeq(list, (j - 1) * b + 1, j * b))]
  BY <1>18, <1>20 DEF de_cinco_bits, list, b
<1>22. de_cinco_bits(symbols) = stream
  <2>1. stream = [j \in 1..n |-> stream[j]]
    OBVIOUS
  <2>. DEFINE c(j) == Number(SubSeq(list, (j - 1) * b + 1, j * b))
  <2>2. \A j \in 1..n : c(j) = stream[j]
    BY <1>19
  <2>3. de_cinco_bits(symbols) = [j \in 1..n |-> c(j)]
    BY <1>21
  <2>. HIDE DEF c
  <2>. QED  BY <2>1, <2>2, <2>3
<1>23. stream # <<>> => k # 0
  <2>. SUFFICES ASSUME stream # <<>>, k = 0 PROVE FALSE
    OBVIOUS
  <2>1. n # 0
    OBVIOUS
  <2>2. n * b >= 1
    <3>1. 1 \in Nat /\ b \in Nat /\ 1 <= n
      BY <1>1, <2>1
    <3>2. 1 * b <= n * b
      BY <3>1, ProductMonotone
    <3>3. 1 * b = b /\ n * b \in Nat
      BY <1>1
    <3>. QED  BY <1>1, <3>2, <3>3
  <2>3. len = 0
    BY <1>1 DEF len
  <2>4. n * b \in Nat
    BY <1>1
  <2>. QED  BY <1>17, <2>2, <2>3, <2>4
<1>24. DOMAIN symbols = 1..k /\ symbols \in [1..k -> Range(symbols)]
  BY <1>13 DEF Range
<1>. QED  BY <1>8, <1>9, <1>22, <1>23, <1>24 DEF Recodes

-----------------------------------------------------------------------------
(* What is between the symbols.                                            *)

(* Sequences joined, from none to all of them.                             *)
JoinedUpTo(F, s, n) == F[0] = <<>> /\ \A k \in 1..n : F[k] = F[k - 1] \o s[k]

LEMMA FlattenUpTo ==
  ASSUME NEW S, NEW n \in Nat, NEW s \in [1..n -> Seq(S)]
  PROVE  \E F \in [0..n -> Seq(S)] : JoinedUpTo(F, s, n) /\ FlattenSeq(s) = F[n]
<1>1. CASE n = 0
  <2>. DEFINE F == [k \in 0..n |-> <<>>]
  <2>1. s = <<>>
    BY <1>1
  <2>2. FlattenSeq(<<>>) = <<>>
    BY DEF FlattenSeq
  <2>3. F \in [0..n -> Seq(S)] /\ F[0] = <<>> /\ F[n] = <<>>
    OBVIOUS
  <2>4. JoinedUpTo(F, s, n)
    BY <1>1, <2>3 DEF JoinedUpTo
  <2>. QED  BY <2>1, <2>2, <2>3, <2>4
<1>2. CASE n # 0
  <2>1. n \in Nat \ {0}
    BY <1>2
  <2>2. PICK G \in [1..n -> Seq(S)] : Joins(s, G, n) /\ FlattenSeq(s) = G[n]
    BY <2>1, FlattenJoins
  <2>. DEFINE F == [k \in 0..n |-> IF k = 0 THEN <<>> ELSE G[k]]
  <2>3. F \in [0..n -> Seq(S)] /\ F[0] = <<>> /\ \A k \in 1..n : F[k] = G[k]
    <3>1. <<>> \in Seq(S)
      OBVIOUS
    <3>. QED  BY <3>1
  <2>4. ASSUME NEW k \in 1..n PROVE F[k] = F[k - 1] \o s[k]
    <3>1. G[k] = IF k = 1 THEN s[k] ELSE G[k - 1] \o s[k]
      BY <2>2 DEF Joins
    <3>2. CASE k = 1
      <4>1. F[k - 1] = <<>> /\ s[k] \in Seq(S)
        BY <2>3, <3>2
      <4>2. <<>> \o s[k] = s[k]
        BY <4>1, ConcatEmptySeq
      <4>. QED  BY <2>3, <3>1, <3>2, <4>1, <4>2
    <3>3. CASE k # 1
      <4>1. k - 1 \in 1..n
        BY <3>3
      <4>. QED  BY <2>3, <3>1, <3>3, <4>1
    <3>. QED  BY <3>2, <3>3
  <2>5. n \in 1..n
    BY <2>1
  <2>. HIDE DEF F
  <2>6. JoinedUpTo(F, s, n)
    BY <2>3, <2>4 DEF JoinedUpTo
  <2>. QED  BY <2>2, <2>3, <2>5, <2>6
<1>. QED  BY <1>1, <1>2

(* Nothing among sequences joins as nothing.                               *)
EmptyAt(t, s, n, i) ==
  /\ t[i] = <<>>
  /\ \A j \in 1..n : j < i => t[j] = s[j]
  /\ \A j \in 1..n : j >= i => t[j + 1] = s[j]

LEMMA EmptyJoins ==
  ASSUME NEW S, NEW n \in Nat, NEW s \in [1..n -> Seq(S)], NEW t \in [1..(n + 1) -> Seq(S)],
         NEW i \in 1..n, EmptyAt(t, s, n, i)
  PROVE  FlattenSeq(t) = FlattenSeq(s)
<1>. DEFINE m == n + 1
<1>1. PICK F \in [0..n -> Seq(S)] : JoinedUpTo(F, s, n) /\ FlattenSeq(s) = F[n]
  BY FlattenUpTo
<1>2. m \in Nat /\ t \in [1..m -> Seq(S)]
  OBVIOUS
<1>. HIDE DEF m
<1>3. PICK G \in [0..m -> Seq(S)] : JoinedUpTo(G, t, m) /\ FlattenSeq(t) = G[m]
  BY <1>2, FlattenUpTo
<1>. DEFINE T == {j \in 0..n : IF j < i THEN G[j] = F[j] ELSE G[j + 1] = F[j]}
<1>4. \A j \in 0..n : j \in T
  <2>1. 0 \in T
    <3>1. 0 \in 0..n /\ 0 < i
      OBVIOUS
    <3>2. G[0] = F[0]
      BY <1>1, <1>3 DEF JoinedUpTo
    <3>. QED  BY <3>1, <3>2
  <2>2. ASSUME NEW j \in 1..n, j - 1 \in T PROVE j \in T
    <3>1. /\ j \in 1..m /\ j + 1 \in 1..m /\ (j + 1) - 1 = j /\ j \in 0..n /\ j - 1 \in 0..n
          /\ j \in 0..m /\ j - 1 \in 0..m
      BY DEF m
    <3>2. F[j] = F[j - 1] \o s[j]
      BY <1>1 DEF JoinedUpTo
    <3>3. G[j] = G[j - 1] \o t[j]
      BY <1>3, <3>1 DEF JoinedUpTo
    <3>4. G[j + 1] = G[j] \o t[j + 1]
      BY <1>3, <3>1 DEF JoinedUpTo
    <3>5. CASE j < i
      <4>1. G[j - 1] = F[j - 1] /\ t[j] = s[j]
        BY <2>2, <3>5 DEF EmptyAt
      <4>. QED  BY <3>1, <3>2, <3>3, <3>5, <4>1
    <3>6. CASE j = i
      <4>1. G[j - 1] = F[j - 1] /\ t[j] = <<>> /\ t[j + 1] = s[j]
        BY <2>2, <3>6 DEF EmptyAt
      <4>2. G[j - 1] \o <<>> = G[j - 1]
        BY <3>1, ConcatEmptySeq
      <4>3. G[j + 1] = F[j]
        BY <3>2, <3>3, <3>4, <4>1, <4>2
      <4>. QED  BY <3>1, <3>6, <4>3
    <3>7. CASE j > i
      <4>1. G[j] = F[j - 1] /\ t[j + 1] = s[j]
        BY <2>2, <3>1, <3>7 DEF EmptyAt
      <4>2. G[j + 1] = F[j] /\ ~(j < i)
        BY <3>2, <3>4, <3>7, <4>1
      <4>. QED  BY <3>1, <4>2
    <3>. QED  BY <3>1, <3>5, <3>6, <3>7
  <2>. HIDE DEF T
  <2>. QED  BY <2>1, <2>2, UpTo
<1>5. n \in 0..n /\ ~(n < i)
  OBVIOUS
<1>6. G[n + 1] = F[n]
  BY <1>4, <1>5
<1>. QED  BY <1>1, <1>3, <1>6 DEF m

-----------------------------------------------------------------------------
(* Text as it is typed.                                                    *)
LettersFor(x, n) == [i \in 1..n |-> Letter(x[i])]

(* The symbols of letters are what the letters are of.                     *)
LEMMA LettersAreRead ==
  ASSUME NEW V, NEW n \in Nat, NEW x \in [1..n -> V]
  PROVE  Symbols(LettersFor(x, n)) = x
<1>. DEFINE t == LettersFor(x, n)
            g == [i \in 1..n |-> <<x[i]>>]
            one == 1
<1>1. one \in Nat \ {0} /\ n * one = n /\ 1..one = {1}
  OBVIOUS
<1>2. Len(t) = n
  BY DEF LettersFor
<1>3. \A i \in 1..n : t[i].kind = "letter" /\ t[i].symbol = x[i]
  BY DEF LettersFor, Letter, Char
<1>. HIDE DEF t
<1>4. Symbols(t) = FlattenSeq([i \in 1..n |-> IF t[i].kind = "letter" THEN <<t[i].symbol>> ELSE <<>>])
  BY <1>2 DEF Symbols
<1>5. Symbols(t) = FlattenSeq(g)
  <2>. DEFINE h(i) == IF t[i].kind = "letter" THEN <<t[i].symbol>> ELSE <<>>
  <2>1. \A i \in 1..n : h(i) = <<x[i]>>
    BY <1>3
  <2>2. [i \in 1..n |-> h(i)] = g
    <3>. HIDE DEF h
    <3>. QED  BY <2>1
  <2>. QED  BY <1>4, <2>2
<1>6. ASSUME NEW i \in 1..n PROVE g[i] \in [1..one -> V] /\ g[i][1] = x[i]
  <2>1. g[i] = <<x[i]>> /\ x[i] \in V
    OBVIOUS
  <2>2. <<x[i]>> \in [1..1 -> V] /\ <<x[i]>>[1] = x[i]
    <3>. DEFINE e == x[i]
    <3>1. e \in V
      BY <2>1
    <3>. HIDE DEF e
    <3>2. <<e>> \in [1..1 -> V] /\ <<e>>[1] = e
      BY <3>1
    <3>. QED  BY <3>2 DEF e
  <2>. QED  BY <2>1, <2>2
<1>7. g \in [1..n -> [1..one -> V]]
  <2>1. DOMAIN g = 1..n /\ g = [i \in 1..n |-> g[i]]
    OBVIOUS
  <2>. HIDE DEF g, one
  <2>. QED  BY <1>6, <2>1
<1>8. x \in [1..(n * one) -> V]
  BY <1>1
<1>9. Grouped(x, g, n, one)
  <2>1. \A p \in 1..n, q \in 1..one : (p - 1) * one + q = p /\ q = 1
    OBVIOUS
  <2>2. \A p \in 1..n : g[p][1] = x[p]
    BY <1>6
  <2>. HIDE DEF g, one
  <2>. QED  BY <2>1, <2>2 DEF Grouped
<1>. HIDE DEF g, one
<1>10. FlattenSeq(g) = x
  BY <1>1, <1>7, <1>8, <1>9, GroupsOfList
<1>. QED  BY <1>5, <1>10 DEF t

(* A list with one more element.                                           *)
IsInserted(r, s, n, i, e) ==
  /\ r[i] = e
  /\ \A j \in 1..n : j < i => r[j] = s[j]
  /\ \A j \in 1..n : j >= i => r[j + 1] = s[j]

LEMMA InsertedAt ==
  ASSUME NEW C, NEW n \in Nat, NEW s \in [1..n -> C], NEW i \in 1..n, NEW e \in C
  PROVE  /\ InsertAt(s, i, e) \in [1..(n + 1) -> C]
         /\ IsInserted(InsertAt(s, i, e), s, n, i, e)
<1>. DEFINE a == SubSeq(s, 1, i - 1)
            b == SubSeq(s, i, n)
            one == <<e>>
            m == i - 1
            l == n - i + 1
            r == (a \o one) \o b
<1>0. s \in Seq(C) /\ Len(s) = n /\ i \in Nat /\ m \in Nat /\ l \in Nat /\ m + 1 = i /\ (m + 1) + l = n + 1
  OBVIOUS
<1>1. InsertAt(s, i, e) = r
  BY <1>0 DEF InsertAt
<1>2. a \in [1..m -> C] /\ \A j \in 1..m : a[j] = s[j]
  <2>1. a \in Seq(C) /\ Len(a) = m /\ \A j \in 1..m : a[j] = s[j]
    BY <1>0
  <2>. QED  BY <2>1, LenProperties
<1>3. b \in [1..l -> C] /\ \A j \in 1..l : b[j] = s[m + j]
  <2>1. b \in Seq(C) /\ Len(b) = l /\ \A j \in 1..l : b[j] = s[i + j - 1]
    BY <1>0
  <2>2. \A j \in 1..l : i + j - 1 = m + j
    BY <1>0
  <2>. QED  BY <2>1, <2>2, LenProperties
<1>4. one \in [1..1 -> C] /\ one[1] = e
  OBVIOUS
<1>. HIDE DEF a, b, one, m, l
<1>. DEFINE u == 1
            z == a \o one
<1>5. u \in Nat /\ one \in [1..u -> C]
  BY <1>4
<1>. HIDE DEF u
<1>6. IsJoined(a \o one, a, one, m, u, C)
  BY <1>0, <1>2, <1>5, Joined
<1>. HIDE DEF z
<1>7. /\ z \in [1..i -> C] /\ z[i] = e /\ \A j \in 1..m : z[j] = s[j]
  <2>1. /\ z \in Seq(C) /\ Len(z) = m + u
        /\ \A j \in 1..m : z[j] = a[j]
        /\ \A j \in 1..u : z[m + j] = one[j]
    BY <1>6 DEF IsJoined, z
  <2>2. Len(z) = i
    BY <1>0, <2>1 DEF u
  <2>3. z[m + 1] = one[1]
    BY <2>1 DEF u
  <2>. QED  BY <1>0, <1>2, <1>4, <2>1, <2>2, <2>3, LenProperties
<1>8. IsJoined(z \o b, z, b, i, l, C)
  BY <1>0, <1>3, <1>7, Joined
<1>. HIDE DEF r
<1>9. /\ r \in Seq(C) /\ Len(r) = i + l
      /\ \A j \in 1..i : r[j] = z[j]
      /\ \A j \in 1..l : r[i + j] = b[j]
  BY <1>8 DEF IsJoined, r, z
<1>10. r \in [1..(n + 1) -> C]
  <2>1. Len(r) = n + 1
    BY <1>0, <1>9
  <2>. QED  BY <1>9, <2>1, LenProperties
<1>11. r[i] = e
  BY <1>7, <1>9
<1>12. \A j \in 1..n : j < i => r[j] = s[j]
  <2>. TAKE j \in 1..n
  <2>. HAVE j < i
  <2>1. j \in 1..m /\ j \in 1..i
    BY <1>0
  <2>. QED  BY <1>7, <1>9, <2>1
<1>13. \A j \in 1..n : j >= i => r[j + 1] = s[j]
  <2>. TAKE j \in 1..n
  <2>. HAVE j >= i
  <2>. DEFINE k == j - m
  <2>1. k \in 1..l /\ i + k = j + 1 /\ m + k = j
    BY <1>0
  <2>. HIDE DEF k
  <2>2. r[i + k] = s[m + k]
    BY <1>3, <1>9, <2>1
  <2>. QED  BY <2>1, <2>2
<1>. QED  BY <1>1, <1>10, <1>11, <1>12, <1>13 DEF IsInserted

(* A character that is skipped changes no symbol.                          *)
LEMMA SkippedIsFree ==
  ASSUME NEW C, NEW n \in Nat, NEW s \in [1..n -> C], NEW i \in 1..n
  PROVE  Symbols(InsertAt(s, i, Skipped)) = Symbols(s)
<1>. DEFINE E == C \cup {Skipped}
            r == InsertAt(s, i, Skipped)
            S == {s[j].symbol : j \in 1..n}
            H(c) == IF c.kind = "letter" THEN <<c.symbol>> ELSE <<>>
            g == [j \in 1..n |-> H(s[j])]
            h == [j \in 1..(n + 1) |-> H(r[j])]
<1>1. s \in [1..n -> E] /\ Skipped \in E
  OBVIOUS
<1>2. r \in [1..(n + 1) -> E] /\ IsInserted(r, s, n, i, Skipped)
  <2>. HIDE DEF E
  <2>. QED  BY <1>1, InsertedAt
<1>3. H(Skipped) = <<>>
  BY DEF Skipped, Char
<1>. HIDE DEF r
<1>4. Len(s) = n /\ Len(r) = n + 1
  BY <1>2
<1>5. Symbols(s) = FlattenSeq(g) /\ Symbols(r) = FlattenSeq(h)
  BY <1>4 DEF Symbols
<1>6. \A j \in 1..n : H(s[j]) \in Seq(S)
  <2>. TAKE j \in 1..n
  <2>. DEFINE e == s[j].symbol
  <2>1. e \in S
    OBVIOUS
  <2>2. H(s[j]) = IF s[j].kind = "letter" THEN <<e>> ELSE <<>>
    OBVIOUS
  <2>. HIDE DEF e, S, H
  <2>3. <<e>> \in Seq(S) /\ <<>> \in Seq(S)
    BY <2>1
  <2>. QED  BY <2>2, <2>3
<1>. HIDE DEF H, S
<1>7. \A j \in 1..(n + 1) : H(r[j]) \in Seq(S)
  <2>. TAKE j \in 1..(n + 1)
  <2>1. CASE j = i
    <3>1. H(r[j]) = <<>>
      BY <1>2, <1>3, <2>1 DEF IsInserted
    <3>. QED  BY <3>1
  <2>2. CASE j < i
    <3>1. j \in 1..n
      BY <2>2
    <3>. QED  BY <1>2, <1>6, <2>2, <3>1 DEF IsInserted
  <2>3. CASE j > i
    <3>1. j - 1 \in 1..n /\ j - 1 >= i /\ (j - 1) + 1 = j
      BY <2>3
    <3>2. r[j] = s[j - 1]
      BY <1>2, <3>1 DEF IsInserted
    <3>. QED  BY <1>6, <3>1, <3>2
  <2>. QED  BY <2>1, <2>2, <2>3
<1>8. g \in [1..n -> Seq(S)] /\ h \in [1..(n + 1) -> Seq(S)]
  BY <1>6, <1>7
<1>9. EmptyAt(h, g, n, i)
  <2>1. i \in 1..(n + 1) /\ \A j \in 1..n : j \in 1..(n + 1) /\ j + 1 \in 1..(n + 1)
    OBVIOUS
  <2>2. /\ \A j \in 1..(n + 1) : h[j] = H(r[j])
        /\ \A j \in 1..n : g[j] = H(s[j])
    OBVIOUS
  <2>. HIDE DEF g, h
  <2>. QED  BY <1>2, <1>3, <2>1, <2>2 DEF IsInserted, EmptyAt
<1>. HIDE DEF g, h
<1>10. FlattenSeq(h) = FlattenSeq(g)
  BY <1>8, <1>9, EmptyJoins, ZenonT(30)
<1>. QED  BY <1>5, <1>10 DEF r

-----------------------------------------------------------------------------
(* Text written and read.                                                  *)
Frames == {Bare} \cup {Guarded(p) : p \in Parities} \cup {InSymbols(a) : a \in Alphabets}

(* What documents are.                                                     *)
LEMMA DocumentIs ==
  ASSUME NEW d \in Documents
  PROVE  /\ d \in Seq(Bytes) /\ Len(d) \in Nat /\ Len(d) < Power(Radix, LengthBytes)
         /\ d \in [1..Len(d) -> Bytes] /\ d \in [1..Len(d) -> 0..(Radix - 1)]
<1>1. d \in Seq(Bytes) /\ Len(d) < Power(Radix, LengthBytes) /\ Bytes \subseteq 0..(Radix - 1)
  BY PaperAssumption DEF Bytes
<1>2. Len(d) \in Nat /\ d \in [1..Len(d) -> Bytes]
  BY <1>1, LenProperties
<1>. DEFINE n == Len(d)
            R == 0..(Radix - 1)
<1>. HIDE DEF n, R
<1>3. d \in [1..n -> R]
  <2>1. d \in [1..n -> Bytes] /\ Bytes \subseteq R
    BY <1>1, <1>2 DEF n, R
  <2>. QED  BY <2>1
<1>. QED  BY <1>1, <1>2, <1>3 DEF n, R

(* A protected document without errors is recovered.                       *)
LEMMA ProtectedRecovers ==
  ASSUME NEW d \in Documents, NEW p \in Nat, p <= MaxParity
  PROVE  /\ recover(protect(d, p)) = Some(d)
         /\ protect(d, p) \in Seq(Bytes)
         /\ \E n \in Nat \ {0} : protect(d, p) \in [1..n -> Bytes]
<1>. DEFINE cells == protect(d, p)
            c == Clamp(p)
            C == Bytes
<1>1. d \in Seq(Bytes) /\ Len(d) < Power(Radix, LengthBytes)
  BY DocumentIs
<1>2. c \in 2..MaxParity
  BY Clamped
<1>3. cells = Laid(d, c)
  BY ProtectIs
<1>. HIDE DEF cells, c
<1>4. Layout(cells, d, c)
  BY <1>1, <1>2, <1>3, LaidOut
<1>. HIDE DEF C
<1>5. cells \in Seq(C) /\ HeaderSize <= Len(cells) /\ Len(cells) \in Nat
  BY <1>4 DEF Layout, C
<1>6. HeaderFixes \in Nat /\ HeaderSize \in Nat \ {0} /\ c \div 2 \in Nat
  BY <1>2, Codes
<1>7. WithinTheBound(cells, cells, d, c)
  <2>1. \A n : Errors(cells, cells, n) = {}
    BY DEF Errors
  <2>2. \A b : BlockErrors(cells, cells, d, c, b) = {}
    BY DEF BlockErrors
  <2>3. Cardinality({}) = 0
    BY FS_EmptySet
  <2>4. 0 <= HeaderFixes /\ 0 <= c \div 2
    BY <1>6
  <2>. QED  BY <2>1, <2>2, <2>3, <2>4, Zenon DEF WithinTheBound
<1>8. recover(cells) = Some(d)
  <2>1. Len(cells) <= Len(cells)
    BY <1>5
  <2>. QED  BY <1>1, <1>2, <1>3, <1>5, <1>7, <2>1, Recovers
<1>9. Len(cells) \in Nat \ {0} /\ cells \in [1..Len(cells) -> C]
  BY <1>5, <1>6, LenProperties
<1>. QED  BY <1>5, <1>8, <1>9 DEF cells, C

(* The three kinds of text.                                                *)
LEMMA FrameIs ==
  ASSUME NEW f \in Frames
  PROVE  \/ f = Bare /\ f.kind = "bare"
         \/ f.kind = "guarded" /\ f.parity \in Nat /\ f # Bare
         \/ /\ f.kind = "symbols" /\ f # Bare
            /\ f.alphabet \in Seq(Range(f.alphabet)) /\ Len(f.alphabet) < Word
<1>1. CASE f = Bare
  BY <1>1 DEF Bare, Frame
<1>2. ASSUME NEW p \in Parities, f = Guarded(p)
      PROVE  f.kind = "guarded" /\ f.parity \in Nat /\ f # Bare
  <2>1. p \in Nat
    BY PaperAssumption
  <2>2. f.kind = "guarded" /\ f.parity = p /\ Bare.kind = "bare"
    BY <1>2 DEF Guarded, Bare, Frame
  <2>. QED  BY <2>1, <2>2
<1>3. ASSUME NEW a \in Alphabets, f = InSymbols(a)
      PROVE  /\ f.kind = "symbols" /\ f # Bare
             /\ f.alphabet \in Seq(Range(f.alphabet)) /\ Len(f.alphabet) < Word
  <2>1. a \in Seq(Range(a)) /\ Len(a) < Word
    BY PaperAssumption
  <2>2. f.kind = "symbols" /\ f.alphabet = a /\ Bare.kind = "bare"
    BY <1>3 DEF InSymbols, Bare, Frame
  <2>. QED  BY <2>1, <2>2
<1>4. \/ f = Bare
      \/ \E p \in Parities : f = Guarded(p)
      \/ \E a \in Alphabets : f = InSymbols(a)
  BY DEF Frames
<1>. QED  BY <1>1, <1>2, <1>3, <1>4

(* Text without a character that could be another.                         *)
Legible(t) ==
  t \in Seq(Range(t)) /\ \A i \in 1..Len(t) : t[i].kind = "letter" \/ t[i].kind = "skipped"

AllLetters(t) ==
  Legible(t) /\ \A i \in 1..Len(t) : t[i].kind = "letter"

LEMMA LettersAreLegible ==
  ASSUME NEW n \in Nat, NEW x
  PROVE  AllLetters(LettersFor(x, n)) /\ Len(LettersFor(x, n)) = n
<1>. DEFINE t == LettersFor(x, n)
<1>1. t = [i \in 1..n |-> Letter(x[i])]
  BY DEF LettersFor
<1>. HIDE DEF t
<1>2. \A i \in 1..n : Letter(x[i]).kind = "letter"
  BY DEF Letter, Char
<1>3. DOMAIN t = 1..n /\ \A i \in 1..n : t[i].kind = "letter" /\ t[i] \in Range(t)
  BY <1>1, <1>2 DEF Range
<1>4. t \in [1..n -> Range(t)]
  BY <1>1, <1>3
<1>5. t \in Seq(Range(t)) /\ Len(t) = n
  BY <1>4
<1>. QED  BY <1>3, <1>5 DEF AllLetters, Legible, t

(* The stream that Base32 is the text of.                                  *)
StreamOf(d, f) == IF f.kind = "guarded" THEN protect(d, f.parity) ELSE d

IsWritten(t, x) ==
  \E n \in Nat : DOMAIN x = 1..n /\ x \in [1..n -> Range(x)] /\ t = LettersFor(x, n)

LEMMA Base32Written ==
  ASSUME NEW d \in Documents, NEW f \in Frames, f.kind # "symbols", write_text(d, f).status = "ok"
  PROVE  /\ Recodes(StreamOf(d, f)) /\ (StreamOf(d, f) = <<>> => f = Bare /\ d = <<>>)
         /\ IsWritten(write_text(d, f).data, a_cinco_bits(StreamOf(d, f)))
         /\ f.kind = "guarded" => f.parity \in Nat /\ f.parity <= MaxParity
<1>. DEFINE s == StreamOf(d, f)
            x == a_cinco_bits(s)
            n == Len(d)
<1>1. /\ write_text(d, f) = escribir(d, f)
      /\ escribir(d, f).status = "ok"
  BY DEF write_text
<1>2. ASSUME f.kind = "guarded" PROVE f.parity \in Nat /\ f.parity <= MaxParity
  <2>1. f.parity \in Nat
    BY <1>2, FrameIs DEF Bare, Frame
  <2>2. ~(f.parity > MaxParity)
    <3>. SUFFICES ASSUME f.parity > MaxParity PROVE FALSE
      OBVIOUS
    <3>1. escribir(d, f) = TypedError("parity")
      BY <1>2 DEF escribir
    <3>2. TypedError("parity").status = "parity"
      BY DEF TypedError
    <3>. QED  BY <1>1, <3>1, <3>2
  <2>3. MaxParity \in Nat
    BY EccAssumption
  <2>. QED  BY <2>1, <2>2, <2>3
<1>3. escribir(d, f) = TypedOk([i \in 1..Len(x) |-> Letter(x[i])])
  <2>1. ~(f.kind = "guarded" /\ f.parity > MaxParity)
    <3>1. MaxParity \in Nat
      BY EccAssumption
    <3>. QED  BY <1>2, <3>1
  <2>. QED  BY <2>1 DEF escribir, StreamOf
<1>4. n \in Nat /\ d \in [1..n -> Bytes]
  BY DocumentIs
<1>5. Recodes(s) /\ (s = <<>> => f = Bare /\ d = <<>>)
  <2>1. CASE f.kind = "guarded"
    <3>1. f.parity \in Nat /\ f.parity <= MaxParity
      BY <1>2, <2>1
    <3>. DEFINE c == protect(d, f.parity)
    <3>2. \E m \in Nat \ {0} : c \in [1..m -> Bytes]
      BY <3>1, ProtectedRecovers
    <3>3. s = c
      BY <2>1 DEF StreamOf
    <3>. HIDE DEF c, s
    <3>4. PICK m \in Nat \ {0} : c \in [1..m -> Bytes]
      BY <3>2
    <3>5. Recodes(c)
      <4>1. m \in Nat
        OBVIOUS
      <4>. QED  BY <3>4, <4>1, Base32Recodes
    <3>6. c # <<>>
      <4>1. Len(c) = m /\ m # 0
        BY <3>4
      <4>2. Len(<<>>) = 0
        OBVIOUS
      <4>. QED  BY <4>1, <4>2
    <3>. QED  BY <3>3, <3>5, <3>6
  <2>2. CASE f.kind # "guarded"
    <3>1. s = d
      BY <2>2 DEF StreamOf
    <3>2. f = Bare
      BY <2>2, FrameIs
    <3>. HIDE DEF s, n
    <3>3. Recodes(s)
      BY <1>4, <3>1, Base32Recodes
    <3>. QED  BY <3>1, <3>2, <3>3
  <2>. QED  BY <2>1, <2>2
<1>6. IsWritten(write_text(d, f).data, x)
  <2>. HIDE DEF s
  <2>1. PICK k \in Nat : DOMAIN x = 1..k /\ x \in [1..k -> Range(x)]
    BY <1>5 DEF Recodes
  <2>. HIDE DEF x
  <2>2. Len(x) = k
    BY <2>1
  <2>3. write_text(d, f).data = [i \in 1..Len(x) |-> Letter(x[i])]
    BY <1>1, <1>3 DEF TypedOk
  <2>4. write_text(d, f).data = LettersFor(x, k)
    BY <2>2, <2>3 DEF LettersFor
  <2>. QED  BY <2>1, <2>4 DEF IsWritten
<1>. QED  BY <1>2, <1>5, <1>6

(* Text in Base32 that has the symbols written is read as the document.    *)
LEMMA Base32Read ==
  ASSUME NEW d \in Documents, NEW f \in Frames, f.kind # "symbols", write_text(d, f).status = "ok",
         NEW t, Legible(t), Symbols(t) = Symbols(write_text(d, f).data),
         ~(f = Bare /\ d = <<>>)
  PROVE  read_text(t, f) = TypedOk(d)
<1>. DEFINE s == StreamOf(d, f)
            x == a_cinco_bits(s)
<1>1. /\ Recodes(s) /\ s # <<>>
      /\ IsWritten(write_text(d, f).data, x)
      /\ f.kind = "guarded" => f.parity \in Nat /\ f.parity <= MaxParity
  BY Base32Written
<1>. HIDE DEF s
<1>2. PICK k \in Nat : DOMAIN x = 1..k /\ x \in [1..k -> Range(x)] /\ write_text(d, f).data = LettersFor(x, k)
  BY <1>1 DEF IsWritten
<1>3. Symbols(t) = x
  <2>. HIDE DEF x
  <2>. DEFINE V == Range(x)
  <2>1. x \in [1..k -> V]
    BY <1>2
  <2>. HIDE DEF V
  <2>2. Symbols(LettersFor(x, k)) = x
    BY <1>2, <2>1, LettersAreRead
  <2>. QED  BY <1>2, <2>2
<1>4. x # <<>>
  <2>1. PICK m \in Nat : DOMAIN x = 1..m /\ m # 0
    BY <1>1 DEF Recodes
  <2>2. 1 \in DOMAIN x
    BY <2>1
  <2>. HIDE DEF x
  <2>. QED  BY <2>2
<1>5. de_cinco_bits(Symbols(t)) = s
  BY <1>1, <1>3 DEF Recodes
<1>6. ~\E i \in 1..Len(t) : t[i].kind = "unclear"
  BY DEF Legible
<1>. HIDE DEF x
<1>7. /\ read_text(t, f) = leer(t, f)
  BY DEF read_text
<1>8. leer(t, f) = IF f.kind = "bare" THEN TypedOk(s)
                   ELSE IF recover(s).ok THEN TypedOk(recover(s).data)
                   ELSE TypedError("unrecovered")
  BY <1>3, <1>4, <1>5, <1>6 DEF leer
<1>9. CASE f.kind = "guarded"
  <2>1. s = protect(d, f.parity)
    BY <1>9 DEF s, StreamOf
  <2>. DEFINE p == f.parity
  <2>2. p \in Nat /\ p <= MaxParity
    BY <1>1, <1>9
  <2>. HIDE DEF p
  <2>3. recover(protect(d, p)) = Some(d)
    BY <2>2, ProtectedRecovers
  <2>4. recover(s) = Some(d)
    BY <2>1, <2>3 DEF p
  <2>5. Some(d).ok = TRUE /\ Some(d).data = d
    BY DEF Some
  <2>. QED  BY <1>7, <1>8, <1>9, <2>4, <2>5
<1>10. CASE f.kind # "guarded"
  <2>1. s = d
    BY <1>10 DEF s, StreamOf
  <2>2. f.kind = "bare"
    BY <1>10, FrameIs
  <2>. QED  BY <1>7, <1>8, <2>1, <2>2
<1>. QED  BY <1>9, <1>10

(* Text in symbols of a dictionary is read as the document.                *)
LEMMA DictionaryRead ==
  ASSUME NEW d \in Documents, NEW f \in Frames, f.kind = "symbols", write_text(d, f).status = "ok"
  PROVE  /\ AllLetters(write_text(d, f).data)
         /\ read_text(write_text(d, f).data, f) = TypedOk(d)
<1>. DEFINE a == f.alphabet
            e == encode_base_n(d, Len(a))
            s == dictionary_encode(a, e)
            t == write_text(d, f).data
            n == Len(d)
            S == Range(a)
<1>1. a \in Seq(S) /\ Len(a) < Word
  BY FrameIs DEF Bare, Frame
<1>2. DictionaryAccepts(a)
  <2>. SUFFICES ASSUME ~DictionaryAccepts(a) PROVE FALSE
    OBVIOUS
  <2>1. write_text(d, f) = PaperError("dictionary")
    BY DEF write_text
  <2>2. PaperError("dictionary").status = "dictionary"
    BY DEF PaperError
  <2>. QED  BY <2>1, <2>2
<1>3. write_text(d, f) = TypedOk([i \in 1..Len(s) |-> Letter(s[i])])
  BY <1>2 DEF write_text
<1>4. n \in Nat /\ d \in [1..n -> 0..(Radix - 1)]
  BY DocumentIs
<1>5. Len(s) \in Nat
  <2>. DEFINE base == Len(a)
  <2>1. base \in Nat \ {0, 1} /\ base < Word
    <3>1. Len(a) \in Nat
      BY <1>1, LenProperties
    <3>2. Len(a) >= 2
      BY <1>2, Zenon DEF DictionaryAccepts
    <3>3. Len(a) < Word
      BY <1>1
    <3>. HIDE DEF base
    <3>4. base \in Nat /\ base >= 2 /\ base < Word
      BY <3>1, <3>2, <3>3 DEF base
    <3>. QED  BY <3>4
  <2>2. d \in DigitsIn(n, Radix)
    BY <1>4 DEF DigitsIn
  <2>. HIDE DEF base, n
  <2>3. PICK m \in Nat : encode_base_n(d, base) \in DigitsIn(m, base)
    BY <1>4, <2>1, <2>2, EncodedIs
  <2>4. Len(encode_base_n(d, base)) = m
    BY <2>3 DEF DigitsIn
  <2>5. s = [i \in 1..m |-> a[e[i] + 1]]
    BY <2>4 DEF dictionary_encode, base
  <2>. HIDE DEF s
  <2>6. Len(s) = m
    BY <2>3, <2>5
  <2>. QED  BY <2>6
<1>6. /\ \A i \in 1..Len(s) : s[i] \in Range(a)
      /\ decode_base_n([i \in 1..Len(s) |-> dictionary_index(a, s[i])], Len(a)) = d
  <2>. HIDE DEF a, n, S
  <2>. QED  BY <1>1, <1>2, <1>4, SymbolsDecode
<1>. HIDE DEF s
<1>7. t = LettersFor(s, Len(s))
  BY <1>3 DEF TypedOk, LettersFor
<1>. HIDE DEF t
<1>8. AllLetters(t) /\ Len(t) = Len(s)
  <2>. DEFINE m == Len(s)
  <2>1. m \in Nat
    BY <1>5
  <2>. HIDE DEF m
  <2>2. AllLetters(LettersFor(s, m)) /\ Len(LettersFor(s, m)) = m
    BY <2>1, LettersAreLegible
  <2>. QED  BY <1>7, <2>2 DEF m
<1>9. \A i \in 1..Len(s) : t[i].kind = "letter" /\ t[i].symbol = s[i]
  BY <1>7 DEF LettersFor, Letter, Char
<1>10. ~\E i \in 1..Len(t) : t[i].kind # "letter" \/ t[i].symbol \notin Range(f.alphabet)
  BY <1>6, <1>8, <1>9
<1>11. [i \in 1..Len(t) |-> dictionary_index(f.alphabet, t[i].symbol)]
         = [i \in 1..Len(s) |-> dictionary_index(f.alphabet, s[i])]
  BY <1>8, <1>9
<1>12. read_text(t, f) = TypedOk(decode_base_n(
                           [i \in 1..Len(t) |-> dictionary_index(f.alphabet, t[i].symbol)], Len(f.alphabet)))
  BY <1>10 DEF read_text
<1>13. read_text(t, f) = TypedOk(d)
  BY <1>6, <1>11, <1>12
<1>. QED  BY <1>8, <1>13 DEF t

(* What is written is letters.                                             *)
LEMMA WrittenIsLetters ==
  ASSUME NEW d \in Documents, NEW f \in Frames, write_text(d, f).status = "ok"
  PROVE  AllLetters(write_text(d, f).data)
<1>1. CASE f.kind = "symbols"
  BY <1>1, DictionaryRead
<1>2. CASE f.kind # "symbols"
  <2>. DEFINE x == a_cinco_bits(StreamOf(d, f))
  <2>1. IsWritten(write_text(d, f).data, x)
    BY <1>2, Base32Written
  <2>. HIDE DEF x
  <2>2. PICK k \in Nat : write_text(d, f).data = LettersFor(x, k)
    BY <2>1 DEF IsWritten
  <2>. QED  BY <2>2, LettersAreLegible
<1>. QED  BY <1>1, <1>2

(* An unclear character is not guessed, nor a space that a dictionary has  *)
(* not.                                                                    *)
LEMMA UnclearIsRefused ==
  ASSUME NEW t, NEW f, NEW i \in 1..Len(t),
         t[i].kind = "unclear" \/ (f.kind = "symbols" /\ t[i].kind = "skipped")
  PROVE  read_text(t, f) = TypedError("character")
<1>1. t[i].kind # "letter"
  OBVIOUS
<1>2. CASE f.kind = "symbols"
  BY <1>1, <1>2 DEF read_text
<1>3. CASE f.kind # "symbols"
  <2>1. t[i].kind = "unclear"
    BY <1>3
  <2>2. leer(t, f) = TypedError("character")
    BY <2>1 DEF leer
  <2>. QED  BY <1>3, <2>2 DEF read_text
<1>. QED  BY <1>2, <1>3

-----------------------------------------------------------------------------
(* What is typed of a document: a text written from it; one in which only  *)
(* spaces were added still has its symbols, and one of which a character   *)
(* became unclear has that; and what was read last is what it reads as.    *)
OnlySpaced == \A s \in Range(slips) : s = "spaced"

Written(t) == write_text(t.document, t.frame)

Origin ==
  text # NoText =>
    text.document \in Documents /\ text.frame \in Frames /\ Written(text).status = "ok"

StillSaysIt(t) ==
  /\ Legible(t.characters)
  /\ Symbols(t.characters) = Symbols(Written(t).data)

Kept ==
  text # NoText /\ OnlySpaced =>
    /\ StillSaysIt(text)
    /\ slips = <<>> => text.characters = Written(text).data
    /\ slips # <<>> => \E i \in 1..Len(text.characters) : text.characters[i].kind = "skipped"

Doubtful ==
  text # NoText /\ slips = <<"unclear">> =>
    \E i \in 1..Len(text.characters) : text.characters[i].kind = "unclear"

TextIsRead ==
  text # NoText /\ outcome # NotRead => outcome = read_text(text.characters, text.frame)

TextInv == Origin /\ Kept /\ Doubtful /\ TextIsRead

LEMMA InitText == Init => TextInv
BY DEF Init, TextInv, Origin, Kept, Doubtful, TextIsRead

(* What leaves the text and the slips as they are.                         *)
LEMMA TextStays ==
  ASSUME TextInv, UNCHANGED <<text, slips>>,
         outcome' = NotRead \/ text = NoText \/ outcome' = read_text(text.characters, text.frame)
  PROVE  TextInv'
<1>1. Origin'
  BY DEF TextInv, Origin, Written
<1>2. Kept'
  BY DEF TextInv, Kept, OnlySpaced, StillSaysIt, Written
<1>3. Doubtful'
  BY DEF TextInv, Doubtful
<1>4. TextIsRead'
  BY DEF TextInv, TextIsRead
<1>. QED  BY <1>1, <1>2, <1>3, <1>4 DEF TextInv

(* Slips are noted one after the other.                                    *)
LEMMA SpaceNoted ==
  ASSUME slips \in Seq(SlipNames), NEW t \in SlipNames, slips' = Append(slips, t)
  PROVE  /\ slips' # <<>>
         /\ OnlySpaced' => OnlySpaced /\ t = "spaced"
         /\ \A u : slips' = <<u>> => slips = <<>> /\ t = u
<1>1. /\ slips' \in Seq(SlipNames) /\ Len(slips') = Len(slips) + 1 /\ Len(slips) \in Nat
      /\ slips'[Len(slips) + 1] = t /\ \A i \in 1..Len(slips) : slips'[i] = slips[i]
      /\ DOMAIN slips' = 1..(Len(slips) + 1) /\ DOMAIN slips = 1..Len(slips)
  OBVIOUS
<1>2. t \in Range(slips')
  BY <1>1 DEF Range
<1>3. Range(slips) \subseteq Range(slips')
  BY <1>1 DEF Range
<1>4. OnlySpaced' => OnlySpaced /\ t = "spaced"
  BY <1>2, <1>3 DEF OnlySpaced
<1>5. slips' # <<>>
  BY <1>1
<1>6. \A u : slips' = <<u>> => slips = <<>> /\ t = u
  <2>. SUFFICES ASSUME NEW u, slips' = <<u>> PROVE slips = <<>> /\ t = u
    OBVIOUS
  <2>1. Len(slips') = 1 /\ slips'[1] = u
    OBVIOUS
  <2>2. Len(slips) = 0
    BY <1>1, <2>1
  <2>3. slips = <<>>
    BY <2>2, EmptySeq
  <2>. QED  BY <1>1, <2>1, <2>2, <2>3
<1>. QED  BY <1>4, <1>5, <1>6

(* The slips that are a space, an unclear character and a wrong one.       *)
LEMMA SlipMakes ==
  ASSUME NEW c, NEW i, NEW L, NEW s \in Slips(c, i, L)
  PROVE  /\ s[1] \in SlipNames
         /\ s[1] = "spaced" => s[2] = InsertAt(c, i, Skipped)
         /\ s[1] = "unclear" => s[2] = ReplaceAt(c, i, Unclear)
         /\ s[1] = "wrong" => \E l \in L : s[2] = ReplaceAt(c, i, l)
<1>1. \/ \E l \in L : s = <<"wrong", ReplaceAt(c, i, l)>>
      \/ \E l \in L : s = <<"added", InsertAt(c, i, l)>>
      \/ s = <<"dropped", RemoveAt(c, i)>>
      \/ s = <<"unclear", ReplaceAt(c, i, Unclear)>>
      \/ s = <<"spaced", InsertAt(c, i, Skipped)>>
      \/ s = <<"repeated", InsertAt(c, i, c[i])>>
  BY DEF Slips
<1>2. \/ s[1] \in {"dropped", "added", "repeated"}
      \/ s[1] = "wrong" /\ \E l \in L : s[2] = ReplaceAt(c, i, l)
      \/ s[1] = "unclear" /\ s[2] = ReplaceAt(c, i, Unclear)
      \/ s[1] = "spaced" /\ s[2] = InsertAt(c, i, Skipped)
  BY <1>1
<1>. QED  BY <1>2 DEF SlipNames

(* A space added to a text that says what was written leaves it saying it. *)
LEMMA SpaceAdded ==
  ASSUME NEW c, Legible(c), NEW i \in 1..Len(c)
  PROVE  /\ Legible(InsertAt(c, i, Skipped)) /\ Symbols(InsertAt(c, i, Skipped)) = Symbols(c)
         /\ \E j \in 1..Len(InsertAt(c, i, Skipped)) : InsertAt(c, i, Skipped)[j].kind = "skipped"
<1>. DEFINE n == Len(c)
            C == Range(c)
            E == C \cup {Skipped}
            r == InsertAt(c, i, Skipped)
<1>1. n \in Nat /\ c \in [1..n -> C]
  <2>1. c \in Seq(Range(c))
    BY DEF Legible
  <2>. HIDE DEF C
  <2>. QED  BY <2>1, LenProperties DEF C
<1>2. \A j \in 1..n : c[j].kind = "letter" \/ c[j].kind = "skipped"
  BY DEF Legible
<1>. HIDE DEF n, C
<1>3. i \in 1..n
  BY DEF n
<1>4. Symbols(r) = Symbols(c)
  BY <1>1, <1>3, SkippedIsFree
<1>5. r \in [1..(n + 1) -> E] /\ IsInserted(r, c, n, i, Skipped)
  <2>1. c \in [1..n -> E] /\ Skipped \in E
    BY <1>1
  <2>. HIDE DEF E
  <2>. QED  BY <1>1, <1>3, <2>1, InsertedAt
<1>6. Skipped.kind = "skipped"
  BY DEF Skipped, Char
<1>. HIDE DEF r, E
<1>7. Len(r) = n + 1 /\ DOMAIN r = 1..(n + 1) /\ r \in Seq(Range(r))
  <2>1. \A j \in 1..(n + 1) : r[j] \in Range(r)
    BY <1>1, <1>5 DEF Range
  <2>2. r \in [1..(n + 1) -> Range(r)]
    BY <1>5, <2>1
  <2>. QED  BY <1>1, <1>5, <2>2
<1>8. ASSUME NEW j \in 1..(n + 1) PROVE r[j].kind = "letter" \/ r[j].kind = "skipped"
  <2>1. CASE j = i
    BY <1>5, <1>6, <2>1 DEF IsInserted
  <2>2. CASE j < i
    <3>1. j \in 1..n
      BY <1>1, <1>3, <2>2
    <3>. QED  BY <1>2, <1>5, <2>2, <3>1 DEF IsInserted
  <2>3. CASE j > i
    <3>1. j - 1 \in 1..n /\ j - 1 >= i /\ (j - 1) + 1 = j
      BY <1>1, <1>3, <2>3
    <3>2. r[j] = c[j - 1]
      BY <1>5, <3>1 DEF IsInserted
    <3>. QED  BY <1>2, <3>1, <3>2
  <2>. QED  BY <1>1, <1>3, <2>1, <2>2, <2>3
<1>9. Legible(r)
  BY <1>7, <1>8 DEF Legible
<1>10. i \in 1..Len(r) /\ r[i].kind = "skipped"
  BY <1>1, <1>3, <1>5, <1>6, <1>7 DEF IsInserted
<1>. QED  BY <1>4, <1>9, <1>10 DEF r

LEMMA NextText == WordsInv /\ TextInv /\ [Next]_vars => TextInv'
<1>. SUFFICES ASSUME WordsInv, TextInv, [Next]_vars PROVE TextInv'
  OBVIOUS
<1>0. Slipped
  BY DEF WordsInv
<1>1. ASSUME NEW c \in Copies, NEW d \in Documents, NEW n \in Capacities, NEW p \in Parities,
             PrintSymbols(c, d, n, p)
      PROVE  TextInv'
  <2>1. text = NoText /\ UNCHANGED <<text, slips>>
    BY <1>1 DEF PrintSymbols, Blank
  <2>. QED  BY <2>1, TextStays
<1>2. ASSUME NEW c \in Copies, NEW j \in 1..MaxSymbols, Scan(c, j)
      PROVE  TextInv'
  BY <1>2, TextStays DEF Scan
<1>3. ASSUME NEW s \in Strays, ScanStray(s)
      PROVE  TextInv'
  BY <1>3, TextStays DEF ScanStray
<1>4. ASSUME NEW s \in hand, ScanAgain(s)
      PROVE  TextInv'
  BY <1>4, TextStays DEF ScanAgain
<1>5. ASSUME ReadSymbols
      PROVE  TextInv'
  <2>1. text = NoText /\ UNCHANGED <<text, slips>>
    BY <1>5 DEF ReadSymbols, Blank
  <2>. QED  BY <2>1, TextStays
<1>6. ASSUME NEW d \in Documents, NEW f \in Frames, Type(d, f)
      PROVE  TextInv'
  <2>. DEFINE r == write_text(d, f)
  <2>1. r.status = "ok" => AllLetters(r.data)
    BY WrittenIsLetters
  <2>2. /\ Blank /\ UNCHANGED slips
        /\ outcome' = IF r.status = "ok" THEN NotRead ELSE r
        /\ text' = IF r.status # "ok" THEN NoText ELSE [document |-> d, frame |-> f, characters |-> r.data]
    BY <1>6 DEF Type
  <2>3. slips = <<>> /\ slips' = <<>>
    BY <1>0, <2>2 DEF Slipped
  <2>4. <<>> # <<"unclear">>
    OBVIOUS
  <2>5. CASE r.status # "ok"
    <3>1. text' = NoText
      BY <2>2, <2>5
    <3>. QED  BY <3>1 DEF TextInv, Origin, Kept, Doubtful, TextIsRead
  <2>6. CASE r.status = "ok"
    <3>. HIDE DEF r
    <3>1. /\ text'.document = d /\ text'.frame = f /\ text'.characters = r.data
          /\ outcome' = NotRead
      BY <2>2, <2>6
    <3>2. Written(text)' = r
      BY <3>1 DEF Written, r
    <3>3. Origin'
      BY <2>6, <3>1, <3>2 DEF Origin
    <3>4. Kept'
      BY <2>1, <2>3, <2>6, <3>1, <3>2 DEF Kept, StillSaysIt, AllLetters
    <3>5. Doubtful' /\ TextIsRead'
      BY <2>3, <2>4, <3>1 DEF Doubtful, TextIsRead
    <3>. QED  BY <3>3, <3>4, <3>5 DEF TextInv
  <2>. QED  BY <2>5, <2>6
<1>7. ASSUME NEW i \in 1..(Len(text.characters)), Slip(i)
      PROVE  TextInv'
  <2>. DEFINE c == text.characters
  <2>1. /\ text # NoText /\ outcome' = NotRead
        /\ \E s \in Slips(c, i, Letters(text.frame)) :
             /\ text' = [text EXCEPT !.characters = s[2]]
             /\ slips' = Append(slips, s[1])
    BY <1>7 DEF Slip
  <2>2. PICK s \in Slips(c, i, Letters(text.frame)) :
             /\ text' = [text EXCEPT !.characters = s[2]]
             /\ slips' = Append(slips, s[1])
    BY <2>1
  <2>3. /\ text'.document = text.document /\ text'.frame = text.frame /\ text'.characters = s[2]
    <3>. DEFINE d == text.document
                f == text.frame
    <3>1. text = [document |-> d, frame |-> f, characters |-> c]
      BY <1>0 DEF Slipped
    <3>. HIDE DEF d, f, c
    <3>2. text' = [document |-> d, frame |-> f, characters |-> s[2]]
      BY <2>2, <3>1
    <3>. QED  BY <3>2 DEF d, f
  <2>. HIDE DEF c
  <2>4. /\ s[1] \in SlipNames
        /\ s[1] = "spaced" => s[2] = InsertAt(c, i, Skipped)
        /\ s[1] = "unclear" => s[2] = ReplaceAt(c, i, Unclear)
    BY SlipMakes
  <2>5. slips \in Seq(SlipNames)
    BY <1>0 DEF Slipped
  <2>6. /\ slips' # <<>>
        /\ OnlySpaced' => OnlySpaced /\ s[1] = "spaced"
        /\ slips' = <<"unclear">> => slips = <<>> /\ s[1] = "unclear"
    BY <2>2, <2>4, <2>5, SpaceNoted
  <2>7. i \in 1..Len(c)
    BY DEF c
  <2>8. OnlySpaced => Legible(c) /\ Symbols(c) = Symbols(Written(text).data)
    BY <2>1 DEF TextInv, Kept, StillSaysIt, c
  <2>9. Written(text)' = Written(text)
    BY <2>3 DEF Written
  <2>10. Origin'
    BY <2>1, <2>3, <2>9 DEF TextInv, Origin
  <2>11. Kept'
    <3>. SUFFICES ASSUME OnlySpaced'
                  PROVE  /\ StillSaysIt(text)'
                         /\ \E j \in 1..Len(text'.characters) : text'.characters[j].kind = "skipped"
      BY <2>6 DEF Kept
    <3>. DEFINE r == InsertAt(c, i, Skipped)
    <3>1. OnlySpaced /\ text'.characters = r
      BY <2>3, <2>4, <2>6
    <3>2. /\ Legible(r) /\ Symbols(r) = Symbols(c)
          /\ \E j \in 1..Len(r) : r[j].kind = "skipped"
      BY <2>7, <2>8, <3>1, SpaceAdded
    <3>. HIDE DEF r
    <3>. QED  BY <2>8, <2>9, <3>1, <3>2 DEF StillSaysIt
  <2>12. Doubtful'
    <3>. SUFFICES ASSUME slips' = <<"unclear">>
                  PROVE  \E j \in 1..Len(text'.characters) : text'.characters[j].kind = "unclear"
      BY DEF Doubtful
    <3>1. slips = <<>> /\ text'.characters = [c EXCEPT ![i] = Unclear]
      BY <2>3, <2>4, <2>6 DEF ReplaceAt
    <3>2. OnlySpaced
      BY <3>1 DEF OnlySpaced, Range
    <3>3. c \in Seq(Range(c))
      BY <2>8, <3>2 DEF Legible
    <3>4. Len(text'.characters) = Len(c) /\ text'.characters[i] = Unclear
      <4>. DEFINE C == Range(c)
      <4>1. c \in Seq(C)
        BY <3>3
      <4>. HIDE DEF C
      <4>. QED  BY <2>7, <3>1, <4>1
    <3>5. Unclear.kind = "unclear"
      BY DEF Unclear, Char
    <3>. QED  BY <2>7, <3>4, <3>5
  <2>13. TextIsRead'
    BY <2>1 DEF TextIsRead
  <2>. QED  BY <2>10, <2>11, <2>12, <2>13 DEF TextInv
<1>8. ASSUME ReadText
      PROVE  TextInv'
  BY <1>8, TextStays DEF ReadText
<1>9. ASSUME NEW s \in Secrets, WriteWords(s)
      PROVE  TextInv'
  BY <1>9, TextStays DEF WriteWords
<1>10. ASSUME NEW i \in 1..Len(phrase.words), WordSlip(i)
       PROVE  TextInv'
  <2>1. phrase # NoPhrase /\ text' = text
    BY <1>10 DEF WordSlip
  <2>2. text' = NoText
    BY <1>0, <2>1 DEF Slipped
  <2>. QED  BY <2>2 DEF TextInv, Origin, Kept, Doubtful, TextIsRead
<1>11. ASSUME ReadWords
       PROVE  TextInv'
  <2>1. phrase # NoPhrase /\ UNCHANGED <<text, slips>>
    BY <1>11 DEF ReadWords
  <2>2. text = NoText
    BY <1>0, <2>1 DEF Slipped
  <2>. QED  BY <2>1, <2>2, TextStays
<1>12. ASSUME UNCHANGED vars
       PROVE  TextInv'
  <2>1. UNCHANGED <<text, slips, outcome>>
    BY <1>12 DEF vars
  <2>2. outcome' = NotRead \/ text = NoText \/ outcome' = read_text(text.characters, text.frame)
    BY <2>1 DEF TextInv, TextIsRead
  <2>. QED  BY <2>1, <2>2, TextStays
<1>. QED  BY <1>1, <1>2, <1>3, <1>4, <1>5, <1>6, <1>7, <1>8, <1>9, <1>10, <1>11, <1>12 DEF Next, Frames

LEMMA TextAlways == Spec => []TextInv
BY InitText, NextText, WordsAlways, PTL DEF Spec

(* A text to which nothing happened, or nothing but spaces in Base32, is   *)
(* read as the document it was written from; and a character that could be *)
(* another, or a space where every character counts, is refused, for any   *)
(* bytes, any base a machine word holds, any block of error correction and *)
(* any number of spaces (papel.rs tecleable escribir, leer, a_cinco_bits,  *)
(* de_cinco_bits; codec.rs encode_base_n, decode_base_n; dictionary.rs).   *)
THEOREM OnlySpacingIsAlwaysFree == Spec => []OnlySpacingIsFree
<1>1. WordsInv /\ TextInv => OnlySpacingIsFree
  <2>. SUFFICES ASSUME WordsInv, TextInv, text # NoText, outcome # NotRead
                PROVE  /\ slips = <<>> \/ (Range(slips) = {"spaced"} /\ text.frame.kind # "symbols") =>
                            Read(text.document) \/ (text.frame = Bare /\ text.document = <<>>)
                       /\ slips = <<"unclear">> \/ (text.frame.kind = "symbols" /\ Range(slips) = {"spaced"}) =>
                            outcome.status = "character"
    BY DEF OnlySpacingIsFree
  <2>. DEFINE d == text.document
              f == text.frame
              c == text.characters
  <2>1. /\ d \in Documents /\ f \in Frames /\ write_text(d, f).status = "ok"
        /\ outcome = read_text(c, f)
    BY DEF TextInv, Origin, TextIsRead, Written
  <2>2. OnlySpaced => /\ Legible(c) /\ Symbols(c) = Symbols(write_text(d, f).data)
                      /\ slips = <<>> => c = write_text(d, f).data
                      /\ slips # <<>> => \E i \in 1..Len(c) : c[i].kind = "skipped"
    BY DEF TextInv, Kept, StillSaysIt, Written
  <2>3. slips = <<"unclear">> => \E i \in 1..Len(c) : c[i].kind = "unclear"
    BY DEF TextInv, Doubtful
  <2>. HIDE DEF d, f, c
  <2>4. slips = <<>> => OnlySpaced
    BY DEF OnlySpaced, Range
  <2>5. Range(slips) = {"spaced"} => OnlySpaced /\ slips # <<>>
    <3>1. Range(<<>>) = {}
      BY DEF Range
    <3>. QED  BY <3>1 DEF OnlySpaced
  <2>6. TypedOk(d).status = "ok" /\ TypedOk(d).data = d
    BY DEF TypedOk
  <2>7. TypedError("character").status = "character"
    BY DEF TypedError
  <2>8. ASSUME f.kind # "symbols", OnlySpaced, ~(f = Bare /\ d = <<>>)
        PROVE  outcome = TypedOk(d)
    BY <2>1, <2>2, <2>8, Base32Read
  <2>9. ASSUME f.kind = "symbols", slips = <<>>
        PROVE  outcome = TypedOk(d)
    BY <2>1, <2>2, <2>4, <2>9, DictionaryRead
  <2>10. ASSUME f.kind = "symbols", Range(slips) = {"spaced"}
         PROVE  outcome = TypedError("character")
    <3>1. PICK i \in 1..Len(c) : c[i].kind = "skipped"
      BY <2>2, <2>5, <2>10
    <3>. QED  BY <2>1, <2>10, <3>1, UnclearIsRefused
  <2>11. ASSUME slips = <<"unclear">>
         PROVE  outcome = TypedError("character")
    <3>1. PICK i \in 1..Len(c) : c[i].kind = "unclear"
      BY <2>3, <2>11
    <3>. QED  BY <2>1, <3>1, UnclearIsRefused
  <2>12. slips = <<>> \/ (Range(slips) = {"spaced"} /\ f.kind # "symbols") =>
           Read(d) \/ (f = Bare /\ d = <<>>)
    BY <2>4, <2>5, <2>6, <2>8, <2>9 DEF Read
  <2>13. slips = <<"unclear">> \/ (f.kind = "symbols" /\ Range(slips) = {"spaced"}) =>
           outcome.status = "character"
    BY <2>7, <2>10, <2>11
  <2>. QED  BY <2>12, <2>13 DEF d, f
<1>. QED  BY <1>1, WordsAlways, TextAlways, PTL

-----------------------------------------------------------------------------
(* Text under error correction, typed with slips.                          *)

(* The symbols hold the bits of the n cells in a row, and then padding.    *)
Holds(symbols, k, stream, n) ==
  /\ \A s \in 1..k, i \in 1..SymbolBits, r \in 1..n, o \in 1..ByteBits :
       (s - 1) * SymbolBits + i = (r - 1) * ByteBits + o => symbols[s][i] = InBits(stream[r], ByteBits)[o]
  /\ \A s \in 1..k, i \in 1..SymbolBits :
       (s - 1) * SymbolBits + i > n * ByteBits => symbols[s][i] = 0

HoldsAll(symbols, stream, n) ==
  \E k \in Nat : /\ symbols \in [1..k -> [1..SymbolBits -> {0, 1}]]
                 /\ n * ByteBits <= k * SymbolBits /\ k * SymbolBits < n * ByteBits + ByteBits
                 /\ Holds(symbols, k, stream, n)

LEMMA SymbolsHold ==
  ASSUME NEW n \in Nat, NEW stream \in [1..n -> Bytes]
  PROVE  HoldsAll(a_cinco_bits(stream), stream, n)
<1>. DEFINE b == ByteBits
            w == SymbolBits
            S == {0, 1}
            g == [i \in 1..n |-> InBits(stream[i], b)]
            bits == FlattenSeq(g)
            total == n * b
            k == CeilDiv(total, w)
            bit(i) == IF i <= total THEN bits[i] ELSE 0
            symbols == [s \in 1..k |-> [i \in 1..w |-> bit((s - 1) * w + i)]]
            len == k * w
<1>1. b \in Nat \ {0} /\ w \in Nat \ {0} /\ w <= b
  BY TecleableAssumption
<1>2. Len(stream) = n
  OBVIOUS
<1>3. \A i \in 1..n : g[i] = InBits(stream[i], b) /\ g[i] \in [1..b -> S]
  BY ByteAndBits DEF ByteIn
<1>4. g \in [1..n -> [1..b -> S]]
  <2>1. \A i \in 1..n : g[i] \in [1..b -> S]
    BY <1>3
  <2>. HIDE DEF S
  <2>2. DOMAIN g = 1..n /\ g = [i \in 1..n |-> g[i]]
    OBVIOUS
  <2>. HIDE DEF g
  <2>. QED  BY <2>1, <2>2
<1>. HIDE DEF b, w, S, g
<1>5. bits \in [1..total -> S] /\ Grouped(bits, g, n, b)
  BY <1>1, <1>4, JoinedGroups
<1>6. total \in Nat /\ 0 \in S
  BY <1>1 DEF S
<1>. HIDE DEF bits, total
<1>7. Len(bits) = total
  BY <1>5, <1>6
<1>8. a_cinco_bits(stream) = symbols
  BY <1>2, <1>7 DEF a_cinco_bits, bits, g, b, w
<1>9. /\ k \in Nat /\ total <= k * w
      /\ \A j \in Nat \ {0} : j <= k => (j - 1) * w < total
  BY <1>1, <1>6, CeilDivCounts
<1>. HIDE DEF k
<1>10. \A p \in 1..k, q \in 1..w : (p - 1) * w + q \in 1..len
  BY <1>1, <1>9, GroupPlaces
<1>11. len \in Nat
  BY <1>1, <1>9
<1>12. \A i \in 1..len : bit(i) \in S
  BY <1>5, <1>6, <1>11
<1>. HIDE DEF bit, len
<1>13. symbols \in [1..k -> [1..w -> S]]
  BY <1>10, <1>12
<1>14. \A p \in 1..k, q \in 1..w : symbols[p][q] = bit((p - 1) * w + q)
  OBVIOUS
<1>. HIDE DEF symbols
<1>15. n * b <= len /\ len < n * b + b
  <2>1. total <= len
    BY <1>9 DEF len
  <2>2. len < total + w
    <3>1. CASE k = 0
      <4>1. 0 * w = 0
        BY <1>1
      <4>. QED  BY <1>1, <1>6, <3>1, <4>1 DEF len
    <3>2. CASE k # 0
      <4>1. (k - 1) * w < total
        BY <1>9, <3>2
      <4>2. (k - 1) * w + w = k * w /\ (k - 1) * w \in Int
        BY <1>1, <1>9
      <4>. QED  BY <1>1, <1>6, <1>11, <4>1, <4>2 DEF len
    <3>. QED  BY <3>1, <3>2
  <2>3. len < total + b
    BY <1>1, <1>6, <1>11, <2>2
  <2>. QED  BY <2>1, <2>3 DEF total
<1>16. ASSUME NEW s \in 1..k, NEW i \in 1..w, NEW r \in 1..n, NEW o \in 1..b,
              (s - 1) * w + i = (r - 1) * b + o
       PROVE  symbols[s][i] = InBits(stream[r], ByteBits)[o]
  <2>. DEFINE y == (r - 1) * b + o
  <2>1. y \in 1..total
    BY <1>1, GroupPlaces DEF total
  <2>2. bits[y] = g[r][o]
    BY <1>5 DEF Grouped
  <2>. HIDE DEF y
  <2>3. bit(y) = bits[y]
    BY <1>6, <2>1 DEF bit
  <2>4. symbols[s][i] = bit(y)
    BY <1>14, <1>16 DEF y
  <2>5. g[r][o] = InBits(stream[r], ByteBits)[o]
    BY <1>3 DEF b
  <2>. QED  BY <2>2, <2>3, <2>4, <2>5
<1>17. ASSUME NEW s \in 1..k, NEW i \in 1..w, (s - 1) * w + i > n * b
       PROVE  symbols[s][i] = 0
  <2>. DEFINE y == (s - 1) * w + i
  <2>1. y \in 1..len
    BY <1>10
  <2>2. y > total
    BY <1>17 DEF total
  <2>3. symbols[s][i] = bit(y)
    BY <1>14
  <2>. HIDE DEF y
  <2>4. bit(y) = 0
    BY <1>6, <1>11, <2>1, <2>2 DEF bit
  <2>. QED  BY <2>3, <2>4
<1>18. Holds(symbols, k, stream, n)
  BY <1>16, <1>17, Zenon DEF Holds, b, w
<1>19. HoldsAll(symbols, stream, n)
  BY <1>9, <1>13, <1>15, <1>18 DEF HoldsAll, b, w, S, len
<1>. QED  BY <1>8, <1>19

(* What is read from symbols: their bits, a cell for every full byte.      *)
ReadFrom(cells, symbols, k, m, S) ==
  /\ cells \in Seq({cells[j] : j \in 1..m}) /\ Len(cells) = m /\ DOMAIN cells = 1..m /\ m * ByteBits <= k * SymbolBits
  /\ \E list \in [1..(k * SymbolBits) -> S] :
       /\ Grouped(list, symbols, k, SymbolBits)
       /\ \A j \in 1..m : \E x \in [1..ByteBits -> S] :
            /\ cells[j] = Number(x)
            /\ \A q \in 1..ByteBits : x[q] = list[(j - 1) * ByteBits + q]

LEMMA CellsRead ==
  ASSUME NEW S, NEW k \in Nat, NEW symbols \in [1..k -> [1..SymbolBits -> S]]
  PROVE  /\ (k * SymbolBits) \div ByteBits \in Nat
         /\ ReadFrom(de_cinco_bits(symbols), symbols, k, (k * SymbolBits) \div ByteBits, S)
<1>. DEFINE b == ByteBits
            w == SymbolBits
            len == k * w
            m == len \div b
            list == FlattenSeq(symbols)
            cell(j) == Number(SubSeq(list, (j - 1) * b + 1, j * b))
            cells == [j \in 1..m |-> cell(j)]
<1>1. b \in Nat \ {0} /\ w \in Nat \ {0} /\ w <= b
  BY TecleableAssumption
<1>2. list \in [1..len -> S] /\ Grouped(list, symbols, k, w)
  BY <1>1, JoinedGroups
<1>. HIDE DEF b, w, list
<1>3. len \in Nat
  BY <1>1
<1>. HIDE DEF len
<1>4. m \in Nat /\ m * b <= len
  <2>1. m \in Nat
    BY <1>1, <1>3, QuotientIsNat
  <2>2. m <= len \div b
    BY <2>1
  <2>. HIDE DEF m
  <2>. QED  BY <1>1, <1>3, <2>1, <2>2, TimesOfQuotient
<1>. HIDE DEF m
<1>5. Len(list) = len
  BY <1>2, <1>3
<1>6. de_cinco_bits(symbols) = cells
  BY <1>5 DEF de_cinco_bits, list, b, m
<1>7. ASSUME NEW j \in 1..m
      PROVE  \E x \in [1..b -> S] : /\ cells[j] = Number(x)
                                    /\ \A q \in 1..b : x[q] = list[(j - 1) * b + q]
  <2>. DEFINE x == Group(list, j, b)
  <2>1. IsGroup(x, S, list, j, b)
    BY <1>1, <1>2, <1>3, <1>4, GroupWithin
  <2>2. cells[j] = Number(x)
    BY DEF Group
  <2>. HIDE DEF x, cell
  <2>. QED  BY <2>1, <2>2 DEF IsGroup
<1>8. Len(cells) = m /\ DOMAIN cells = 1..m /\ cells \in Seq({cells[j] : j \in 1..m})
  <2>. HIDE DEF cell
  <2>. DEFINE T == {cells[j] : j \in 1..m}
  <2>1. cells \in [1..m -> T] /\ DOMAIN cells = 1..m
    OBVIOUS
  <2>. HIDE DEF cells, T
  <2>2. Len(cells) = m /\ cells \in Seq(T)
    BY <1>4, <2>1
  <2>. QED  BY <2>1, <2>2 DEF T
<1>. HIDE DEF cells
<1>9. ReadFrom(cells, symbols, k, m, S)
  BY <1>2, <1>4, <1>7, <1>8 DEF ReadFrom, b, w, len
<1>. QED  BY <1>4, <1>6, <1>9 DEF m, len, b, w

(* Numbers of which no two are further apart than one are two at most.     *)
NextToEachOther(T) == \A r, s \in T : s <= r + 1

LEMMA TwoAtMost ==
  ASSUME NEW T \in SUBSET Nat, NextToEachOther(T)
  PROVE  Cardinality(T) \in Nat /\ Cardinality(T) <= 2
<1>1. CASE T = {}
  <2>1. Cardinality({}) = 0
    BY FS_EmptySet
  <2>. QED  BY <1>1, <2>1
<1>2. CASE T # {}
  <2>1. PICK m \in T : \A k \in T : m <= k
    BY <1>2, LeastOfNaturals
  <2>2. m \in Int /\ m + 1 \in Int /\ ~(m > m + 1) /\ m + 1 - m + 1 = 2
    OBVIOUS
  <2>3. IsFiniteSet(m..(m + 1)) /\ Cardinality(m..(m + 1)) = 2
    BY <2>2, FS_Interval
  <2>4. T \subseteq m..(m + 1)
    BY <2>1 DEF NextToEachOther
  <2>5. IsFiniteSet(T) /\ Cardinality(T) <= 2
    BY <2>3, <2>4, FS_Subset
  <2>. QED  BY <2>5, FS_CardinalityType
<1>. QED  BY <1>1, <1>2

(* Cell q has a bit in symbol i.                                           *)
Touches(q, i) ==
  \E o \in 1..ByteBits, u \in 1..SymbolBits : (q - 1) * ByteBits + o = (i - 1) * SymbolBits + u

(* Cells with a bit in the same symbol are next to each other.             *)
LEMMA TouchingCells ==
  ASSUME NEW i \in Nat \ {0}, NEW q \in Nat \ {0}, NEW r \in Nat \ {0}, Touches(q, i), Touches(r, i)
  PROVE  r <= q + 1
<1>. DEFINE b == ByteBits
            w == SymbolBits
            x == q - 1
            y == r - 1
            base == (i - 1) * w
<1>1. b \in Nat \ {0} /\ w \in Nat \ {0} /\ w <= b
  BY TecleableAssumption
<1>2. PICK o \in 1..b, u \in 1..w : x * b + o = base + u
  BY DEF Touches
<1>3. PICK o2 \in 1..b, u2 \in 1..w : y * b + o2 = base + u2
  BY DEF Touches
<1>4. base \in Int
  BY <1>1
<1>5. x \in Nat /\ y \in Nat
  OBVIOUS
<1>. HIDE DEF b, w, x, y, base
<1>6. ~(x + 1 < y)
  <2>. SUFFICES ASSUME x + 1 < y PROVE FALSE
    OBVIOUS
  <2>. DEFINE X == x * b
              Y == y * b
  <2>1. (x + 1) * b + b <= Y /\ (x + 1) * b = X + b /\ X \in Int /\ Y \in Int
    BY <1>1, <1>5, ProductsOrdered
  <2>2. X + o = base + u /\ Y + o2 = base + u2
    BY <1>2, <1>3
  <2>. HIDE DEF X, Y
  <2>. QED  BY <1>1, <1>4, <2>1, <2>2
<1>. QED  BY <1>5, <1>6 DEF x, y

(* One wrong symbol changes the bytes that have a bit in it, and no other. *)
ChangedAt(cells, stream, n, i) ==
  /\ cells \in Seq({cells[j] : j \in 1..n}) /\ Len(cells) = n
  /\ \A q \in 1..n : stream[q] # cells[q] => Touches(q, i)

LEMMA WrongCells ==
  ASSUME NEW n \in Nat, NEW stream \in [1..n -> Bytes], NEW S, NEW k \in Nat,
         NEW y \in [1..k -> [1..SymbolBits -> S]], Holds(y, k, stream, n),
         n * ByteBits <= k * SymbolBits, k * SymbolBits < n * ByteBits + ByteBits,
         NEW l \in [1..SymbolBits -> S], NEW i \in 1..k
  PROVE  ChangedAt(de_cinco_bits([y EXCEPT ![i] = l]), stream, n, i)
<1>. DEFINE b == ByteBits
            w == SymbolBits
            z == [y EXCEPT ![i] = l]
            cells == de_cinco_bits(z)
            V == [1..w -> S]
<1>1. b \in Nat \ {0} /\ w \in Nat \ {0} /\ w <= b
  BY TecleableAssumption
<1>2. z \in [1..k -> V] /\ \A s \in 1..k : s # i => z[s] = y[s]
  <2>. HIDE DEF V
  <2>1. y \in [1..k -> V] /\ l \in V
    BY DEF V
  <2>. QED  BY <2>1
<1>. HIDE DEF z
<1>3. ReadFrom(cells, z, k, (k * w) \div b, S)
  BY <1>2, CellsRead
<1>4. (k * w) \div b = n
  <2>. DEFINE t == k * w
  <2>1. t \in Nat /\ n * b <= t /\ t < n * b + b
    BY <1>1
  <2>. HIDE DEF t
  <2>2. t \div b = n
    BY <1>1, <2>1, RestDropped
  <2>. QED  BY <2>2 DEF t
<1>. HIDE DEF cells
<1>5. ReadFrom(cells, z, k, n, S)
  BY <1>3, <1>4
<1>6. cells \in Seq({cells[j] : j \in 1..n}) /\ Len(cells) = n
  BY <1>5 DEF ReadFrom
<1>. HIDE DEF b, w, V
<1>7. PICK list \in [1..(k * w) -> S] :
        /\ Grouped(list, z, k, w)
        /\ \A j \in 1..n : \E x \in [1..b -> S] :
             cells[j] = Number(x) /\ \A o \in 1..b : x[o] = list[(j - 1) * b + o]
  BY <1>5 DEF ReadFrom, b, w
<1>8. ASSUME NEW q \in 1..n, ~Touches(q, i) PROVE stream[q] = cells[q]
  <2>1. PICK x \in [1..b -> S] : cells[q] = Number(x) /\ \A o \in 1..b : x[o] = list[(q - 1) * b + o]
    BY <1>7
  <2>2. ASSUME NEW o \in 1..b PROVE x[o] = InBits(stream[q], ByteBits)[o]
    <3>. DEFINE j == (q - 1) * b + o
    <3>1. j \in 1..(n * b)
      BY <1>1, GroupPlaces
    <3>2. n * b <= k * w /\ n * b \in Nat /\ k * w \in Nat
      BY <1>1 DEF b, w
    <3>3. x[o] = list[j]
      BY <2>1
    <3>4. ~\E u \in 1..w : j = (i - 1) * w + u
      BY <1>8 DEF Touches, b, w
    <3>. DEFINE isAt(v) == \A s \in 1..k, u \in 1..w : v = (s - 1) * w + u => y[s][u] = InBits(stream[q], ByteBits)[o]
    <3>5. isAt(j)
      BY DEF Holds, b, w
    <3>. HIDE DEF j
    <3>6. j \in 1..(k * w)
      BY <3>1, <3>2
    <3>7. PICK s \in 1..k, u \in 1..w : j = (s - 1) * w + u
      BY <1>1, <3>6, GroupPlaces, ZenonT(30)
    <3>8. s # i
      BY <3>4, <3>7
    <3>9. list[j] = z[s][u] /\ z[s] = y[s]
      BY <1>2, <1>7, <3>7, <3>8 DEF Grouped
    <3>10. y[s][u] = InBits(stream[q], ByteBits)[o]
      BY <3>5, <3>7
    <3>. QED  BY <3>3, <3>9, <3>10
  <2>. DEFINE v == InBits(stream[q], ByteBits)
  <2>3. v \in [1..b -> {0, 1}] /\ Number(v) = stream[q]
    BY ByteAndBits DEF ByteIn, b
  <2>4. \A o \in 1..b : x[o] = v[o]
    BY <2>2
  <2>. HIDE DEF v
  <2>5. x = v
    BY <1>1, <2>1, <2>3, <2>4, SameList
  <2>. QED  BY <2>1, <2>3, <2>5
<1>9. ChangedAt(cells, stream, n, i)
  BY <1>6, <1>8 DEF ChangedAt
<1>. QED  BY <1>9 DEF cells, z

(* One wrong letter makes at most two errors in the header and in any      *)
(* block.                                                                  *)
LEMMA WrongIsWithin ==
  ASSUME NEW d \in Seq(Bytes), NEW p \in 2..MaxParity,
         NEW stream, stream = Laid(d, p), NEW cells, NEW i \in Nat \ {0},
         \A q \in 1..Len(stream) : stream[q] # cells[q] => Touches(q, i)
  PROVE  /\ Cardinality(Errors(stream, cells, HeaderSize)) <= HeaderFixes
         /\ \A b \in 1..BlocksOf(d, p) : /\ Cardinality(BlockErrors(stream, cells, d, p, b)) \in Nat
                                         /\ Cardinality(BlockErrors(stream, cells, d, p, b)) <= 2
<1>1. Layout(stream, d, p)
  BY LaidOut
<1>2. HeaderSize \in Nat \ {0} /\ HeaderSize <= Len(stream) /\ Len(stream) \in Nat
  BY <1>1, Codes DEF Layout
<1>3. Cardinality(Errors(stream, cells, HeaderSize)) <= HeaderFixes
  <2>. DEFINE T == Errors(stream, cells, HeaderSize)
  <2>1. T \subseteq Nat
    BY <1>2 DEF Errors
  <2>2. ASSUME NEW q \in T PROVE q \in Nat \ {0} /\ Touches(q, i)
    BY <1>2 DEF Errors
  <2>. HIDE DEF T
  <2>3. NextToEachOther(T)
    BY <2>2, TouchingCells DEF NextToEachOther
  <2>4. Cardinality(T) \in Nat /\ Cardinality(T) <= 2
    BY <2>1, <2>3, TwoAtMost
  <2>5. HeaderFixes \in Nat /\ HeaderFixes >= 2
    BY Codes
  <2>6. Cardinality(T) <= HeaderFixes
    BY <2>4, <2>5
  <2>. QED  BY <2>6 DEF T
<1>4. ASSUME NEW b \in 1..BlocksOf(d, p)
      PROVE  /\ Cardinality(BlockErrors(stream, cells, d, p, b)) \in Nat
             /\ Cardinality(BlockErrors(stream, cells, d, p, b)) <= 2
  <2>. DEFINE T == BlockErrors(stream, cells, d, p, b)
              from == FromOf(b)
              l == LengthOf(d, p, b)
  <2>1. from \in Nat /\ from + l + p <= Len(stream)
    BY <1>1 DEF Layout, EndOf
  <2>2. l \in Nat /\ p \in Nat
    <3>1. l \in 1..SizeOf(p)
      BY Pieces
    <3>. QED  BY <3>1
  <2>. HIDE DEF from, l
  <2>3. T = {j \in 1..(l + p) : stream[from + j] # cells[from + j]}
    BY DEF BlockErrors, from, l
  <2>4. T \subseteq Nat
    BY <2>2, <2>3
  <2>5. ASSUME NEW j \in T PROVE from + j \in Nat \ {0} /\ Touches(from + j, i)
    <3>1. j \in 1..(l + p) /\ stream[from + j] # cells[from + j]
      BY <2>3
    <3>2. from + j \in 1..Len(stream) /\ from + j \in Nat \ {0}
      BY <1>2, <2>1, <2>2, <3>1
    <3>. QED  BY <3>1, <3>2
  <2>. HIDE DEF T
  <2>6. ASSUME NEW r \in T, NEW s \in T PROVE s <= r + 1
    <3>1. from + s <= (from + r) + 1
      BY <2>5, TouchingCells
    <3>. QED  BY <2>1, <2>4, <3>1
  <2>7. Cardinality(T) \in Nat /\ Cardinality(T) <= 2
    BY <2>4, <2>6, TwoAtMost DEF NextToEachOther
  <2>. QED  BY <2>7 DEF T
<1>. QED  BY <1>3, <1>4

(* Where block b ends, said with the length of the document.               *)
LEMMA EndIs ==
  ASSUME NEW data \in Seq(Bytes), NEW p \in 2..MaxParity, NEW b \in 1..BlocksOf(data, p)
  PROVE  HeaderSize + Min({b * Block, Len(data) + b * p}) = EndOf(data, p, b)
<1>. DEFINE n == Len(data)
            z == SizeOf(p)
            c == b - 1
            cz == c * z
            cp == c * p
            l == LengthOf(data, p, b)
            least == Min({b * z, n})
<1>1. /\ z \in Nat \ {0} /\ p \in Nat /\ Block = z + p /\ n \in Nat /\ HeaderSize \in Nat
      /\ b \in Nat \ {0} /\ c \in Nat
  BY Division, Codes
<1>2. cz \in Nat /\ cp \in Nat /\ b = c + 1
  BY <1>1
<1>3. b * z = cz + z /\ b * p = cp + p /\ c * Block = cz + cp
  <2>1. (c + 1) * z = c * z + z /\ (c + 1) * p = c * p + p /\ c * (z + p) = c * z + c * p
    BY <1>1
  <2>. QED  BY <1>1, <1>2, <2>1
<1>4. b * Block = cz + cp + z + p
  <2>1. b * (z + p) = b * z + b * p
    BY <1>1
  <2>. DEFINE bz == b * z
              bp == b * p
  <2>2. b * Block = bz + bp /\ bz = cz + z /\ bp = cp + p
    BY <1>1, <1>3, <2>1
  <2>. HIDE DEF cz, cp, z, bz, bp
  <2>. QED  BY <1>1, <1>2, <2>2
<1>5. l = least - cz
  BY DEF LengthOf
<1>6. EndOf(data, p, b) = HeaderSize + c * Block + l + p
  BY DEF EndOf, FromOf
<1>7. least = IF b * z <= n THEN b * z ELSE n
  <2>1. b * z \in Int /\ n \in Int
    BY <1>1
  <2>. HIDE DEF z, n
  <2>. QED  BY <2>1, OfTwo
<1>8. Min({b * Block, n + b * p}) = IF b * Block <= n + b * p THEN b * Block ELSE n + b * p
  <2>1. b * Block \in Int /\ n + b * p \in Int
    BY <1>1
  <2>. QED  BY <2>1, OfTwo
<1>. HIDE DEF n, z, cz, cp, l, least, c
<1>9. \/ least = cz + z /\ Min({b * Block, n + b * p}) = cz + cp + z + p
      \/ least = n /\ Min({b * Block, n + b * p}) = n + cp + p
  <2>. DEFINE q == Min({b * Block, n + b * p})
  <2>1. q = IF cz + cp + z + p <= n + (cp + p) THEN cz + cp + z + p ELSE n + (cp + p)
    BY <1>3, <1>4, <1>8
  <2>2. least = IF cz + z <= n THEN cz + z ELSE n
    BY <1>3, <1>7
  <2>. HIDE DEF q
  <2>3. \/ least = cz + z /\ q = cz + cp + z + p
        \/ least = n /\ q = n + cp + p
    BY <1>1, <1>2, <2>1, <2>2
  <2>. QED  BY <2>3 DEF q
<1>10. EndOf(data, p, b) = HeaderSize + (cz + cp) + (least - cz) + p
  BY <1>3, <1>5, <1>6
<1>. DEFINE q == Min({b * Block, n + b * p})
<1>. HIDE DEF q
<1>11. HeaderSize + q = EndOf(data, p, b)
  <2>1. CASE least = cz + z /\ q = cz + cp + z + p
    BY <1>1, <1>2, <1>10, <2>1
  <2>2. CASE least = n /\ q = n + cp + p
    BY <1>1, <1>2, <1>10, <2>2
  <2>. QED  BY <1>9, <2>1, <2>2 DEF q
<1>. QED  BY <1>11 DEF q, n

(* The errors of a header or of a block that is all there are its damage.  *)
LEMMA HeaderDamage ==
  ASSUME NEW stream, NEW cells, Len(cells) \in Nat, HeaderSize <= Len(cells)
  PROVE  Cardinality(Errors(stream, cells, HeaderSize)) = Damage(cells, stream, 1, HeaderSize)
<1>1. HeaderSize \in Nat
  BY Codes
<1>2. \A i \in 1..HeaderSize : ~(i > Len(cells))
  BY <1>1
<1>3. Errors(stream, cells, HeaderSize)
        = {i \in 1..HeaderSize : i > Len(cells) \/ cells[i] # stream[i]}
  BY <1>2 DEF Errors
<1>. QED  BY <1>3 DEF Damage

LEMMA BlockDamage ==
  ASSUME NEW data \in Seq(Bytes), NEW p \in 2..MaxParity, NEW b \in 1..BlocksOf(data, p),
         NEW stream, NEW cells, Len(cells) \in Nat, EndOf(data, p, b) <= Len(cells)
  PROVE  /\ Cardinality(BlockErrors(stream, cells, data, p, b)) \in Nat
         /\ Damage(cells, stream, FromOf(b) + 1, EndOf(data, p, b)) \in Nat
         /\ Cardinality(BlockErrors(stream, cells, data, p, b))
              <= Damage(cells, stream, FromOf(b) + 1, EndOf(data, p, b))
<1>. DEFINE from == FromOf(b)
            m == LengthOf(data, p, b) + p
            end == EndOf(data, p, b)
            A == BlockErrors(stream, cells, data, p, b)
            B == {i \in (from + 1)..end : i > Len(cells) \/ cells[i] # stream[i]}
            f == [i \in A |-> from + i]
<1>1. from \in Nat /\ m \in Nat /\ end = from + m
  <2>1. Layout(Laid(data, p), data, p)
    BY LaidOut
  <2>2. from \in Nat
    BY <2>1 DEF Layout
  <2>3. LengthOf(data, p, b) \in Nat /\ p \in Nat
    BY BlockOfPiece
  <2>. HIDE DEF from
  <2>. QED  BY <2>2, <2>3 DEF EndOf, from
<1>2. A = {i \in 1..m : stream[from + i] # cells[from + i]}
  BY DEF BlockErrors
<1>. HIDE DEF from, m, end, A
<1>3. IsFiniteSet(B)
  <2>1. IsFiniteSet((from + 1)..end)
    BY <1>1, FS_Interval
  <2>2. B \subseteq (from + 1)..end
    OBVIOUS
  <2>. HIDE DEF B
  <2>. QED  BY <2>1, <2>2, FS_Subset
<1>4. ASSUME NEW i \in A PROVE i \in Nat /\ from + i \in B
  BY <1>1, <1>2
<1>5. f \in Injection(A, B)
  <2>1. f \in [A -> B]
    <3>. HIDE DEF B
    <3>. QED  BY <1>4
  <2>2. \A i, j \in A : f[i] = f[j] => i = j
    BY <1>1, <1>4
  <2>. HIDE DEF f, B
  <2>. QED  BY <2>1, <2>2 DEF Injection, IsInjective
<1>. HIDE DEF f
<1>6. Damage(cells, stream, from + 1, end) = Cardinality(B)
  BY DEF Damage
<1>. HIDE DEF B
<1>7. IsFiniteSet(A) /\ Cardinality(A) <= Cardinality(B)
  BY <1>3, <1>5, FS_Injection
<1>8. Cardinality(A) \in Nat /\ Cardinality(B) \in Nat
  BY <1>3, <1>7, FS_CardinalityType
<1>. QED  BY <1>6, <1>7, <1>8 DEF from, end, A

(* No more damage than n in a block, and none that its code does not       *)
(* correct in the header.                                                  *)
Within(cells, stream, data, p, n) ==
  /\ Damage(cells, stream, 1, HeaderSize) <= HeaderFixes
  /\ \A b \in 1..CeilDiv(Len(data), Block - p) :
       Damage(cells, stream, HeaderSize + (b - 1) * Block + 1,
              HeaderSize + Min({b * Block, Len(data) + b * p})) <= n

LEMMA WithinReads ==
  ASSUME NEW data \in Seq(Bytes), Len(data) < Power(Radix, LengthBytes), NEW p \in 2..MaxParity,
         NEW S, NEW cells \in Seq(S)
  PROVE  /\ Within(cells, Laid(data, p), data, p, p - p \div 2) => recover(cells) \in {None, Some(data)}
         /\ Within(cells, Laid(data, p), data, p, p \div 2) /\ Len(Laid(data, p)) <= Len(cells)
              => recover(cells) = Some(data)
<1>. DEFINE stream == Laid(data, p)
            bound == p - (p \div 2)
            half == p \div 2
<1>1. Layout(stream, data, p)
  BY LaidOut
<1>2. Len(cells) \in Nat /\ bound \in Nat /\ half \in Nat /\ p - p \div 2 = bound
  OBVIOUS
<1>3. \A b : HeaderSize + (b - 1) * Block = FromOf(b)
  BY DEF FromOf
<1>4. BlocksOf(data, p) = CeilDiv(Len(data), Block - p)
  BY DEF BlocksOf, SizeOf
<1>. HIDE DEF bound, half, stream
<1>5. ASSUME NEW n \in Nat, Within(cells, stream, data, p, n)
      PROVE  /\ HeaderSize <= Len(cells) => Cardinality(Errors(stream, cells, HeaderSize)) <= HeaderFixes
             /\ \A b \in 1..BlocksOf(data, p) : EndOf(data, p, b) <= Len(cells) =>
                  Cardinality(BlockErrors(stream, cells, data, p, b)) <= n
  <2>1. HeaderSize <= Len(cells) => Cardinality(Errors(stream, cells, HeaderSize)) <= HeaderFixes
    BY <1>2, <1>5, HeaderDamage DEF Within
  <2>2. ASSUME NEW b \in 1..BlocksOf(data, p), EndOf(data, p, b) <= Len(cells)
        PROVE  Cardinality(BlockErrors(stream, cells, data, p, b)) <= n
    <3>. DEFINE x == Cardinality(BlockErrors(stream, cells, data, p, b))
                y == Damage(cells, stream, FromOf(b) + 1, EndOf(data, p, b))
    <3>1. x \in Nat /\ y \in Nat /\ x <= y
      BY <1>2, <2>2, BlockDamage
    <3>2. Damage(cells, stream, HeaderSize + (b - 1) * Block + 1,
                 HeaderSize + Min({b * Block, Len(data) + b * p})) <= n
      BY <1>4, <1>5 DEF Within
    <3>3. y <= n
      BY <1>3, <3>2, EndIs
    <3>. HIDE DEF x, y
    <3>4. x <= n
      BY <3>1, <3>3
    <3>. QED  BY <3>4 DEF x
  <2>. QED  BY <2>1, <2>2
<1>6. ASSUME Within(cells, stream, data, p, bound)
      PROVE  recover(cells) \in {None, Some(data)}
  <2>1. /\ HeaderSize <= Len(cells) => Cardinality(Errors(stream, cells, HeaderSize)) <= HeaderFixes
        /\ \A b \in 1..BlocksOf(data, p) : EndOf(data, p, b) <= Len(cells) =>
             Cardinality(BlockErrors(stream, cells, data, p, b)) <= p - (p \div 2)
    BY <1>2, <1>5, <1>6 DEF bound
  <2>. QED  BY <2>1, RecoversNoOther DEF stream
<1>7. ASSUME Within(cells, stream, data, p, half), Len(stream) <= Len(cells)
      PROVE  recover(cells) = Some(data)
  <2>1. HeaderSize <= Len(cells) /\ \A b \in 1..BlocksOf(data, p) : EndOf(data, p, b) <= Len(cells)
    <3>1. Len(stream) \in Nat /\ HeaderSize <= Len(stream) /\ HeaderSize \in Nat
      BY <1>1, Codes DEF Layout
    <3>2. ASSUME NEW b \in 1..BlocksOf(data, p) PROVE EndOf(data, p, b) <= Len(cells)
      <4>1. EndOf(data, p, b) <= Len(stream) /\ FromOf(b) \in Nat
        BY <1>1 DEF Layout
      <4>2. LengthOf(data, p, b) \in Nat /\ p \in Nat
        BY BlockOfPiece
      <4>3. EndOf(data, p, b) \in Nat
        BY <4>1, <4>2 DEF EndOf
      <4>. QED  BY <1>2, <1>7, <3>1, <4>1, <4>3
    <3>. QED  BY <1>2, <1>7, <3>1, <3>2
  <2>2. WithinTheBound(stream, cells, data, p)
    BY <1>2, <1>5, <1>7, <2>1 DEF WithinTheBound, half
  <2>. QED  BY <1>7, <2>2, Recovers DEF stream
<1>8. (Within(cells, stream, data, p, bound) => recover(cells) \in {None, Some(data)})
      /\ (Within(cells, stream, data, p, half) /\ Len(stream) <= Len(cells) => recover(cells) = Some(data))
  BY <1>6, <1>7
<1>. QED  BY <1>8 DEF stream, bound, half

-----------------------------------------------------------------------------
(* Characters there are in a text under error correction.                  *)
SymbolIn == [1..SymbolBits -> {0, 1}]
Chars == {Letter(v) : v \in SymbolIn} \cup {Skipped, Unclear}

(* Whatever such a text says, it says it in symbols.                       *)
LEMMA SymbolsOfText ==
  ASSUME NEW t \in Seq(Chars)
  PROVE  \E k \in Nat : Symbols(t) \in [1..k -> SymbolIn]
<1>. DEFINE n == Len(t)
            s == [i \in 1..n |-> IF t[i].kind = "letter" THEN <<t[i].symbol>> ELSE <<>>]
            V == SymbolIn
<1>1. n \in Nat /\ \A i \in 1..n : t[i] \in Chars
  OBVIOUS
<1>2. ASSUME NEW c \in Chars, c.kind = "letter" PROVE c.symbol \in V
  BY <1>2 DEF Chars, Letter, Skipped, Unclear, Char
<1>3. s \in [1..n -> Seq(V)]
  <2>. HIDE DEF V
  <2>1. \A i \in 1..n : (IF t[i].kind = "letter" THEN <<t[i].symbol>> ELSE <<>>) \in Seq(V)
    BY <1>1, <1>2
  <2>. HIDE DEF n
  <2>. QED  BY <2>1
<1>4. Symbols(t) = FlattenSeq(s)
  BY DEF Symbols
<1>. HIDE DEF s, V, n
<1>5. PICK F \in [0..n -> Seq(V)] : FlattenSeq(s) = F[n]
  BY <1>1, <1>3, FlattenUpTo
<1>6. F[n] \in Seq(V)
  BY <1>1, <1>5
<1>. DEFINE x == Symbols(t)
<1>7. x \in Seq(V)
  BY <1>4, <1>5, <1>6
<1>. HIDE DEF x
<1>8. Len(x) \in Nat /\ x \in [1..Len(x) -> V]
  BY <1>7, LenProperties
<1>. QED  BY <1>8 DEF x, V

(* Text under error correction, as written: the symbols y of a stream of n *)
(* bytes.                                                                  *)
IsGuarded(d, f, y, stream, n, k) ==
  /\ Clamp(f.parity) \in 2..MaxParity
  /\ stream = Laid(d, Clamp(f.parity)) /\ stream \in [1..n -> Bytes]
  /\ y \in [1..k -> SymbolIn]
  /\ n * ByteBits <= k * SymbolBits /\ k * SymbolBits < n * ByteBits + ByteBits
  /\ Holds(y, k, stream, n)
  /\ write_text(d, f).data = LettersFor(y, k)

LEMMA GuardedText ==
  ASSUME NEW d \in Documents, NEW f \in Frames, f.kind = "guarded", write_text(d, f).status = "ok"
  PROVE  \E y, stream : \E n \in Nat, k \in Nat : IsGuarded(d, f, y, stream, n, k)
<1>. DEFINE p == f.parity
            stream == StreamOf(d, f)
            y == a_cinco_bits(stream)
<1>1. /\ IsWritten(write_text(d, f).data, y) /\ p \in Nat /\ p <= MaxParity
      /\ stream = protect(d, p)
  BY Base32Written DEF StreamOf
<1>. HIDE DEF stream, p
<1>2. Clamp(p) \in 2..MaxParity
  BY <1>1, Clamped
<1>3. stream = Laid(d, Clamp(p))
  BY <1>1, ProtectIs
<1>4. PICK n \in Nat \ {0} : stream \in [1..n -> Bytes]
  BY <1>1, ProtectedRecovers
<1>5. n \in Nat
  OBVIOUS
<1>6. HoldsAll(y, stream, n)
  BY <1>4, <1>5, SymbolsHold
<1>. HIDE DEF y
<1>7. PICK k \in Nat : /\ y \in [1..k -> SymbolIn]
                       /\ n * ByteBits <= k * SymbolBits /\ k * SymbolBits < n * ByteBits + ByteBits
                       /\ Holds(y, k, stream, n)
  BY <1>6 DEF HoldsAll, SymbolIn
<1>8. write_text(d, f).data = LettersFor(y, k)
  <2>1. PICK m \in Nat : DOMAIN y = 1..m /\ write_text(d, f).data = LettersFor(y, m)
    BY <1>1 DEF IsWritten
  <2>2. DOMAIN y = 1..k
    BY <1>7
  <2>3. m = k
    BY <2>1, <2>2
  <2>. QED  BY <2>1, <2>3
<1>9. IsGuarded(d, f, y, stream, n, k)
  BY <1>2, <1>3, <1>4, <1>7, <1>8 DEF IsGuarded, p
<1>. QED  BY <1>5, <1>7, <1>9

(* What has no unclear character is read as what is recovered from it.     *)
LEMMA GuardedIsReadAs ==
  ASSUME NEW f, f.kind = "guarded", NEW t, read_text(t, f).status # "character",
         NEW document, document = recover(de_cinco_bits(Symbols(t)))
  PROVE  /\ Symbols(t) = <<>> => read_text(t, f) = TypedError("empty")
         /\ Symbols(t) # <<>> /\ document.ok => read_text(t, f) = TypedOk(document.data)
         /\ Symbols(t) # <<>> /\ ~document.ok => read_text(t, f) = TypedError("unrecovered")
<1>1. TypedError("character").status = "character"
  BY DEF TypedError
<1>2. read_text(t, f) = leer(t, f)
  BY DEF read_text
<1>3. ~\E i \in 1..Len(t) : t[i].kind = "unclear"
  BY <1>1, <1>2 DEF leer
<1>. QED  BY <1>2, <1>3 DEF leer

(* What is recovered, if anything, is what is read.                        *)
LEMMA RecoveredIsRead ==
  ASSUME NEW d, NEW f, f.kind = "guarded", NEW t, read_text(t, f).status # "character"
  PROVE  /\ recover(de_cinco_bits(Symbols(t))) \in {None, Some(d)} =>
              (read_text(t, f).status = "ok" => read_text(t, f) = TypedOk(d))
         /\ recover(de_cinco_bits(Symbols(t))) = Some(d) /\ Symbols(t) # <<>> =>
              read_text(t, f) = TypedOk(d)
<1>. DEFINE document == recover(de_cinco_bits(Symbols(t)))
<1>1. /\ Symbols(t) = <<>> => read_text(t, f) = TypedError("empty")
      /\ Symbols(t) # <<>> /\ document.ok => read_text(t, f) = TypedOk(document.data)
      /\ Symbols(t) # <<>> /\ ~document.ok => read_text(t, f) = TypedError("unrecovered")
  BY GuardedIsReadAs
<1>2. None.ok = FALSE /\ Some(d).ok = TRUE /\ Some(d).data = d
  BY DEF None, Some
<1>3. TypedError("empty").status = "empty" /\ TypedError("unrecovered").status = "unrecovered"
  BY DEF TypedError
<1>. HIDE DEF document
<1>4. document \in {None, Some(d)} => (read_text(t, f).status = "ok" => read_text(t, f) = TypedOk(d))
  BY <1>1, <1>2, <1>3
<1>5. document = Some(d) /\ Symbols(t) # <<>> => read_text(t, f) = TypedOk(d)
  BY <1>1, <1>2
<1>. QED  BY <1>4, <1>5 DEF document

(* Text with no more damage than its code corrects is read right, and with *)
(* no more than tells words apart, right or not at all.                    *)
LEMMA DamagedReads ==
  ASSUME NEW d \in Documents, NEW f \in Frames, f.kind = "guarded", write_text(d, f).status = "ok",
         NEW t \in Seq(Chars), read_text(t, f).status # "character",
         NEW cells, cells = de_cinco_bits(Symbols(t)),
         NEW stream, stream = protect(d, f.parity), NEW p, p = Clamp(f.parity)
  PROVE  /\ Within(cells, stream, d, p, p - p \div 2) =>
              (read_text(t, f).status = "ok" => read_text(t, f) = TypedOk(d))
         /\ Within(cells, stream, d, p, p \div 2) /\ Len(cells) >= Len(stream) =>
              read_text(t, f) = TypedOk(d)
<1>1. f.parity \in Nat /\ f.parity <= MaxParity
  BY Base32Written
<1>2. p \in 2..MaxParity /\ stream = Laid(d, p)
  BY <1>1, Clamped, ProtectIs
<1>3. d \in Seq(Bytes) /\ Len(d) < Power(Radix, LengthBytes)
  BY DocumentIs
<1>4. PICK k \in Nat : Symbols(t) \in [1..k -> SymbolIn]
  BY SymbolsOfText
<1>. DEFINE m == (k * SymbolBits) \div ByteBits
            C == {cells[j] : j \in 1..m}
<1>5. m \in Nat /\ cells \in Seq(C) /\ Len(cells) = m
  <2>1. m \in Nat /\ ReadFrom(cells, Symbols(t), k, m, {0, 1})
    BY <1>4, CellsRead DEF SymbolIn
  <2>. HIDE DEF m
  <2>. QED  BY <2>1 DEF ReadFrom
<1>. HIDE DEF C, m
<1>6. /\ Within(cells, stream, d, p, p - p \div 2) => recover(cells) \in {None, Some(d)}
      /\ Within(cells, stream, d, p, p \div 2) /\ Len(stream) <= Len(cells) => recover(cells) = Some(d)
  BY <1>2, <1>3, <1>5, WithinReads
<1>7. ASSUME Len(cells) >= Len(stream) PROVE Symbols(t) # <<>> /\ Len(stream) <= Len(cells)
  <2>1. HeaderSize \in Nat \ {0} /\ HeaderSize <= Len(stream) /\ Len(stream) \in Nat
    BY <1>2, <1>3, LaidOut, Codes DEF Layout
  <2>2. Len(stream) <= m /\ m # 0
    BY <1>5, <1>7, <2>1
  <2>3. ASSUME Symbols(t) = <<>> PROVE FALSE
    <3>1. k = 0
      <4>. DEFINE x == Symbols(t)
      <4>1. x \in [1..k -> SymbolIn] /\ x = <<>>
        BY <1>4, <2>3
      <4>. HIDE DEF x
      <4>2. Len(x) = k
        BY <4>1
      <4>. QED  BY <4>1, <4>2
    <3>2. m = 0
      <4>1. ByteBits \in Nat \ {0} /\ SymbolBits \in Nat
        BY TecleableAssumption
      <4>2. k * SymbolBits = 0
        BY <3>1, <4>1
      <4>3. 0 \div ByteBits = 0
        <5>. DEFINE q == 0 \div ByteBits
        <5>1. q \in Nat /\ q <= 0 \div ByteBits
          BY <4>1, QuotientIsNat
        <5>2. q * ByteBits <= 0
          <6>. HIDE DEF q
          <6>. QED  BY <4>1, <5>1, TimesOfQuotient
        <5>. HIDE DEF q
        <5>3. q = 0
          BY <4>1, <5>1, <5>2
        <5>. QED  BY <5>3 DEF q
      <4>. QED  BY <4>2, <4>3 DEF m
    <3>. QED  BY <2>2, <3>2
  <2>. QED  BY <1>5, <2>2, <2>3
<1>. QED  BY <1>6, <1>7, RecoveredIsRead

-----------------------------------------------------------------------------
(* An element taken out of a list.                                         *)
IsRemoved(r, s, n, i) ==
  /\ \A j \in 1..(n - 1) : j < i => r[j] = s[j]
  /\ \A j \in 1..(n - 1) : j >= i => r[j] = s[j + 1]

LEMMA RemovedAt ==
  ASSUME NEW C, NEW n \in Nat, NEW s \in [1..n -> C], NEW i \in 1..n
  PROVE  /\ RemoveAt(s, i) \in [1..(n - 1) -> C]
         /\ IsRemoved(RemoveAt(s, i), s, n, i)
<1>. DEFINE a == SubSeq(s, 1, i - 1)
            z == SubSeq(s, i + 1, Len(s))
<1>1. Len(s) = n /\ s \in Seq(C)
  OBVIOUS
<1>2. a \in [1..(i - 1) -> C] /\ \A j \in 1..(i - 1) : a[j] = s[j]
  <2>1. 1 \in Int /\ i - 1 \in Int /\ \A j \in 1..(i - 1) : s[j] \in C
    OBVIOUS
  <2>2. /\ SubSeq(s, 1, i - 1) \in Seq(C)
        /\ Len(SubSeq(s, 1, i - 1)) = IF 1 <= i - 1 THEN (i - 1) - 1 + 1 ELSE 0
        /\ \A j \in 1..((i - 1) - 1 + 1) : SubSeq(s, 1, i - 1)[j] = s[1 + j - 1]
    BY <2>1, SubSeqProperties
  <2>3. Len(a) = i - 1 /\ a \in Seq(C)
    BY <2>2
  <2>4. \A j \in 1..(i - 1) : a[j] = s[j]
    <3>. SUFFICES ASSUME NEW j \in 1..(i - 1) PROVE a[j] = s[j]
      OBVIOUS
    <3>1. j \in 1..((i - 1) - 1 + 1) /\ 1 + j - 1 = j
      OBVIOUS
    <3>. QED  BY <2>2, <3>1
  <2>. HIDE DEF a
  <2>. QED  BY <2>3, <2>4
<1>3. z \in [1..(n - i) -> C] /\ \A j \in 1..(n - i) : z[j] = s[i + j]
  <2>1. i + 1 \in Int /\ n \in Int /\ \A j \in (i + 1)..n : s[j] \in C
    OBVIOUS
  <2>2. /\ SubSeq(s, i + 1, n) \in Seq(C)
        /\ Len(SubSeq(s, i + 1, n)) = IF i + 1 <= n THEN n - (i + 1) + 1 ELSE 0
        /\ \A j \in 1..(n - (i + 1) + 1) : SubSeq(s, i + 1, n)[j] = s[(i + 1) + j - 1]
    BY <2>1, SubSeqProperties
  <2>3. Len(z) = n - i /\ z \in Seq(C)
    BY <1>1, <2>2
  <2>4. \A j \in 1..(n - i) : z[j] = s[i + j]
    <3>. SUFFICES ASSUME NEW j \in 1..(n - i) PROVE z[j] = s[i + j]
      OBVIOUS
    <3>1. j \in 1..(n - (i + 1) + 1) /\ (i + 1) + j - 1 = i + j
      OBVIOUS
    <3>. QED  BY <1>1, <2>2, <3>1
  <2>. HIDE DEF z
  <2>. QED  BY <2>3, <2>4
<1>. HIDE DEF a, z
<1>4. IsJoined(a \o z, a, z, i - 1, n - i, C)
  BY <1>2, <1>3, Joined
<1>. DEFINE r == a \o z
<1>5. /\ r \in Seq(C) /\ Len(r) = n - 1
      /\ \A j \in 1..(i - 1) : r[j] = a[j]
      /\ \A j \in 1..(n - i) : r[(i - 1) + j] = z[j]
  <2>1. (i - 1) + (n - i) = n - 1
    OBVIOUS
  <2>. QED  BY <1>4, <2>1 DEF IsJoined
<1>. HIDE DEF r
<1>6. ASSUME NEW j \in 1..(n - 1), j < i PROVE r[j] = s[j]
  <2>1. j \in 1..(i - 1)
    BY <1>6
  <2>. QED  BY <1>2, <1>5, <2>1
<1>7. ASSUME NEW j \in 1..(n - 1), j >= i PROVE r[j] = s[j + 1]
  <2>. DEFINE k == j - (i - 1)
  <2>1. k \in 1..(n - i) /\ (i - 1) + k = j /\ i + k = j + 1
    BY <1>7
  <2>. HIDE DEF k
  <2>2. r[(i - 1) + k] = z[k] /\ z[k] = s[i + k]
    BY <1>3, <1>5, <2>1
  <2>. QED  BY <2>1, <2>2
<1>8. r \in [1..(n - 1) -> C]
  BY <1>5
<1>9. RemoveAt(s, i) = r
  BY DEF RemoveAt, r, a, z
<1>. QED  BY <1>6, <1>7, <1>8, <1>9 DEF IsRemoved

(* One wrong letter: what it leaves readable of a code of any parity.      *)
LEMMA OneWrongReads ==
  ASSUME NEW d \in Documents, NEW f \in Frames, f.kind = "guarded", write_text(d, f).status = "ok",
         NEW i \in 1..Len(write_text(d, f).data), NEW l \in SymbolIn,
         NEW t, t = ReplaceAt(write_text(d, f).data, i, Letter(l)),
         read_text(t, f).status # "character", NEW p, p = Clamp(f.parity)
  PROVE  /\ p >= 3 => (read_text(t, f).status = "ok" => read_text(t, f) = TypedOk(d))
         /\ p >= 4 => read_text(t, f) = TypedOk(d)
<1>1. PICK y, stream : \E n \in Nat, k \in Nat : IsGuarded(d, f, y, stream, n, k)
  BY GuardedText
<1>2. PICK n \in Nat, k \in Nat : IsGuarded(d, f, y, stream, n, k)
  BY <1>1
<1>. DEFINE V == SymbolIn
            z == [y EXCEPT ![i] = l]
            cells == de_cinco_bits(z)
<1>3. /\ p \in 2..MaxParity /\ stream = Laid(d, p) /\ stream \in [1..n -> Bytes]
      /\ y \in [1..k -> V] /\ Holds(y, k, stream, n)
      /\ n * ByteBits <= k * SymbolBits /\ k * SymbolBits < n * ByteBits + ByteBits
      /\ write_text(d, f).data = LettersFor(y, k)
  BY <1>2 DEF IsGuarded
<1>4. i \in 1..k
  <2>1. Len(LettersFor(y, k)) = k
    BY LettersAreLegible
  <2>. QED  BY <1>3, <2>1
<1>5. Len(stream) = n
  BY <1>3
<1>6. /\ cells \in Seq({cells[j] : j \in 1..n}) /\ Len(cells) = n
      /\ \A q \in 1..n : stream[q] # cells[q] => Touches(q, i)
  <2>1. ChangedAt(cells, stream, n, i)
    <3>. HIDE DEF z
    <3>1. ChangedAt(de_cinco_bits([y EXCEPT ![i] = l]), stream, n, i)
      BY <1>3, <1>4, WrongCells DEF SymbolIn
    <3>. QED  BY <3>1 DEF z
  <2>. HIDE DEF cells
  <2>. QED  BY <2>1 DEF ChangedAt
<1>. HIDE DEF V
<1>7. z \in [1..k -> V] /\ \A j \in 1..k : z[j] = IF j = i THEN l ELSE y[j]
  BY <1>3 DEF V
<1>8. t = LettersFor(z, k)
  <2>1. LettersFor(y, k) = [j \in 1..k |-> Letter(y[j])]
    BY DEF LettersFor
  <2>2. t = [j \in 1..k |-> IF j = i THEN Letter(l) ELSE Letter(y[j])]
    BY <1>3, <2>1 DEF ReplaceAt
  <2>. HIDE DEF z
  <2>. QED  BY <1>7, <2>2 DEF LettersFor
<1>. HIDE DEF z
<1>9. Symbols(t) = z /\ z # <<>>
  <2>1. Symbols(LettersFor(z, k)) = z
    BY <1>7, LettersAreRead
  <2>2. Len(z) = k /\ k # 0
    BY <1>4, <1>7
  <2>. QED  BY <1>8, <2>1, <2>2
<1>10. d \in Seq(Bytes) /\ Len(d) < Power(Radix, LengthBytes) /\ p \in Nat
  BY <1>3, DocumentIs
<1>. DEFINE R == {cells[j] : j \in 1..n}
<1>11. cells \in Seq(R)
  BY <1>6
<1>. HIDE DEF cells, R
<1>12. /\ Cardinality(Errors(stream, cells, HeaderSize)) <= HeaderFixes
       /\ \A b \in 1..BlocksOf(d, p) : /\ Cardinality(BlockErrors(stream, cells, d, p, b)) \in Nat
                                       /\ Cardinality(BlockErrors(stream, cells, d, p, b)) <= 2
  <2>1. \A q \in 1..Len(stream) : stream[q] # cells[q] => Touches(q, i)
    BY <1>5, <1>6
  <2>2. i \in Nat \ {0}
    BY <1>4
  <2>. QED  BY <1>3, <1>10, <2>1, <2>2, WrongIsWithin
<1>13. p >= 3 => p - (p \div 2) \in Nat /\ 2 <= p - (p \div 2)
  BY <1>10
<1>14. p >= 4 => p \div 2 \in Nat /\ 2 <= p \div 2
  BY <1>10
<1>15. p >= 3 => recover(cells) \in {None, Some(d)}
  <2>. SUFFICES ASSUME p >= 3 PROVE recover(cells) \in {None, Some(d)}
    OBVIOUS
  <2>1. \A b \in 1..BlocksOf(d, p) : Cardinality(BlockErrors(stream, cells, d, p, b)) <= p - (p \div 2)
    BY <1>12, <1>13
  <2>. QED  BY <1>3, <1>10, <1>11, <1>12, <2>1, RecoversNoOther
<1>16. p >= 4 => recover(cells) = Some(d)
  <2>. SUFFICES ASSUME p >= 4 PROVE recover(cells) = Some(d)
    OBVIOUS
  <2>1. \A b \in 1..BlocksOf(d, p) : Cardinality(BlockErrors(stream, cells, d, p, b)) <= p \div 2
    BY <1>12, <1>14
  <2>2. WithinTheBound(stream, cells, d, p)
    BY <1>12, <2>1 DEF WithinTheBound
  <2>3. Len(Laid(d, p)) <= Len(cells)
    BY <1>3, <1>5, <1>6
  <2>. QED  BY <1>3, <1>10, <1>11, <2>2, <2>3, Recovers
<1>. QED  BY <1>9, <1>15, <1>16, RecoveredIsRead DEF cells

-----------------------------------------------------------------------------
(* A slip leaves a character of the text in its place, puts one there or   *)
(* takes one away.                                                         *)
LEMMA SlipLeaves ==
  ASSUME NEW C, NEW c \in Seq(C), NEW i \in 1..Len(c), NEW L, L \subseteq C, Skipped \in C, Unclear \in C,
         NEW s \in Slips(c, i, L)
  PROVE  s[2] \in Seq(C)
<1>. DEFINE n == Len(c)
<1>1. n \in Nat /\ i \in 1..n /\ c \in [1..n -> C] /\ c[i] \in C
  BY LenProperties
<1>. HIDE DEF n
<1>2. \/ \E x \in C : s[2] = ReplaceAt(c, i, x)
      \/ \E x \in C : s[2] = InsertAt(c, i, x)
      \/ s[2] = RemoveAt(c, i)
  <2>1. \/ \E l \in L : s = <<"wrong", ReplaceAt(c, i, l)>>
        \/ \E l \in L : s = <<"added", InsertAt(c, i, l)>>
        \/ s = <<"dropped", RemoveAt(c, i)>>
        \/ s = <<"unclear", ReplaceAt(c, i, Unclear)>>
        \/ s = <<"spaced", InsertAt(c, i, Skipped)>>
        \/ s = <<"repeated", InsertAt(c, i, c[i])>>
    BY DEF Slips
  <2>. QED  BY <1>1, <2>1
<1>3. ASSUME NEW x \in C PROVE ReplaceAt(c, i, x) \in Seq(C)
  <2>1. [c EXCEPT ![i] = x] \in [1..n -> C]
    BY <1>1
  <2>2. ReplaceAt(c, i, x) \in [1..n -> C]
    BY <2>1 DEF ReplaceAt
  <2>. QED  BY <1>1, <2>2
<1>4. ASSUME NEW x \in C PROVE InsertAt(c, i, x) \in Seq(C)
  <2>1. InsertAt(c, i, x) \in [1..(n + 1) -> C] /\ n + 1 \in Nat
    <3>. DEFINE r == InsertAt(c, i, x)
    <3>1. r \in [1..(n + 1) -> C]
      BY <1>1, InsertedAt
    <3>. HIDE DEF r
    <3>2. n + 1 \in Nat
      BY <1>1
    <3>. QED  BY <3>1, <3>2 DEF r
  <2>. QED  BY <2>1
<1>5. RemoveAt(c, i) \in Seq(C)
  <2>1. RemoveAt(c, i) \in [1..(n - 1) -> C] /\ n - 1 \in Nat
    <3>. DEFINE r == RemoveAt(c, i)
    <3>1. r \in [1..(n - 1) -> C]
      BY <1>1, RemovedAt
    <3>. HIDE DEF r
    <3>2. n - 1 \in Nat
      BY <1>1
    <3>. QED  BY <3>1, <3>2 DEF r
  <2>. QED  BY <2>1
<1>. QED  BY <1>2, <1>3, <1>4, <1>5

(* Text under error correction has its characters, and after a single      *)
(* wrong letter those written but for that one.                            *)
InChars == text.characters \in Seq(Chars)
OneWrong ==
  slips = <<"wrong">> =>
    \E i \in 1..Len(Written(text).data), l \in SymbolIn :
      text.characters = ReplaceAt(Written(text).data, i, Letter(l))
GuardedInv == text # NoText /\ text.frame.kind = "guarded" => InChars /\ OneWrong

LEMMA InitGuarded == Init => GuardedInv
BY DEF Init, GuardedInv

LEMMA GuardedStays == GuardedInv /\ UNCHANGED <<text, slips>> => GuardedInv'
BY DEF GuardedInv, InChars, OneWrong, Written

LEMMA WrittenInChars ==
  ASSUME NEW d \in Documents, NEW f \in Frames, f.kind = "guarded", write_text(d, f).status = "ok"
  PROVE  write_text(d, f).data \in Seq(Chars)
<1>1. PICK y, stream : \E n \in Nat, k \in Nat : IsGuarded(d, f, y, stream, n, k)
  BY GuardedText
<1>2. PICK n \in Nat, k \in Nat : IsGuarded(d, f, y, stream, n, k)
  BY <1>1
<1>3. y \in [1..k -> SymbolIn] /\ write_text(d, f).data = LettersFor(y, k)
  BY <1>2 DEF IsGuarded
<1>4. \A i \in 1..k : Letter(y[i]) \in Chars
  BY <1>3 DEF Chars
<1>5. LettersFor(y, k) \in [1..k -> Chars]
  BY <1>4 DEF LettersFor
<1>. QED  BY <1>3, <1>5

LEMMA GuardedSlip ==
  ASSUME WordsInv, TextInv, GuardedInv, NEW i \in 1..Len(text.characters), Slip(i),
         text.frame.kind = "guarded"
  PROVE  GuardedInv'
<1>. DEFINE c == text.characters
            d == text.document
            f == text.frame
            w == Written(text).data
<1>1. /\ text # NoText
      /\ \E s \in Slips(c, i, Letters(f)) :
           /\ text' = [text EXCEPT !.characters = s[2]]
           /\ slips' = Append(slips, s[1])
  BY DEF Slip
<1>2. PICK s \in Slips(c, i, Letters(f)) :
           /\ text' = [text EXCEPT !.characters = s[2]]
           /\ slips' = Append(slips, s[1])
  BY <1>1
<1>3. Slipped
  BY DEF WordsInv
<1>4. text'.document = d /\ text'.frame = f /\ text'.characters = s[2]
  <2>1. text = [document |-> d, frame |-> f, characters |-> c]
    BY <1>3 DEF Slipped
  <2>. HIDE DEF d, f, c
  <2>. QED  BY <1>2, <2>1
<1>5. c \in Seq(Chars)
  BY <1>1 DEF GuardedInv, InChars
<1>6. Letters(f) = {Letter(v) : v \in SymbolIn}
  BY DEF Letters, SymbolIn
<1>. HIDE DEF c, d, f
<1>7. i \in 1..Len(c)
  BY DEF c
<1>8. s[2] \in Seq(Chars)
  <2>1. Letters(f) \subseteq Chars /\ Skipped \in Chars /\ Unclear \in Chars
    BY <1>6 DEF Chars
  <2>. HIDE DEF w
  <2>. QED  BY <1>5, <1>7, <2>1, SlipLeaves
<1>9. Written(text)' = Written(text)
  BY <1>4 DEF Written, d, f
<1>10. ASSUME slips' = <<"wrong">>
       PROVE  \E j \in 1..Len(w), l \in SymbolIn : s[2] = ReplaceAt(w, j, Letter(l))
  <2>1. /\ s[1] \in SlipNames
        /\ s[1] = "wrong" => \E l \in Letters(f) : s[2] = ReplaceAt(c, i, l)
    BY SlipMakes
  <2>2. slips = <<>> /\ s[1] = "wrong"
    BY <1>2, <1>3, <1>10, <2>1, SpaceNoted DEF Slipped
  <2>3. OnlySpaced
    BY <2>2 DEF OnlySpaced, Range
  <2>4. c = w
    BY <1>1, <2>2, <2>3 DEF TextInv, Kept, c
  <2>5. PICK l \in SymbolIn : s[2] = ReplaceAt(c, i, Letter(l))
    BY <1>6, <2>1, <2>2
  <2>6. i \in 1..Len(w)
    BY <1>7, <2>4
  <2>. QED  BY <2>4, <2>5, <2>6
<1>11. InChars'
  BY <1>4, <1>8 DEF InChars
<1>12. OneWrong'
  BY <1>4, <1>9, <1>10 DEF OneWrong, w
<1>. QED  BY <1>11, <1>12 DEF GuardedInv

LEMMA NextGuarded == WordsInv /\ TextInv /\ GuardedInv /\ [Next]_vars => GuardedInv'
<1>. SUFFICES ASSUME WordsInv, TextInv, GuardedInv, [Next]_vars PROVE GuardedInv'
  OBVIOUS
<1>0. Slipped
  BY DEF WordsInv
<1>1. ASSUME UNCHANGED <<text, slips>> PROVE GuardedInv'
  BY <1>1, GuardedStays
<1>2. ASSUME NEW d \in Documents, NEW f \in Frames, Type(d, f)
      PROVE  GuardedInv'
  <2>. DEFINE r == write_text(d, f)
  <2>1. /\ Blank /\ UNCHANGED slips
        /\ text' = IF r.status # "ok" THEN NoText ELSE [document |-> d, frame |-> f, characters |-> r.data]
    BY <1>2 DEF Type
  <2>2. slips' # <<"wrong">>
    BY <1>0, <2>1 DEF Slipped
  <2>3. CASE r.status # "ok"
    BY <2>1, <2>3 DEF GuardedInv
  <2>4. CASE r.status = "ok"
    <3>1. text'.frame = f /\ text'.characters = r.data
      BY <2>1, <2>4
    <3>2. f.kind = "guarded" => r.data \in Seq(Chars)
      BY <2>4, WrittenInChars
    <3>. HIDE DEF r
    <3>. QED  BY <2>2, <3>1, <3>2 DEF GuardedInv, InChars, OneWrong
  <2>. QED  BY <2>3, <2>4
<1>3. ASSUME NEW i \in 1..(Len(text.characters)), Slip(i)
      PROVE  GuardedInv'
  <2>1. CASE text.frame.kind = "guarded"
    BY <1>3, <2>1, GuardedSlip
  <2>2. CASE text.frame.kind # "guarded"
    <3>1. PICK s \in Slips(text.characters, i, Letters(text.frame)) :
             text' = [text EXCEPT !.characters = s[2]]
      BY <1>3 DEF Slip
    <3>2. text'.frame = text.frame
      <4>. DEFINE d == text.document
                  f == text.frame
                  c == text.characters
      <4>1. text = [document |-> d, frame |-> f, characters |-> c]
        BY <1>0 DEF Slipped
      <4>. HIDE DEF d, f, c
      <4>2. text'.frame = f
        BY <3>1, <4>1
      <4>. QED  BY <4>2 DEF f
    <3>. QED  BY <2>2, <3>2 DEF GuardedInv
  <2>. QED  BY <2>1, <2>2
<1>4. ASSUME NEW i \in 1..Len(phrase.words), WordSlip(i)
      PROVE  GuardedInv'
  <2>1. phrase # NoPhrase /\ text' = text
    BY <1>4 DEF WordSlip
  <2>2. text' = NoText
    BY <1>0, <2>1 DEF Slipped
  <2>. QED  BY <2>2 DEF GuardedInv
<1>5. \/ UNCHANGED <<text, slips>>
      \/ \E d \in Documents, f \in Frames : Type(d, f)
      \/ \E i \in 1..(Len(text.characters)) : Slip(i)
      \/ \E i \in 1..Len(phrase.words) : WordSlip(i)
  BY DEF Next, Frames, PrintSymbols, Scan, ScanStray, ScanAgain, ReadSymbols, ReadText, WriteWords,
         ReadWords, vars
<1>. QED  BY <1>1, <1>2, <1>3, <1>4, <1>5

LEMMA GuardedAlways == Spec => []GuardedInv
BY InitGuarded, NextGuarded, WordsAlways, TextAlways, PTL DEF Spec

(* What is typed under error correction is read right as long as neither   *)
(* the header nor a block is damaged in more bytes than its code corrects; *)
(* right or not at all as long as no block is damaged in more than tell    *)
(* its words apart; and with one wrong letter, right from four bytes of    *)
(* parity on and never as something else from three on: for any code that  *)
(* tells words apart as Reed-Solomon does, any document and any slips      *)
(* (ecc.rs protect, recover; papel.rs tecleable leer).                     *)
THEOREM GuardedTextAlwaysCorrected == Spec => []GuardedTextIsCorrected
<1>1. TextInv /\ GuardedInv => GuardedTextIsCorrected
  <2>. DEFINE d == text.document
              f == text.frame
              c == text.characters
              p == Clamp(f.parity)
              written == protect(d, f.parity)
              read == de_cinco_bits(Symbols(c))
              within(n) == Within(read, written, d, p, n)
              once == slips = <<"wrong">>
  <2>. SUFFICES ASSUME TextInv, GuardedInv, f.kind = "guarded", outcome # NotRead,
                       outcome.status # "character"
                PROVE  /\ within(p - p \div 2) \/ (once /\ p >= 3) => (outcome.status = "ok" => Read(d))
                       /\ (within(p \div 2) /\ Len(read) >= Len(written)) \/ (once /\ p >= 4) => Read(d)
    BY DEF GuardedTextIsCorrected, Within
  <2>1. text # NoText
    BY DEF NoText, Bare, Frame
  <2>2. /\ d \in Documents /\ f \in Frames /\ write_text(d, f).status = "ok"
        /\ outcome = read_text(c, f)
    BY <2>1 DEF TextInv, Origin, TextIsRead, Written
  <2>3. c \in Seq(Chars)
    BY <2>1 DEF GuardedInv, InChars
  <2>4. once => \E i \in 1..Len(write_text(d, f).data), l \in SymbolIn :
                  c = ReplaceAt(write_text(d, f).data, i, Letter(l))
    BY <2>1 DEF GuardedInv, OneWrong, Written
  <2>5. TypedOk(d).status = "ok" /\ TypedOk(d).data = d
    BY DEF TypedOk
  <2>. HIDE DEF d, f, c
  <2>6. /\ within(p - p \div 2) => (outcome.status = "ok" => outcome = TypedOk(d))
        /\ within(p \div 2) /\ Len(read) >= Len(written) => outcome = TypedOk(d)
    BY <2>2, <2>3, DamagedReads
  <2>7. once => /\ p >= 3 => (outcome.status = "ok" => outcome = TypedOk(d))
                /\ p >= 4 => outcome = TypedOk(d)
    BY <2>2, <2>4, OneWrongReads
  <2>. HIDE DEF within, once, p, read, written
  <2>. QED  BY <2>5, <2>6, <2>7 DEF Read
<1>. QED  BY <1>1, TextAlways, GuardedAlways, PTL
=============================================================================
