------------------------- MODULE SeedCustodyProofs -------------------------
(***************************************************************************)
(* The seed's custody for any field, seeds, thresholds and shares: gf_mul  *)
(* is the product of a field, so that shares of one deal restore what was  *)
(* dealt if there are enough of them and say nothing of it if there are    *)
(* fewer.  From that, and from what stays true of the shares that are      *)
(* kept, the properties of the specification.                              *)
(***************************************************************************)
EXTENDS SeedCustody, FiniteSetTheorems, WellFoundedInduction, TLAPS

-----------------------------------------------------------------------------
(* Recursion: every set of naturals has a least one, and a falling rank    *)
(* defines one function.                                                   *)

(* Every set of natural numbers that is not empty has a least one.         *)
LEMMA LeastOfNaturals ==
  ASSUME NEW S \in SUBSET Nat, S # {}
  PROVE  \E x \in S : \A y \in S : x <= y
<1>. DEFINE R == {p \in Nat \X Nat : p[1] < p[2]}
<1>1. IsWellFoundedOn(R, Nat)
  <2>1. OpToRel(<, Nat) = R
    BY DEF OpToRel
  <2>. QED  BY <2>1, NatLessThanWellFounded
<1>2. PICK x \in S : \A y \in S : ~ (<<y, x>> \in R)
  <2>. HIDE DEF R
  <2>. QED  BY <1>1, WFMin
<1>3. ASSUME NEW y \in S PROVE x <= y
  <2>1. x \in Nat /\ y \in Nat
    OBVIOUS
  <2>2. ~ (y < x)
    BY <1>2, <2>1
  <2>. QED  BY <2>1, <2>2
<1>. QED  BY <1>3

(* Induction, over a set instead of a formula.                             *)
LEMMA Induction ==
  ASSUME NEW T \in SUBSET Nat,
         \A n \in Nat : (\A m \in Nat : m < n => m \in T) => n \in T
  PROVE  T = Nat
<1>. SUFFICES ASSUME Nat \ T # {} PROVE FALSE
  OBVIOUS
<1>1. PICK x \in Nat \ T : \A y \in Nat \ T : x <= y
  <2>. DEFINE S == Nat \ T
  <2>1. S \in SUBSET Nat /\ S # {}
    OBVIOUS
  <2>2. \E x \in S : \A y \in S : x <= y
    <3>. HIDE DEF S
    <3>. QED  BY <2>1, LeastOfNaturals
  <2>. QED  BY <2>2
<1>2. \A m \in Nat : m < x => m \in T
  <2>. SUFFICES ASSUME NEW m \in Nat, m < x, m \notin T PROVE FALSE
    OBVIOUS
  <2>1. x <= m
    BY <1>1
  <2>. QED  BY <2>1
<1>. QED  BY <1>2

(* f is defined by recursion: base where the rank is 0, a step from the    *)
(* value at the next place elsewhere.                                      *)
Unfolds(f, d, rank, next, base, step) ==
  f[d] = IF rank[d] = 0 THEN base[d] ELSE step[<<d, f[next[d]]>>]

(* There is a function that a recursion with a falling rank defines.       *)
LEMMA Recursion ==
  ASSUME NEW D, NEW V, NEW rank \in [D -> Nat], NEW next \in [D -> D],
         NEW base \in [D -> V], NEW step \in [D \X V -> V],
         \A d \in D : rank[d] # 0 => rank[next[d]] < rank[d]
  PROVE  \E f \in [D -> V] : \A d \in D : Unfolds(f, d, rank, next, base, step)
<1>. DEFINE Upto(f, k) == /\ f \in [D -> V]
                          /\ \A d \in D : rank[d] <= k => Unfolds(f, d, rank, next, base, step)
            T == {k \in Nat : \E f : Upto(f, k)}
<1>1. T = Nat
  <2>1. ASSUME NEW n \in Nat, \A m \in Nat : m < n => m \in T PROVE n \in T
    <3>1. CASE n = 0
      <4>1. Upto(base, 0)
        BY DEF Unfolds
      <4>. QED  BY <3>1, <4>1
    <3>2. CASE n # 0
      <4>1. n - 1 \in Nat /\ n - 1 < n
        BY <3>2
      <4>2. n - 1 \in T
        BY <2>1, <4>1
      <4>3. PICK f : Upto(f, n - 1)
        BY <4>2
      <4>. DEFINE g == [d \in D |-> IF rank[d] <= n - 1 THEN f[d]
                                    ELSE step[<<d, f[next[d]]>>]]
      <4>4. g \in [D -> V]
        BY <4>3
      <4>5. ASSUME NEW d \in D, rank[d] <= n
            PROVE  Unfolds(g, d, rank, next, base, step)
        <5>1. rank[d] # 0 => g[next[d]] = f[next[d]]
          <6>. SUFFICES ASSUME rank[d] # 0 PROVE g[next[d]] = f[next[d]]
            OBVIOUS
          <6>1. next[d] \in D /\ rank[next[d]] \in Nat /\ rank[d] \in Nat
            OBVIOUS
          <6>2. rank[next[d]] < rank[d]
            OBVIOUS
          <6>3. rank[next[d]] <= n - 1
            BY <6>1, <6>2, <4>5
          <6>. QED  BY <6>1, <6>3
        <5>2. CASE rank[d] <= n - 1
          <6>1. g[d] = f[d]
            BY <5>2
          <6>2. Unfolds(f, d, rank, next, base, step)
            BY <4>3, <5>2
          <6>. QED  BY <5>1, <6>1, <6>2 DEF Unfolds
        <5>3. CASE ~(rank[d] <= n - 1)
          <6>1. rank[d] # 0
            BY <5>3, <4>1
          <6>2. g[d] = step[<<d, f[next[d]]>>]
            BY <5>3
          <6>. QED  BY <5>1, <6>1, <6>2 DEF Unfolds
        <5>. QED  BY <5>2, <5>3
      <4>6. Upto(g, n)
        BY <4>4, <4>5
      <4>. QED  BY <4>6
    <3>. QED  BY <3>1, <3>2
  <2>2. T \in SUBSET Nat
    OBVIOUS
  <2>. HIDE DEF T
  <2>. QED  BY <2>1, <2>2, Induction
<1>. DEFINE F == [k \in Nat |-> CHOOSE f : Upto(f, k)]
<1>2. ASSUME NEW k \in Nat PROVE Upto(F[k], k)
  <2>1. \E f : Upto(f, k)
    BY <1>1
  <2>. HIDE DEF Upto
  <2>. QED  BY <2>1
<1>. DEFINE Same(k) == \A d \in D : rank[d] = k =>
                         \A m \in Nat : k <= m => F[m][d] = F[k][d]
            U == {k \in Nat : Same(k)}
<1>3. U = Nat
  <2>1. ASSUME NEW n \in Nat, \A m \in Nat : m < n => m \in U PROVE n \in U
    <3>. SUFFICES ASSUME NEW d \in D, rank[d] = n, NEW m \in Nat, n <= m
         PROVE  F[m][d] = F[n][d]
      OBVIOUS
    <3>. HIDE DEF F
    <3>1. Unfolds(F[m], d, rank, next, base, step) /\ Unfolds(F[n], d, rank, next, base, step)
      BY <1>2
    <3>2. rank[d] # 0 => F[m][next[d]] = F[n][next[d]]
      <4>. SUFFICES ASSUME rank[d] # 0 PROVE F[m][next[d]] = F[n][next[d]]
        OBVIOUS
      <4>. DEFINE r == rank[next[d]]
      <4>1. next[d] \in D /\ r \in Nat /\ r < n
        OBVIOUS
      <4>2. Same(r)
        BY <2>1, <4>1
      <4>3. r <= m /\ r <= n
        BY <4>1
      <4>. QED  BY <4>1, <4>2, <4>3
    <3>. QED  BY <3>1, <3>2 DEF Unfolds
  <2>2. U \in SUBSET Nat
    OBVIOUS
  <2>. HIDE DEF U
  <2>. QED  BY <2>1, <2>2, Induction
<1>. DEFINE f == [d \in D |-> F[rank[d]][d]]
<1>. HIDE DEF F
<1>4. f \in [D -> V]
  BY <1>2
<1>5. ASSUME NEW d \in D PROVE Unfolds(f, d, rank, next, base, step)
  <2>1. Unfolds(F[rank[d]], d, rank, next, base, step)
    BY <1>2
  <2>2. rank[d] # 0 => F[rank[d]][next[d]] = f[next[d]]
    <3>. SUFFICES ASSUME rank[d] # 0 PROVE F[rank[d]][next[d]] = f[next[d]]
      OBVIOUS
    <3>1. rank[next[d]] \in Nat /\ rank[d] \in Nat /\ next[d] \in D
      OBVIOUS
    <3>2. rank[next[d]] <= rank[d]
      BY <3>1
    <3>3. Same(rank[next[d]])
      BY <1>3, <3>1
    <3>. QED  BY <3>1, <3>2, <3>3
  <2>3. f[d] = F[rank[d]][d]
    OBVIOUS
  <2>. HIDE DEF f
  <2>. QED  BY <2>1, <2>2, <2>3 DEF Unfolds
<1>. QED  BY <1>4, <1>5

-----------------------------------------------------------------------------
(* The exclusive or of naturals (shamir.rs, `^` on bytes).                 *)

(* The recursion that defines Power has a value at every natural.          *)
LEMMA PowerUnfolds ==
  /\ Power \in [Nat -> Nat]
  /\ \A n \in Nat : Power[n] = IF n = 0 THEN 1 ELSE 2 * Power[n - 1]
<1>. DEFINE rank == [n \in Nat |-> n]
            next == [n \in Nat |-> IF n = 0 THEN 0 ELSE n - 1]
            base == [n \in Nat |-> 1]
            step == [p \in Nat \X Nat |-> 2 * p[2]]
            Step(g) == [n \in Nat |-> IF n = 0 THEN 1 ELSE 2 * g[n - 1]]
<1>1. /\ rank \in [Nat -> Nat] /\ next \in [Nat -> Nat] /\ base \in [Nat -> Nat]
      /\ step \in [Nat \X Nat -> Nat]
      /\ \A n \in Nat : rank[n] # 0 => rank[next[n]] < rank[n]
  OBVIOUS
<1>2. PICK g \in [Nat -> Nat] : \A n \in Nat : Unfolds(g, n, rank, next, base, step)
  <2>. HIDE DEF rank, next, base, step
  <2>. QED  BY <1>1, Recursion
<1>3. ASSUME NEW n \in Nat PROVE g[n] = Step(g)[n]
  <2>1. g[n] = IF rank[n] = 0 THEN base[n] ELSE step[<<n, g[next[n]]>>]
    BY <1>2 DEF Unfolds
  <2>2. CASE n = 0
    BY <2>1, <2>2
  <2>3. CASE n # 0
    <3>1. next[n] = n - 1 /\ n - 1 \in Nat
      BY <2>3
    <3>2. g[n] = step[<<n, g[n - 1]>>]
      BY <2>1, <2>3, <3>1
    <3>3. g[n - 1] \in Nat
      BY <3>1
    <3>4. step[<<n, g[n - 1]>>] = 2 * g[n - 1]
      BY <3>3
    <3>. QED  BY <2>3, <3>2, <3>4
  <2>. QED  BY <2>2, <2>3
<1>4. g = Step(g)
  BY <1>3
<1>5. Power = CHOOSE h : h = Step(h)
  <2>. HIDE DEF rank, next, base, step
  <2>. QED  BY Zenon DEF Power
<1>6. Power = Step(Power)
  <2>. HIDE DEF Step
  <2>. QED  BY <1>4, <1>5
<1>7. \A n \in Nat : Power[n] = IF n = 0 THEN 1 ELSE 2 * Power[n - 1]
  BY <1>6
<1>8. Power = g
  <2>. DEFINE T == {n \in Nat : Power[n] = g[n]}
  <2>1. ASSUME NEW n \in Nat, \A m \in Nat : m < n => m \in T PROVE n \in T
    <3>1. CASE n = 0
      BY <1>3, <1>7, <3>1
    <3>2. CASE n # 0
      <4>1. n - 1 \in Nat /\ n - 1 < n
        BY <3>2
      <4>2. Power[n - 1] = g[n - 1]
        BY <2>1, <4>1
      <4>. QED  BY <1>3, <1>7, <3>2, <4>2
    <3>. QED  BY <3>1, <3>2
  <2>2. T = Nat
    <3>1. T \in SUBSET Nat
      OBVIOUS
    <3>. HIDE DEF T
    <3>. QED  BY <2>1, <3>1, Induction
  <2>3. \A n \in Nat : Power[n] = g[n]
    BY <2>2
  <2>. QED  BY <1>4, <1>6, <2>3
<1>. QED  BY <1>7, <1>8

(* So has the one of the exclusive or.                                     *)
LEMMA XorUnfolds ==
  /\ Xor \in [Nat -> [Nat -> Nat]]
  /\ \A a, b \in Nat : Xor[a][b] = IF a = 0 THEN b
                                   ELSE ((a + b) % 2) + 2 * Xor[a \div 2][b \div 2]
<1>. DEFINE V == [Nat -> Nat]
            rank == [n \in Nat |-> n]
            next == [n \in Nat |-> n \div 2]
            base == [n \in Nat |-> [b \in Nat |-> b]]
            step == [p \in Nat \X V |-> [b \in Nat |-> ((p[1] + b) % 2) + 2 * p[2][b \div 2]]]
            Step(g) == [a \in Nat |-> [b \in Nat |->
                         IF a = 0 THEN b ELSE ((a + b) % 2) + 2 * g[a \div 2][b \div 2]]]
<1>1. /\ rank \in [Nat -> Nat] /\ next \in [Nat -> Nat] /\ base \in [Nat -> V]
      /\ \A n \in Nat : rank[n] # 0 => rank[next[n]] < rank[n]
  OBVIOUS
<1>2. step \in [Nat \X V -> V]
  <2>. SUFFICES ASSUME NEW p \in Nat \X V, NEW b \in Nat
       PROVE  ((p[1] + b) % 2) + 2 * p[2][b \div 2] \in Nat
    OBVIOUS
  <2>1. b \div 2 \in Nat /\ p[1] \in Nat /\ p[2] \in V
    OBVIOUS
  <2>2. p[2][b \div 2] \in Nat /\ (p[1] + b) % 2 \in Nat
    BY <2>1
  <2>. QED  BY <2>2
<1>3. PICK g \in [Nat -> V] : \A n \in Nat : Unfolds(g, n, rank, next, base, step)
  <2>. HIDE DEF V, rank, next, base, step
  <2>. QED  BY <1>1, <1>2, Recursion
<1>4. ASSUME NEW n \in Nat PROVE g[n] = Step(g)[n]
  <2>1. g[n] = IF rank[n] = 0 THEN base[n] ELSE step[<<n, g[next[n]]>>]
    BY <1>3 DEF Unfolds
  <2>2. CASE n = 0
    BY <2>1, <2>2
  <2>3. CASE n # 0
    <3>1. next[n] = n \div 2 /\ n \div 2 \in Nat
      BY <2>3
    <3>2. g[n] = step[<<n, g[n \div 2]>>]
      BY <2>1, <2>3, <3>1
    <3>3. g[n \div 2] \in V
      BY <3>1
    <3>4. step[<<n, g[n \div 2]>>] = [b \in Nat |-> ((n + b) % 2) + 2 * g[n \div 2][b \div 2]]
      BY <3>3
    <3>. QED  BY <2>3, <3>2, <3>4
  <2>. QED  BY <2>2, <2>3
<1>5. g = Step(g)
  BY <1>4
<1>6. Xor = CHOOSE h : h = Step(h)
  <2>. HIDE DEF rank, next, base, step
  <2>. QED  BY Zenon DEF Xor
<1>7. Xor = Step(Xor)
  <2>. HIDE DEF Step
  <2>. QED  BY <1>5, <1>6
<1>8. \A a, b \in Nat : Xor[a][b] = IF a = 0 THEN b
                                    ELSE ((a + b) % 2) + 2 * Xor[a \div 2][b \div 2]
  <2>. TAKE a, b \in Nat
  <2>1. Xor[a][b] = Step(Xor)[a][b]
    <3>. HIDE DEF Step
    <3>. QED  BY <1>7
  <2>. QED  BY <2>1
<1>9. \A a \in Nat : Xor[a] = Step(Xor)[a]
  BY <1>7
<1>10. ASSUME NEW n \in Nat PROVE Xor[n] \in [Nat -> Nat]
  <2>. DEFINE T == {a \in Nat : \A b \in Nat : Xor[a][b] \in Nat}
  <2>1. ASSUME NEW a \in Nat, \A m \in Nat : m < a => m \in T PROVE a \in T
    <3>. SUFFICES ASSUME NEW b \in Nat PROVE Xor[a][b] \in Nat
      OBVIOUS
    <3>1. CASE a = 0
      BY <1>8, <3>1
    <3>2. CASE a # 0
      <4>1. a \div 2 \in Nat /\ a \div 2 < a /\ b \div 2 \in Nat
        BY <3>2
      <4>2. Xor[a \div 2][b \div 2] \in Nat
        BY <2>1, <4>1
      <4>3. Xor[a][b] = ((a + b) % 2) + 2 * Xor[a \div 2][b \div 2]
        BY <1>8, <3>2
      <4>4. (a + b) % 2 \in Nat
        OBVIOUS
      <4>. DEFINE h == Xor[a \div 2][b \div 2]
                  bit == (a + b) % 2
      <4>. HIDE DEF h, bit
      <4>5. h \in Nat
        BY <4>2 DEF h
      <4>6. bit \in Nat
        BY <4>4 DEF bit
      <4>7. bit + 2 * h \in Nat
        BY <4>5, <4>6
      <4>. QED  BY <4>3, <4>7 DEF h, bit
    <3>. QED  BY <3>1, <3>2
  <2>2. T = Nat
    <3>1. T \in SUBSET Nat
      OBVIOUS
    <3>. HIDE DEF T
    <3>. QED  BY <2>1, <3>1, Induction
  <2>3. \A b \in Nat : Xor[n][b] \in Nat
    <3>1. n \in T
      <4>. HIDE DEF T
      <4>. QED  BY <2>2
    <3>. QED  BY <3>1
  <2>4. Xor[n] = [b \in Nat |-> Xor[n][b]]
    <3>1. Xor[n] = [b \in Nat |->
             IF n = 0 THEN b ELSE ((n + b) % 2) + 2 * Xor[n \div 2][b \div 2]]
      BY <1>9
    <3>. QED  BY <3>1
  <2>. QED  BY <2>3, <2>4
<1>11. Xor \in [Nat -> [Nat -> Nat]]
  <2>1. Xor = [a \in Nat |-> Xor[a]]
    BY <1>7
  <2>. QED  BY <1>10, <2>1
<1>. QED  BY <1>8, <1>11

(* The last bit of an exclusive or, and the rest of it.                    *)
LEMMA XorHalves ==
  ASSUME NEW a \in Nat, NEW b \in Nat
  PROVE  /\ Xor[a][b] \in Nat
         /\ Xor[a][b] % 2 = (a + b) % 2
         /\ Xor[a][b] \div 2 = Xor[a \div 2][b \div 2]
<1>1. a \div 2 \in Nat /\ b \div 2 \in Nat /\ (a + b) % 2 \in 0..1
  OBVIOUS
<1>2. Xor[a][b] \in Nat /\ Xor[a \div 2][b \div 2] \in Nat
  BY <1>1, XorUnfolds
<1>3. Xor[a][b] = IF a = 0 THEN b ELSE ((a + b) % 2) + 2 * Xor[a \div 2][b \div 2]
  BY XorUnfolds
<1>4. CASE a = 0
  <2>1. a \div 2 = 0
    BY <1>4
  <2>2. Xor[a \div 2][b \div 2] = b \div 2
    BY <1>1, <2>1, XorUnfolds
  <2>3. Xor[a][b] = b /\ a + b = b
    BY <1>3, <1>4
  <2>. QED  BY <2>2, <2>3
<1>5. CASE a # 0
  <2>. DEFINE h == Xor[a \div 2][b \div 2]
              bit == (a + b) % 2
              x == Xor[a][b]
  <2>. HIDE DEF h, bit, x
  <2>1. x = bit + 2 * h
    BY <1>3, <1>5 DEF h, bit, x
  <2>2. bit \in 0..1 /\ h \in Nat /\ x \in Nat
    BY <1>1, <1>2 DEF h, bit, x
  <2>3. x % 2 = bit /\ x \div 2 = h
    BY <2>1, <2>2
  <2>. QED  BY <2>2, <2>3 DEF h, bit, x
<1>. QED  BY <1>4, <1>5

(* A number is known by its last bit and the rest.                         *)
LEMMA Halves ==
  ASSUME NEW p \in Nat, NEW q \in Nat, p % 2 = q % 2, p \div 2 = q \div 2
  PROVE  p = q
<1>1. p = 2 * (p \div 2) + (p % 2) /\ q = 2 * (q \div 2) + (q % 2)
  OBVIOUS
<1>. QED  BY <1>1

(* Zero changes nothing.                                                   *)
LEMMA XorZero ==
  ASSUME NEW a \in Nat
  PROVE  Xor[0][a] = a /\ Xor[a][0] = a
<1>1. Xor[0][a] = a
  BY XorUnfolds
<1>. DEFINE T == {n \in Nat : Xor[n][0] = n}
<1>2. ASSUME NEW n \in Nat, \A m \in Nat : m < n => m \in T PROVE n \in T
  <2>1. CASE n = 0
    BY <2>1, XorUnfolds
  <2>2. CASE n # 0
    <3>1. n \div 2 \in Nat /\ n \div 2 < n
      BY <2>2
    <3>2. Xor[n \div 2][0] = n \div 2
      BY <1>2, <3>1
    <3>. DEFINE x == Xor[n][0]
    <3>3. x \in Nat /\ x % 2 = n % 2 /\ x \div 2 = n \div 2
      <4>1. /\ x \in Nat /\ x % 2 = (n + 0) % 2
            /\ x \div 2 = Xor[n \div 2][0 \div 2]
        BY XorHalves
      <4>2. 0 \div 2 = 0 /\ n + 0 = n
        OBVIOUS
      <4>. HIDE DEF x
      <4>. QED  BY <3>2, <4>1, <4>2
    <3>. HIDE DEF x
    <3>4. x = n
      BY <3>3, Halves
    <3>. QED  BY <3>4 DEF x
  <2>. QED  BY <2>1, <2>2
<1>3. T \in SUBSET Nat
  OBVIOUS
<1>4. T = Nat
  <2>. HIDE DEF T
  <2>. QED  BY <1>2, <1>3, Induction
<1>5. a \in T
  <2>. HIDE DEF T
  <2>. QED  BY <1>4
<1>. QED  BY <1>1, <1>5

(* The exclusive or is the same either way round.                          *)
LEMMA XorCommutes ==
  ASSUME NEW a \in Nat, NEW b \in Nat
  PROVE  Xor[a][b] = Xor[b][a]
<1>. DEFINE T == {n \in Nat : \A p, q \in Nat : p + q = n => Xor[p][q] = Xor[q][p]}
<1>1. ASSUME NEW n \in Nat, \A m \in Nat : m < n => m \in T PROVE n \in T
  <2>. SUFFICES ASSUME NEW p \in Nat, NEW q \in Nat, p + q = n
       PROVE  Xor[p][q] = Xor[q][p]
    OBVIOUS
  <2>1. CASE p = 0
    BY <2>1, XorZero
  <2>2. CASE p # 0
    <3>. DEFINE P == p \div 2
                Q == q \div 2
    <3>1. P \in Nat /\ Q \in Nat /\ P + Q \in Nat /\ P + Q < n
      BY <2>2
    <3>. HIDE DEF P, Q
    <3>2. P + Q \in T
      <4>. HIDE DEF T
      <4>. QED  BY <1>1, <3>1
    <3>3. Xor[P][Q] = Xor[Q][P]
      BY <3>1, <3>2
    <3>. DEFINE x == Xor[p][q]
                y == Xor[q][p]
    <3>4. /\ x \in Nat /\ y \in Nat
          /\ x % 2 = (p + q) % 2 /\ y % 2 = (q + p) % 2
          /\ x \div 2 = Xor[P][Q] /\ y \div 2 = Xor[Q][P]
      BY XorHalves DEF P, Q
    <3>5. (p + q) % 2 = (q + p) % 2
      OBVIOUS
    <3>. HIDE DEF x, y
    <3>6. x = y
      BY <3>3, <3>4, <3>5, Halves
    <3>. QED  BY <3>6 DEF x, y
  <2>. QED  BY <2>1, <2>2
<1>2. T \in SUBSET Nat
  OBVIOUS
<1>3. a + b \in T
  <2>. HIDE DEF T
  <2>1. T = Nat
    BY <1>1, <1>2, Induction
  <2>. QED  BY <2>1
<1>. QED  BY <1>3

(* However three numbers are grouped, it is the same.                      *)
LEMMA XorAssociates ==
  ASSUME NEW a \in Nat, NEW b \in Nat, NEW c \in Nat
  PROVE  Xor[Xor[a][b]][c] = Xor[a][Xor[b][c]]
<1>. DEFINE T == {n \in Nat : \A p, q, r \in Nat : p + q + r = n =>
                    Xor[Xor[p][q]][r] = Xor[p][Xor[q][r]]}
<1>1. ASSUME NEW n \in Nat, \A m \in Nat : m < n => m \in T PROVE n \in T
  <2>. SUFFICES ASSUME NEW p \in Nat, NEW q \in Nat, NEW r \in Nat, p + q + r = n
       PROVE  Xor[Xor[p][q]][r] = Xor[p][Xor[q][r]]
    OBVIOUS
  <2>1. CASE n = 0
    <3>1. p = 0 /\ q = 0 /\ r = 0
      BY <2>1
    <3>2. Xor[0][0] = 0
      BY XorZero
    <3>. QED  BY <3>1, <3>2
  <2>2. CASE n # 0
    <3>. DEFINE P == p \div 2
                Q == q \div 2
                R == r \div 2
    <3>1. P \in Nat /\ Q \in Nat /\ R \in Nat /\ P + Q + R \in Nat /\ P + Q + R < n
      BY <2>2
    <3>. HIDE DEF P, Q, R
    <3>2. P + Q + R \in T
      <4>. HIDE DEF T
      <4>. QED  BY <1>1, <3>1
    <3>3. Xor[Xor[P][Q]][R] = Xor[P][Xor[Q][R]]
      BY <3>1, <3>2
    <3>. DEFINE u == Xor[p][q]
                v == Xor[q][r]
                x == Xor[u][r]
                y == Xor[p][v]
    <3>4. /\ u \in Nat /\ v \in Nat
          /\ u % 2 = (p + q) % 2 /\ v % 2 = (q + r) % 2
          /\ u \div 2 = Xor[P][Q] /\ v \div 2 = Xor[Q][R]
      BY XorHalves DEF P, Q, R
    <3>. HIDE DEF u, v
    <3>5. /\ x \in Nat /\ y \in Nat
          /\ x % 2 = (u + r) % 2 /\ y % 2 = (p + v) % 2
          /\ x \div 2 = Xor[Xor[P][Q]][R] /\ y \div 2 = Xor[P][Xor[Q][R]]
      <4>1. /\ x \in Nat /\ y \in Nat
            /\ x % 2 = (u + r) % 2 /\ y % 2 = (p + v) % 2
            /\ x \div 2 = Xor[u \div 2][r \div 2] /\ y \div 2 = Xor[p \div 2][v \div 2]
        BY <3>4, XorHalves
      <4>. HIDE DEF x, y
      <4>. QED  BY <3>4, <4>1 DEF P, R
    <3>6. (u + r) % 2 = (p + v) % 2
      BY <3>4
    <3>. HIDE DEF x, y
    <3>7. x = y
      BY <3>3, <3>5, <3>6, Halves
    <3>. QED  BY <3>7 DEF x, y, u, v
  <2>. QED  BY <2>1, <2>2
<1>2. T \in SUBSET Nat
  OBVIOUS
<1>3. a + b + c \in T
  <2>. HIDE DEF T
  <2>1. T = Nat
    BY <1>1, <1>2, Induction
  <2>. QED  BY <2>1
<1>. QED  BY <1>3

(* A number cancels itself.                                                *)
LEMMA XorSelf ==
  ASSUME NEW a \in Nat
  PROVE  Xor[a][a] = 0
<1>. DEFINE T == {n \in Nat : Xor[n][n] = 0}
<1>2. ASSUME NEW n \in Nat, \A m \in Nat : m < n => m \in T PROVE n \in T
  <2>1. CASE n = 0
    BY <2>1, XorZero
  <2>2. CASE n # 0
    <3>. DEFINE N == n \div 2
    <3>1. N \in Nat /\ N < n
      BY <2>2
    <3>2. Xor[N][N] = 0
      BY <1>2, <3>1
    <3>. DEFINE x == Xor[n][n]
    <3>3. x \in Nat /\ x % 2 = (n + n) % 2 /\ x \div 2 = Xor[N][N]
      BY XorHalves
    <3>4. (n + n) % 2 = 0
      OBVIOUS
    <3>. HIDE DEF x, N
    <3>5. x = 0
      BY <3>2, <3>3, <3>4
    <3>. QED  BY <3>5 DEF x
  <2>. QED  BY <2>1, <2>2
<1>3. T \in SUBSET Nat
  OBVIOUS
<1>5. a \in T
  <2>. HIDE DEF T
  <2>1. T = Nat
    BY <1>2, <1>3, Induction
  <2>. QED  BY <2>1
<1>. QED  BY <1>5

(* Doubling moves the bits of both by one place.                           *)
LEMMA XorTwice ==
  ASSUME NEW a \in Nat, NEW b \in Nat
  PROVE  Xor[2 * a][2 * b] = 2 * Xor[a][b]
<1>. DEFINE x == Xor[2 * a][2 * b]
            y == Xor[a][b]
<1>1. 2 * a \in Nat /\ 2 * b \in Nat /\ (2 * a) \div 2 = a /\ (2 * b) \div 2 = b
  OBVIOUS
<1>2. x \in Nat /\ x % 2 = (2 * a + 2 * b) % 2 /\ x \div 2 = y
  BY <1>1, XorHalves
<1>3. (2 * a + 2 * b) % 2 = 0
  OBVIOUS
<1>. HIDE DEF x, y
<1>4. x = 2 * y
  BY <1>2, <1>3
<1>. QED  BY <1>4 DEF x, y

(* The exclusive or of two numbers of n bits has n bits.                   *)
LEMMA XorBits ==
  ASSUME NEW n \in Nat, NEW a \in Nat, NEW b \in Nat, a < Power[n], b < Power[n]
  PROVE  Xor[a][b] < Power[n]
<1>. DEFINE T == {k \in Nat : \A p, q \in Nat : p < Power[k] /\ q < Power[k] => Xor[p][q] < Power[k]}
<1>1. ASSUME NEW k \in Nat, \A m \in Nat : m < k => m \in T PROVE k \in T
  <2>. SUFFICES ASSUME NEW p \in Nat, NEW q \in Nat, p < Power[k], q < Power[k]
       PROVE  Xor[p][q] < Power[k]
    OBVIOUS
  <2>1. CASE k = 0
    <3>1. Power[k] = 1
      BY <2>1, PowerUnfolds
    <3>2. p = 0 /\ q = 0
      BY <3>1
    <3>. QED  BY <3>1, <3>2, XorZero
  <2>2. CASE k # 0
    <3>. DEFINE h == Power[k - 1]
                P == p \div 2
                Q == q \div 2
                x == Xor[p][q]
    <3>1. k - 1 \in Nat /\ k - 1 < k
      BY <2>2
    <3>2. Power[k] = 2 * h /\ h \in Nat
      BY <2>2, <3>1, PowerUnfolds
    <3>. HIDE DEF h
    <3>3. P \in Nat /\ Q \in Nat /\ P < h /\ Q < h
      BY <3>2
    <3>4. k - 1 \in T
      <4>. HIDE DEF T
      <4>. QED  BY <1>1, <3>1
    <3>5. x \in Nat /\ x \div 2 = Xor[P][Q]
      BY XorHalves
    <3>. HIDE DEF P, Q, x
    <3>6. Xor[P][Q] < h
      BY <3>3, <3>4 DEF h
    <3>7. x \div 2 < h
      BY <3>5, <3>6
    <3>8. x < 2 * h
      BY <3>2, <3>5, <3>7
    <3>. QED  BY <3>2, <3>8 DEF x
  <2>. QED  BY <2>1, <2>2
<1>2. T \in SUBSET Nat
  OBVIOUS
<1>3. n \in T
  <2>. HIDE DEF T
  <2>1. T = Nat
    BY <1>1, <1>2, Induction
  <2>. QED  BY <2>1
<1>. QED  BY <1>3

-----------------------------------------------------------------------------
(* The elements of the field as bits, and twice an element (gf_mul, the    *)
(* shift and the reduction).                                               *)

a ++ b == Xor[a][b]

Top == Power[Width - 1]
Modulus == Order + Reduction

(* The same laws, written with ++.                                         *)
LEMMA PlusLaws ==
  ASSUME NEW a \in Nat, NEW b \in Nat
  PROVE  a ++ b \in Nat /\ a ++ b = b ++ a /\ a ++ a = 0 /\ a ++ 0 = a /\ 0 ++ a = a
BY XorHalves, XorCommutes, XorSelf, XorZero DEF ++

(* However three numbers are grouped, the sum is the same.                 *)
LEMMA PlusAssociates ==
  ASSUME NEW a \in Nat, NEW b \in Nat, NEW c \in Nat
  PROVE  (a ++ b) ++ c = a ++ (b ++ c)
BY XorAssociates DEF ++

(* Four numbers add up the same in another order.                          *)
LEMMA XorExchange ==
  ASSUME NEW a \in Nat, NEW b \in Nat, NEW c \in Nat, NEW d \in Nat
  PROVE  (a ++ b) ++ (c ++ d) = (a ++ c) ++ (b ++ d)
<1>1. a ++ b \in Nat /\ c ++ d \in Nat /\ a ++ c \in Nat /\ b ++ d \in Nat
  BY PlusLaws
<1>2. (a ++ b) ++ (c ++ d) = a ++ (b ++ (c ++ d))
  BY <1>1, PlusAssociates
<1>3. b ++ (c ++ d) = (b ++ c) ++ d
  BY PlusAssociates
<1>4. b ++ c = c ++ b
  BY PlusLaws
<1>5. (c ++ b) ++ d = c ++ (b ++ d)
  BY PlusAssociates
<1>6. a ++ (c ++ (b ++ d)) = (a ++ c) ++ (b ++ d)
  BY <1>1, PlusAssociates
<1>. QED  BY <1>2, <1>3, <1>4, <1>5, <1>6

(* A power of two and a smaller number have no bit in common.              *)
LEMMA PowerPlus ==
  ASSUME NEW n \in Nat, NEW r \in Nat, r < Power[n]
  PROVE  Power[n] \in Nat \ {0} /\ Power[n] ++ r = Power[n] + r
<1>. DEFINE T == {k \in Nat : /\ Power[k] \in Nat \ {0}
                              /\ \A s \in Nat : s < Power[k] => Power[k] ++ s = Power[k] + s}
<1>1. ASSUME NEW k \in Nat, \A m \in Nat : m < k => m \in T PROVE k \in T
  <2>1. CASE k = 0
    <3>1. Power[k] = 1
      BY <2>1, PowerUnfolds
    <3>2. \A s \in Nat : s < 1 => s = 0
      OBVIOUS
    <3>3. 1 ++ 0 = 1
      BY PlusLaws
    <3>. QED  BY <3>1, <3>2, <3>3
  <2>2. CASE k # 0
    <3>. DEFINE h == Power[k - 1]
    <3>1. k - 1 \in Nat /\ k - 1 < k
      BY <2>2
    <3>2. k - 1 \in T
      <4>. HIDE DEF T
      <4>. QED  BY <1>1, <3>1
    <3>3. h \in Nat \ {0} /\ \A s \in Nat : s < h => h ++ s = h + s
      BY <3>2
    <3>4. Power[k] = 2 * h
      BY <2>2, PowerUnfolds
    <3>. HIDE DEF h
    <3>5. Power[k] \in Nat \ {0}
      BY <3>3, <3>4
    <3>6. ASSUME NEW s \in Nat, s < Power[k] PROVE Power[k] ++ s = Power[k] + s
      <4>. DEFINE S == s \div 2
                  x == (2 * h) ++ s
      <4>1. S \in Nat /\ S < h
        BY <3>3, <3>4, <3>6
      <4>2. 2 * h \in Nat /\ (2 * h) \div 2 = h
        BY <3>3
      <4>3. /\ x \in Nat /\ x % 2 = (2 * h + s) % 2
            /\ x \div 2 = h ++ S
        BY <4>2, XorHalves DEF ++
      <4>. HIDE DEF S, x
      <4>4. h ++ S = h + S
        BY <3>3, <4>1
      <4>5. x \div 2 = h + S
        BY <4>3, <4>4
      <4>6. x = 2 * h + s
        BY <3>3, <4>3, <4>5, <4>1 DEF S
      <4>. QED  BY <3>4, <4>6 DEF x
    <3>. QED  BY <3>5, <3>6
  <2>. QED  BY <2>1, <2>2
<1>2. T \in SUBSET Nat
  OBVIOUS
<1>3. n \in T
  <2>. HIDE DEF T
  <2>1. T = Nat
    BY <1>1, <1>2, Induction
  <2>. QED  BY <2>1
<1>. QED  BY <1>3

(* The field is an initial segment of the naturals, twice as long as its   *)
(* highest bit.                                                            *)
LEMMA FieldSize ==
  /\ Top \in Nat \ {0} /\ Order = 2 * Top /\ Order \in Nat
  /\ Field \subseteq Nat /\ 0 \in Field /\ 1 \in Field /\ Top \in Field
  /\ Reduction \in Field /\ Modulus \in Nat /\ Modulus = Order ++ Reduction
  /\ \A a \in Nat : a \in Field <=> a < Order
<1>1. Width \in Nat \ {0} /\ Reduction \in Field
  BY ShamirAssumption
<1>2. Width - 1 \in Nat
  BY <1>1
<1>3. Order = 2 * Top
  BY <1>1, PowerUnfolds DEF Order, Top
<1>4. Top \in Nat \ {0}
  <2>1. Power[Width - 1] \in Nat
    BY <1>2, PowerUnfolds
  <2>2. Power[0] = 1
    BY PowerUnfolds
  <2>. DEFINE T == {k \in Nat : Power[k] > 0}
  <2>3. ASSUME NEW k \in Nat, \A m \in Nat : m < k => m \in T PROVE k \in T
    <3>1. CASE k = 0
      BY <2>2, <3>1
    <3>2. CASE k # 0
      <4>1. k - 1 \in Nat /\ k - 1 < k
        BY <3>2
      <4>2. Power[k - 1] > 0 /\ Power[k - 1] \in Nat
        BY <2>3, <4>1, PowerUnfolds
      <4>3. Power[k] = 2 * Power[k - 1]
        BY <3>2, PowerUnfolds
      <4>. QED  BY <4>2, <4>3
    <3>. QED  BY <3>1, <3>2
  <2>4. Width - 1 \in T
    <3>1. T \in SUBSET Nat
      OBVIOUS
    <3>. HIDE DEF T
    <3>2. T = Nat
      BY <2>3, <3>1, Induction
    <3>. QED  BY <1>2, <3>2
  <2>. QED  BY <2>1, <2>4 DEF Top
<1>5. Order \in Nat /\ 1 < Order /\ Top < Order
  BY <1>3, <1>4
<1>6. /\ Field \subseteq Nat /\ 0 \in Field /\ 1 \in Field /\ Top \in Field
      /\ \A a \in Nat : a \in Field <=> a < Order
  BY <1>4, <1>5 DEF Field
<1>7. Modulus \in Nat
  BY <1>1, <1>5, <1>6 DEF Modulus
<1>8. Modulus = Order ++ Reduction
  <2>1. Reduction \in Nat /\ Reduction < Order
    BY <1>1, <1>6
  <2>. QED  BY <1>1, <2>1, PowerPlus DEF Modulus, Order
<1>. QED  BY <1>1, <1>3, <1>4, <1>5, <1>6, <1>7, <1>8

(* No bit is added above the highest one of the two.                       *)
LEMMA XorInField ==
  ASSUME NEW a \in Field, NEW b \in Field
  PROVE  a ++ b \in Field
<1>1. a \in Nat /\ b \in Nat /\ a < Order /\ b < Order
  BY FieldSize
<1>2. Width \in Nat
  BY ShamirAssumption
<1>3. Xor[a][b] < Order
  BY <1>1, <1>2, XorBits DEF Order
<1>4. Xor[a][b] \in Nat
  BY <1>1, XorHalves
<1>. QED  BY <1>3, <1>4, FieldSize DEF ++

(* What an element has above the field's highest bit but one.              *)
Over(a) == IF a >= Top THEN Modulus ELSE 0

(* Twice an element, with the polynomial added if it overflows.            *)
LEMMA DoubledIs ==
  ASSUME NEW a \in Field
  PROVE  Doubled(a) = (2 * a) ++ Over(a) /\ Over(a) \in Nat /\ 2 * a \in Nat
<1>1. a \in Nat /\ 2 * a \in Nat
  BY FieldSize
<1>2. 2 * a < Order <=> ~ (a >= Top)
  BY <1>1, FieldSize
<1>3. CASE a >= Top
  BY <1>1, <1>2, <1>3, FieldSize DEF Doubled, Over, Modulus, ++
<1>4. CASE ~ (a >= Top)
  <2>1. Doubled(a) = 2 * a /\ Over(a) = 0
    BY <1>2, <1>4 DEF Doubled, Over
  <2>2. (2 * a) ++ 0 = 2 * a
    BY <1>1, PlusLaws
  <2>. QED  BY <1>1, <2>1, <2>2
<1>. QED  BY <1>3, <1>4

(* The highest bit of a sum is the sum of the highest bits.                *)
LEMMA OverIsLinear ==
  ASSUME NEW a \in Field, NEW b \in Field
  PROVE  Over(a ++ b) = Over(a) ++ Over(b)
<1>. DEFINE n == Width - 1
<1>1. n \in Nat /\ Top = Power[n] /\ Top \in Nat
  BY ShamirAssumption, FieldSize DEF Top
<1>. HIDE DEF n
<1>2. /\ a \in Nat /\ b \in Nat /\ a < 2 * Top /\ b < 2 * Top /\ Modulus \in Nat
  BY FieldSize
<1>3. \A c, d \in Nat : c < Top /\ d < Top => (c ++ d) < Top /\ c ++ d \in Nat
  BY <1>1, XorBits, PlusLaws DEF ++
<1>4. \A c \in Nat : c < Top => Top ++ c = Top + c
  BY <1>1, PowerPlus
<1>5. ASSUME NEW c \in Nat, NEW d \in Nat, c >= Top, c < 2 * Top, d < Top
      PROVE  c ++ d \in Nat /\ c ++ d >= Top
  <2>. DEFINE r == c - Top
  <2>1. r \in Nat /\ r < Top /\ c = Top + r
    BY <1>1, <1>5
  <2>. HIDE DEF r
  <2>2. c = Top ++ r
    BY <1>4, <2>1
  <2>3. c ++ d = Top ++ (r ++ d)
    BY <1>1, <2>1, <2>2, PlusAssociates
  <2>4. r ++ d \in Nat /\ (r ++ d) < Top
    BY <1>3, <1>5, <2>1
  <2>5. c ++ d = Top + (r ++ d)
    BY <1>4, <2>3, <2>4
  <2>. QED  BY <1>1, <2>4, <2>5
<1>6. ASSUME NEW c \in Nat, NEW d \in Nat, c >= Top, c < 2 * Top, d >= Top, d < 2 * Top
      PROVE  c ++ d \in Nat /\ (c ++ d) < Top
  <2>. DEFINE r == c - Top
              s == d - Top
  <2>1. r \in Nat /\ r < Top /\ c = Top + r /\ s \in Nat /\ s < Top /\ d = Top + s
    BY <1>1, <1>6
  <2>. HIDE DEF r, s
  <2>2. c = Top ++ r /\ d = Top ++ s
    BY <1>4, <2>1
  <2>3. (Top ++ r) ++ (Top ++ s) = (Top ++ Top) ++ (r ++ s)
    BY <1>1, <2>1, XorExchange
  <2>4. r ++ s \in Nat /\ (r ++ s) < Top
    BY <1>3, <2>1
  <2>5. Top ++ Top = 0 /\ 0 ++ (r ++ s) = r ++ s
    BY <1>1, <2>4, PlusLaws
  <2>. QED  BY <2>2, <2>3, <2>4, <2>5
<1>7. Modulus ++ Modulus = 0 /\ Modulus ++ 0 = Modulus /\ 0 ++ Modulus = Modulus /\ 0 ++ 0 = 0
  BY <1>2, PlusLaws
<1>8. CASE a >= Top /\ b >= Top
  <2>1. a ++ b \in Nat /\ (a ++ b) < Top
    BY <1>2, <1>6, <1>8
  <2>2. ~ (a ++ b >= Top)
    BY <1>1, <2>1
  <2>. QED  BY <1>7, <1>8, <2>2 DEF Over
<1>9. CASE a >= Top /\ ~ (b >= Top)
  <2>1. a ++ b >= Top
    BY <1>1, <1>2, <1>5, <1>9
  <2>. QED  BY <1>7, <1>9, <2>1 DEF Over
<1>10. CASE ~ (a >= Top) /\ b >= Top
  <2>1. a ++ b = b ++ a
    BY <1>2, PlusLaws
  <2>2. b ++ a >= Top
    BY <1>1, <1>2, <1>5, <1>10
  <2>. QED  BY <1>7, <1>10, <2>1, <2>2 DEF Over
<1>11. CASE ~ (a >= Top) /\ ~ (b >= Top)
  <2>1. a ++ b \in Nat /\ (a ++ b) < Top
    BY <1>1, <1>2, <1>3, <1>11, SMTT(30)
  <2>2. ~ (a ++ b >= Top)
    BY <1>1, <2>1
  <2>. QED  BY <1>7, <1>11, <2>2 DEF Over
<1>. QED  BY <1>8, <1>9, <1>10, <1>11

(* Doubling a sum doubles its parts.                                       *)
LEMMA DoubledIsLinear ==
  ASSUME NEW a \in Field, NEW b \in Field
  PROVE  Doubled(a ++ b) = Doubled(a) ++ Doubled(b)
<1>1. a ++ b \in Field /\ a \in Nat /\ b \in Nat
  BY XorInField, FieldSize
<1>2. Doubled(a ++ b) = (2 * (a ++ b)) ++ Over(a ++ b)
  BY <1>1, DoubledIs
<1>3. 2 * (a ++ b) = (2 * a) ++ (2 * b)
  BY <1>1, XorTwice DEF ++
<1>4. Over(a ++ b) = Over(a) ++ Over(b)
  BY OverIsLinear
<1>5. /\ 2 * a \in Nat /\ 2 * b \in Nat /\ Over(a) \in Nat /\ Over(b) \in Nat
      /\ Doubled(a) = (2 * a) ++ Over(a) /\ Doubled(b) = (2 * b) ++ Over(b)
  BY DoubledIs
<1>. DEFINE A == 2 * a
            B == 2 * b
<1>. HIDE DEF A, B
<1>6. (A ++ B) ++ (Over(a) ++ Over(b)) = (A ++ Over(a)) ++ (B ++ Over(b))
  BY <1>5, XorExchange DEF A, B
<1>. QED  BY <1>2, <1>3, <1>4, <1>5, <1>6 DEF A, B

(* Twice an element is one.                                                *)
LEMMA DoubledInField ==
  ASSUME NEW a \in Field
  PROVE  Doubled(a) \in Field
<1>1. a \in Nat /\ a < Order /\ Order \in Nat /\ 2 * a \in Nat
  BY FieldSize
<1>2. CASE 2 * a < Order
  BY <1>1, <1>2, FieldSize DEF Doubled
<1>3. CASE ~ (2 * a < Order)
  <2>. DEFINE r == 2 * a - Order
  <2>1. r \in Nat /\ r < Order /\ 2 * a = Order + r
    BY <1>1, <1>3
  <2>. HIDE DEF r
  <2>2. 2 * a = Order ++ r
    <3>1. Width \in Nat
      BY ShamirAssumption
    <3>. QED  BY <2>1, <3>1, PowerPlus DEF Order
  <2>3. Doubled(a) = (2 * a) ++ Modulus
    BY <1>3 DEF Doubled, ++, Modulus
  <2>4. Reduction \in Nat /\ Reduction \in Field /\ Modulus = Order ++ Reduction
    BY FieldSize
  <2>5. (Order ++ r) ++ (Order ++ Reduction) = (Order ++ Order) ++ (r ++ Reduction)
    BY <1>1, <2>1, <2>4, XorExchange
  <2>6. r \in Field
    BY <2>1, FieldSize
  <2>7. r ++ Reduction \in Field /\ r ++ Reduction \in Nat
    BY <2>1, <2>4, <2>6, XorInField, PlusLaws
  <2>8. Order ++ Order = 0 /\ 0 ++ (r ++ Reduction) = r ++ Reduction
    BY <1>1, <2>7, PlusLaws
  <2>. QED  BY <2>2, <2>3, <2>4, <2>5, <2>7, <2>8
<1>. QED  BY <1>2, <1>3

(* Twice nothing is nothing.                                               *)
LEMMA DoubledZero == Doubled(0) = 0
<1>1. 2 * 0 = 0 /\ 0 < Order
  BY FieldSize
<1>. QED  BY <1>1 DEF Doubled

-----------------------------------------------------------------------------
(* The rounds of gf_mul: linear in both factors.                           *)

(* An element, or 0 if the bit is not set.                                 *)
Masked(bit, a) == IF bit = 1 THEN a ELSE 0

(* The recursion of the rounds has a value at every natural.               *)
LEMMA RoundsUnfold ==
  /\ Rounds \in [Nat -> [Field -> Field]]
  /\ \A b \in Nat, a \in Field :
       Rounds[b][a] = IF b = 0 THEN 0 ELSE Masked(b % 2, a) ++ Rounds[b \div 2][Doubled(a)]
<1>. DEFINE V == [Field -> Field]
            rank == [n \in Nat |-> n]
            next == [n \in Nat |-> n \div 2]
            base == [n \in Nat |-> [a \in Field |-> 0]]
            step == [p \in Nat \X V |-> [a \in Field |-> Xor[IF p[1] % 2 = 1 THEN a ELSE 0][p[2][Doubled(a)]]]]
            Step(g) == [b \in Nat |-> [a \in Field |->
               IF b = 0 THEN 0 ELSE Xor[IF b % 2 = 1 THEN a ELSE 0][g[b \div 2][Doubled(a)]]]]
<1>1. /\ rank \in [Nat -> Nat] /\ next \in [Nat -> Nat]
      /\ \A n \in Nat : rank[n] # 0 => rank[next[n]] < rank[n]
  OBVIOUS
<1>2. base \in [Nat -> V]
  BY FieldSize
<1>3. step \in [Nat \X V -> V]
  <2>. SUFFICES ASSUME NEW p \in Nat \X V, NEW a \in Field
       PROVE  Xor[IF p[1] % 2 = 1 THEN a ELSE 0][p[2][Doubled(a)]] \in Field
    OBVIOUS
  <2>1. Doubled(a) \in Field /\ p[2] \in V
    BY DoubledInField
  <2>2. p[2][Doubled(a)] \in Field /\ (IF p[1] % 2 = 1 THEN a ELSE 0) \in Field
    BY <2>1, FieldSize
  <2>. DEFINE x == p[2][Doubled(a)]
              y == IF p[1] % 2 = 1 THEN a ELSE 0
  <2>. HIDE DEF x, y
  <2>3. y ++ x \in Field
    BY <2>2, XorInField DEF x, y
  <2>. QED  BY <2>3 DEF x, y, ++
<1>4. PICK g \in [Nat -> V] : \A n \in Nat : Unfolds(g, n, rank, next, base, step)
  <2>. HIDE DEF V, rank, next, base, step
  <2>. QED  BY <1>1, <1>2, <1>3, Recursion
<1>5. ASSUME NEW n \in Nat PROVE g[n] = Step(g)[n]
  <2>1. g[n] = IF rank[n] = 0 THEN base[n] ELSE step[<<n, g[next[n]]>>]
    BY <1>4 DEF Unfolds
  <2>2. CASE n = 0
    BY <2>1, <2>2
  <2>3. CASE n # 0
    <3>1. next[n] = n \div 2 /\ n \div 2 \in Nat
      BY <2>3
    <3>2. g[n] = step[<<n, g[n \div 2]>>]
      BY <2>1, <2>3, <3>1
    <3>3. g[n \div 2] \in V
      BY <3>1
    <3>4. step[<<n, g[n \div 2]>>] = [a \in Field |-> Xor[IF n % 2 = 1 THEN a ELSE 0][g[n \div 2][Doubled(a)]]]
      BY <3>3
    <3>. QED  BY <2>3, <3>2, <3>4
  <2>. QED  BY <2>2, <2>3
<1>6. g = Step(g)
  BY <1>5
<1>7. Rounds = CHOOSE h : h = Step(h)
  <2>. HIDE DEF V, rank, next, base, step
  <2>. QED  BY Zenon DEF Rounds
<1>8. Rounds = Step(Rounds)
  <2>. HIDE DEF Step
  <2>. QED  BY <1>6, <1>7
<1>9. ASSUME NEW n \in Nat PROVE Rounds[n] = Step(Rounds)[n]
  <2>. HIDE DEF Step
  <2>. QED  BY <1>8
<1>10. Rounds = [n \in Nat |-> Rounds[n]]
  <2>1. Step(Rounds) = [n \in Nat |-> Step(Rounds)[n]]
    OBVIOUS
  <2>2. \A n \in Nat : Rounds[n] = Step(Rounds)[n]
    BY <1>9
  <2>. HIDE DEF Step
  <2>. QED  BY <1>8, <2>1, <2>2
<1>11. ASSUME NEW n \in Nat PROVE Rounds[n] = g[n]
  <2>. DEFINE T == {k \in Nat : Rounds[k] = g[k]}
  <2>1. ASSUME NEW k \in Nat, \A m \in Nat : m < k => m \in T PROVE k \in T
    <3>1. Rounds[k] = Step(Rounds)[k] /\ g[k] = Step(g)[k]
      <4>. HIDE DEF Step
      <4>. QED  BY <1>5, <1>9
    <3>2. k # 0 => Rounds[k \div 2] = g[k \div 2]
      <4>. SUFFICES ASSUME k # 0 PROVE Rounds[k \div 2] = g[k \div 2]
        OBVIOUS
      <4>1. k \div 2 \in Nat /\ k \div 2 < k
        OBVIOUS
      <4>. QED  BY <2>1, <4>1
    <3>3. Step(Rounds)[k] = Step(g)[k]
      BY <3>2
    <3>. HIDE DEF Step
    <3>. QED  BY <3>1, <3>3
  <2>2. T \in SUBSET Nat
    OBVIOUS
  <2>3. n \in T
    <3>. HIDE DEF T
    <3>1. T = Nat
      BY <2>1, <2>2, Induction
    <3>. QED  BY <3>1
  <2>. QED  BY <2>3
<1>12. Rounds \in [Nat -> V]
  BY <1>10, <1>11
<1>13. ASSUME NEW b \in Nat, NEW a \in Field
       PROVE  Rounds[b][a] = IF b = 0 THEN 0 ELSE Masked(b % 2, a) ++ Rounds[b \div 2][Doubled(a)]
  <2>1. Rounds[b][a] = Step(Rounds)[b][a]
    <3>. HIDE DEF Step
    <3>. QED  BY <1>9
  <2>. QED  BY <2>1 DEF Masked, ++
<1>. QED  BY <1>12, <1>13

(* An element taken or left by a bit: sums and doubling do not mind.       *)
LEMMA MaskedLaws ==
  ASSUME NEW bit \in 0..1, NEW a \in Field, NEW b \in Field
  PROVE  /\ Masked(bit, a) \in Field
         /\ Masked(bit, a ++ b) = Masked(bit, a) ++ Masked(bit, b)
         /\ Doubled(Masked(bit, a)) = Masked(bit, Doubled(a))
<1>1. 0 ++ 0 = 0
  BY PlusLaws
<1>. QED  BY <1>1, FieldSize, DoubledZero DEF Masked

(* A round of the product, also when there is none left.                   *)
LEMMA Round ==
  ASSUME NEW b \in Nat, NEW a \in Field
  PROVE  /\ Rounds[b][a] \in Field
         /\ b \div 2 \in Nat /\ b % 2 \in 0..1
         /\ Rounds[b][a] = Masked(b % 2, a) ++ Rounds[b \div 2][Doubled(a)]
<1>1. Rounds[b][a] \in Field
  BY RoundsUnfold
<1>2. b \div 2 \in Nat /\ b % 2 \in 0..1
  OBVIOUS
<1>3. CASE b = 0
  <2>1. b \div 2 = 0 /\ b % 2 = 0
    BY <1>3
  <2>2. Doubled(a) \in Field
    BY DoubledInField
  <2>3. Rounds[0][Doubled(a)] = 0 /\ Rounds[b][a] = 0
    BY <1>3, <2>2, RoundsUnfold
  <2>4. Masked(0, a) = 0 /\ 0 ++ 0 = 0
    BY PlusLaws DEF Masked
  <2>. QED  BY <1>1, <1>2, <2>1, <2>3, <2>4
<1>4. CASE b # 0
  BY <1>1, <1>2, <1>4, RoundsUnfold
<1>. QED  BY <1>3, <1>4

(* No rounds are left for zero.                                            *)
LEMMA RoundsZero ==
  ASSUME NEW a \in Field
  PROVE  Rounds[0][a] = 0
BY RoundsUnfold

(* The rounds of a sum, in the first factor.                               *)
LEMMA RoundsLinear ==
  ASSUME NEW b \in Nat, NEW a \in Field, NEW c \in Field
  PROVE  Rounds[b][a ++ c] = Rounds[b][a] ++ Rounds[b][c]
<1>. DEFINE T == {n \in Nat : \A x, y \in Field : Rounds[n][x ++ y] = Rounds[n][x] ++ Rounds[n][y]}
<1>1. ASSUME NEW n \in Nat, \A m \in Nat : m < n => m \in T PROVE n \in T
  <2>. SUFFICES ASSUME NEW x \in Field, NEW y \in Field
       PROVE  Rounds[n][x ++ y] = Rounds[n][x] ++ Rounds[n][y]
    OBVIOUS
  <2>. DEFINE h == n \div 2
              bit == n % 2
  <2>1. CASE n = 0
    <3>1. 0 ++ 0 = 0 /\ x ++ y \in Field
      BY PlusLaws, XorInField
    <3>. QED  BY <2>1, <3>1, RoundsZero
  <2>2. CASE n # 0
    <3>1. h \in Nat /\ h < n /\ bit \in 0..1
      BY <2>2
    <3>2. /\ x ++ y \in Field /\ Doubled(x) \in Field /\ Doubled(y) \in Field
          /\ Doubled(x ++ y) = Doubled(x) ++ Doubled(y)
      BY XorInField, DoubledInField, DoubledIsLinear
    <3>3. /\ Rounds[n][x ++ y] = Masked(bit, x ++ y) ++ Rounds[h][Doubled(x ++ y)]
          /\ Rounds[n][x] = Masked(bit, x) ++ Rounds[h][Doubled(x)]
          /\ Rounds[n][y] = Masked(bit, y) ++ Rounds[h][Doubled(y)]
      BY <3>2, Round
    <3>. HIDE DEF h, bit
    <3>4. Rounds[h][Doubled(x) ++ Doubled(y)] = Rounds[h][Doubled(x)] ++ Rounds[h][Doubled(y)]
      BY <1>1, <3>1, <3>2
    <3>5. Masked(bit, x ++ y) = Masked(bit, x) ++ Masked(bit, y)
      BY <3>1, MaskedLaws
    <3>. DEFINE A == Masked(bit, x)
                B == Masked(bit, y)
                C == Rounds[h][Doubled(x)]
                E == Rounds[h][Doubled(y)]
    <3>6. A \in Nat /\ B \in Nat /\ C \in Nat /\ E \in Nat
      BY <3>1, <3>2, MaskedLaws, Round, FieldSize
    <3>. HIDE DEF A, B, C, E
    <3>7. (A ++ B) ++ (C ++ E) = (A ++ C) ++ (B ++ E)
      BY <3>6, XorExchange
    <3>. QED  BY <3>2, <3>3, <3>4, <3>5, <3>7 DEF A, B, C, E
  <2>. QED  BY <2>1, <2>2
<1>2. T \in SUBSET Nat
  OBVIOUS
<1>3. b \in T
  <2>. HIDE DEF T
  <2>1. T = Nat
    BY <1>1, <1>2, Induction
  <2>. QED  BY <2>1
<1>. QED  BY <1>3

(* The rounds of a doubled factor are those of the factor, doubled.        *)
LEMMA RoundsDoubled ==
  ASSUME NEW b \in Nat, NEW a \in Field
  PROVE  Rounds[b][Doubled(a)] = Doubled(Rounds[b][a])
<1>. DEFINE T == {n \in Nat : \A x \in Field : Rounds[n][Doubled(x)] = Doubled(Rounds[n][x])}
<1>1. ASSUME NEW n \in Nat, \A m \in Nat : m < n => m \in T PROVE n \in T
  <2>. SUFFICES ASSUME NEW x \in Field
       PROVE  Rounds[n][Doubled(x)] = Doubled(Rounds[n][x])
    OBVIOUS
  <2>. DEFINE h == n \div 2
              bit == n % 2
              d == Doubled(x)
  <2>0. d \in Field
    BY DoubledInField
  <2>1. CASE n = 0
    BY <2>0, <2>1, RoundsZero, DoubledZero
  <2>2. CASE n # 0
    <3>1. h \in Nat /\ h < n /\ bit \in 0..1
      BY <2>2
    <3>2. /\ Rounds[n][x] = Masked(bit, x) ++ Rounds[h][d]
          /\ Rounds[n][d] = Masked(bit, d) ++ Rounds[h][Doubled(d)]
      BY <2>0, Round
    <3>. HIDE DEF h, bit
    <3>3. Rounds[h][Doubled(d)] = Doubled(Rounds[h][d])
      BY <1>1, <2>0, <3>1
    <3>4. Masked(bit, x) \in Field /\ Doubled(Masked(bit, x)) = Masked(bit, d)
      BY <3>1, MaskedLaws
    <3>5. Rounds[h][d] \in Field
      BY <2>0, <3>1, Round
    <3>. HIDE DEF d
    <3>6. Doubled(Masked(bit, x) ++ Rounds[h][d]) = Doubled(Masked(bit, x)) ++ Doubled(Rounds[h][d])
      BY <3>4, <3>5, DoubledIsLinear
    <3>7. Rounds[n][d] = Doubled(Rounds[n][x])
      BY <3>2, <3>3, <3>4, <3>6
    <3>. QED  BY <3>7 DEF d
  <2>. QED  BY <2>1, <2>2
<1>2. T \in SUBSET Nat
  OBVIOUS
<1>3. b \in T
  <2>. HIDE DEF T
  <2>1. T = Nat
    BY <1>1, <1>2, Induction
  <2>. QED  BY <2>1
<1>. QED  BY <1>3

(* A round, from the other side.                                           *)
LEMMA RoundOut ==
  ASSUME NEW b \in Nat, NEW a \in Field
  PROVE  Rounds[b][a] = Masked(b % 2, a) ++ Doubled(Rounds[b \div 2][a])
<1>1. b \div 2 \in Nat /\ Rounds[b][a] = Masked(b % 2, a) ++ Rounds[b \div 2][Doubled(a)]
  BY Round
<1>. QED  BY <1>1, RoundsDoubled

(* The rounds of a sum, in the second factor.                              *)
LEMMA RoundsXor ==
  ASSUME NEW b \in Nat, NEW c \in Nat, NEW a \in Field
  PROVE  Rounds[b ++ c][a] = Rounds[b][a] ++ Rounds[c][a]
<1>. DEFINE T == {n \in Nat : \A p, q \in Nat : p + q = n =>
                    \A x \in Field : Rounds[p ++ q][x] = Rounds[p][x] ++ Rounds[q][x]}
<1>1. ASSUME NEW n \in Nat, \A m \in Nat : m < n => m \in T PROVE n \in T
  <2>. SUFFICES ASSUME NEW p \in Nat, NEW q \in Nat, p + q = n, NEW x \in Field
       PROVE  Rounds[p ++ q][x] = Rounds[p][x] ++ Rounds[q][x]
    OBVIOUS
  <2>1. CASE n = 0
    <3>1. p = 0 /\ q = 0 /\ 0 ++ 0 = 0
      BY <2>1, PlusLaws
    <3>. QED  BY <3>1, RoundsZero
  <2>2. CASE n # 0
    <3>. DEFINE P == p \div 2
                Q == q \div 2
                s == p ++ q
                d == Doubled(x)
    <3>1. P \in Nat /\ Q \in Nat /\ P + Q \in Nat /\ P + Q < n
      BY <2>2
    <3>2. s \in Nat /\ s % 2 = (p + q) % 2 /\ s \div 2 = P ++ Q
      BY XorHalves DEF ++
    <3>3. d \in Field
      BY DoubledInField
    <3>. HIDE DEF s, d
    <3>4. /\ Rounds[p][x] = Masked(p % 2, x) ++ Rounds[P][d]
          /\ Rounds[q][x] = Masked(q % 2, x) ++ Rounds[Q][d]
          /\ Rounds[s][x] = Masked(s % 2, x) ++ Rounds[P ++ Q][d]
      BY <3>2, Round DEF d
    <3>5. P + Q \in T
      <4>. HIDE DEF T, P, Q
      <4>. QED  BY <1>1, <3>1
    <3>6. Rounds[P ++ Q][d] = Rounds[P][d] ++ Rounds[Q][d]
      <4>. HIDE DEF P, Q
      <4>. QED  BY <3>1, <3>3, <3>5
    <3>7. Masked(s % 2, x) = Masked(p % 2, x) ++ Masked(q % 2, x)
      <4>1. x \in Nat /\ x ++ x = 0 /\ x ++ 0 = x /\ 0 ++ x = x /\ 0 ++ 0 = 0
        BY FieldSize, PlusLaws
      <4>2. s % 2 = 1 <=> (p % 2 = 1 /\ q % 2 # 1) \/ (p % 2 # 1 /\ q % 2 = 1)
        BY <3>2
      <4>. QED  BY <4>1, <4>2 DEF Masked
    <3>. DEFINE A == Masked(p % 2, x)
                B == Masked(q % 2, x)
                C == Rounds[P][d]
                E == Rounds[Q][d]
    <3>8. A \in Nat /\ B \in Nat /\ C \in Nat /\ E \in Nat
      <4>1. p % 2 \in 0..1 /\ q % 2 \in 0..1
        OBVIOUS
      <4>2. A \in Field /\ B \in Field
        BY <4>1, MaskedLaws
      <4>. HIDE DEF P, Q
      <4>3. C \in Field /\ E \in Field
        BY <3>1, <3>3, Round
      <4>. HIDE DEF A, B, C, E
      <4>. QED  BY <4>2, <4>3, FieldSize
    <3>. HIDE DEF A, B, C, E
    <3>9. (A ++ B) ++ (C ++ E) = (A ++ C) ++ (B ++ E)
      BY <3>8, XorExchange
    <3>10. Rounds[s][x] = Rounds[p][x] ++ Rounds[q][x]
      <4>. HIDE DEF P, Q
      <4>. QED  BY <3>4, <3>6, <3>7, <3>9 DEF A, B, C, E
    <3>. QED  BY <3>10 DEF s
  <2>. QED  BY <2>1, <2>2
<1>2. T \in SUBSET Nat
  OBVIOUS
<1>3. b + c \in T
  <2>. HIDE DEF T
  <2>1. T = Nat
    BY <1>1, <1>2, Induction
  <2>. QED  BY <2>1
<1>. QED  BY <1>3

-----------------------------------------------------------------------------
(* Products commute and associate: gf_mul is the product of a ring.        *)

(* Zero times anything is zero.                                            *)
LEMMA RoundsOfZero ==
  ASSUME NEW b \in Nat
  PROVE  Rounds[b][0] = 0
<1>1. 0 \in Field /\ 0 ++ 0 = 0
  BY FieldSize, PlusLaws
<1>. DEFINE z == Rounds[b][0]
<1>2. Rounds[b][0 ++ 0] = z ++ z
  BY <1>1, RoundsLinear
<1>3. z \in Nat
  BY <1>1, Round, FieldSize
<1>. HIDE DEF z
<1>4. z ++ z = 0
  BY <1>3, PlusLaws
<1>. QED  BY <1>1, <1>2, <1>4 DEF z

(* An element is rebuilt from its last bit and the rest of them.           *)
LEMMA Rebuilt ==
  ASSUME NEW m \in Field
  PROVE  /\ m \div 2 \in Field /\ m % 2 \in 0..1 /\ m % 2 \in Field
         /\ m = (m % 2) ++ Doubled(m \div 2)
<1>. DEFINE h == m \div 2
            bit == m % 2
<1>1. m \in Nat /\ m < Order /\ Order \in Nat
  BY FieldSize
<1>2. h \in Nat /\ h <= m /\ bit \in 0..1 /\ m = 2 * h + bit /\ 2 * h < Order
  BY <1>1
<1>. HIDE DEF h, bit
<1>3. h \in Field /\ bit \in Field
  BY <1>1, <1>2, FieldSize
<1>4. Doubled(h) = 2 * h
  BY <1>2 DEF Doubled
<1>. DEFINE x == bit ++ (2 * h)
<1>5. /\ x \in Nat /\ x % 2 = (bit + 2 * h) % 2
      /\ x \div 2 = (bit \div 2) ++ ((2 * h) \div 2)
  <2>1. bit \in Nat /\ 2 * h \in Nat
    BY <1>2
  <2>. QED  BY <2>1, XorHalves DEF ++
<1>6. bit \div 2 = 0 /\ (2 * h) \div 2 = h /\ 0 ++ h = h
  BY <1>2, PlusLaws
<1>. HIDE DEF x
<1>7. x \div 2 = h
  BY <1>5, <1>6
<1>8. x % 2 = bit
  BY <1>2, <1>5
<1>9. x = m
  BY <1>2, <1>5, <1>7, <1>8
<1>. QED  BY <1>2, <1>3, <1>4, <1>9 DEF x, h, bit

(* One is neutral.                                                         *)
LEMMA RoundsOfOne ==
  ASSUME NEW b \in Field
  PROVE  Rounds[b][1] = b
<1>. DEFINE T == {n \in Nat : n \in Field => Rounds[n][1] = n}
<1>0. 1 \in Field /\ Field \subseteq Nat
  BY FieldSize
<1>1. ASSUME NEW n \in Nat, \A m \in Nat : m < n => m \in T PROVE n \in T
  <2>. SUFFICES ASSUME n \in Field PROVE Rounds[n][1] = n
    OBVIOUS
  <2>1. CASE n = 0
    BY <1>0, <2>1, RoundsZero
  <2>2. CASE n # 0
    <3>1. n \div 2 \in Nat /\ n \div 2 < n
      BY <2>2
    <3>2. n \div 2 \in Field /\ n % 2 \in 0..1 /\ n = (n % 2) ++ Doubled(n \div 2)
      BY Rebuilt
    <3>3. Rounds[n \div 2][1] = n \div 2
      BY <1>1, <3>1, <3>2
    <3>4. Rounds[n][1] = Masked(n % 2, 1) ++ Doubled(Rounds[n \div 2][1])
      BY <1>0, RoundOut
    <3>5. Masked(n % 2, 1) = n % 2
      BY <3>2 DEF Masked
    <3>. QED  BY <3>2, <3>3, <3>4, <3>5
  <2>. QED  BY <2>1, <2>2
<1>2. T \in SUBSET Nat
  OBVIOUS
<1>3. b \in T
  <2>. HIDE DEF T
  <2>1. T = Nat
    BY <1>1, <1>2, Induction
  <2>. QED  BY <1>0, <2>1
<1>. QED  BY <1>3

(* A bit times an element takes it or leaves it.                           *)
LEMMA RoundsOfBits ==
  ASSUME NEW b \in Field, NEW bit \in 0..1
  PROVE  Rounds[b][bit] = Masked(bit, b)
<1>1. b \in Nat
  BY FieldSize
<1>2. CASE bit = 0
  BY <1>1, <1>2, RoundsOfZero DEF Masked
<1>3. CASE bit = 1
  BY <1>3, RoundsOfOne DEF Masked
<1>. QED  BY <1>2, <1>3

(* One more bit in the second factor doubles the product.                  *)
LEMMA RoundsTwice ==
  ASSUME NEW b \in Nat, NEW a \in Field
  PROVE  Rounds[2 * b][a] = Doubled(Rounds[b][a])
<1>. DEFINE t == 2 * b
<1>1. t \in Nat /\ t % 2 = 0 /\ t \div 2 = b
  OBVIOUS
<1>. HIDE DEF t
<1>2. Rounds[t][a] = Masked(0, a) ++ Doubled(Rounds[b][a])
  BY <1>1, RoundOut
<1>3. Doubled(Rounds[b][a]) \in Nat
  BY Round, DoubledInField, FieldSize
<1>4. Masked(0, a) = 0
  BY DEF Masked
<1>5. 0 ++ Doubled(Rounds[b][a]) = Doubled(Rounds[b][a])
  BY <1>3, PlusLaws
<1>. QED  BY <1>2, <1>4, <1>5 DEF t

(* The polynomial is nothing in the field.                                 *)
LEMMA ModulusIsZero ==
  ASSUME NEW a \in Field
  PROVE  Rounds[Modulus][a] = 0
<1>0. /\ Modulus \in Nat /\ Order \in Nat /\ Reduction \in Field /\ Reduction \in Nat
      /\ Top \in Field /\ Top \in Nat /\ Order = 2 * Top /\ Modulus = Order ++ Reduction
      /\ 1 \in Field /\ 0 \in Field /\ Field \subseteq Nat
  BY FieldSize
<1>1. Rounds[Modulus][1] = 0
  <2>1. Rounds[Modulus][1] = Rounds[Order][1] ++ Rounds[Reduction][1]
    BY <1>0, RoundsXor
  <2>2. Rounds[Reduction][1] = Reduction
    BY <1>0, RoundsOfOne
  <2>3. Rounds[Order][1] = Doubled(Top)
    BY <1>0, RoundsTwice, RoundsOfOne
  <2>4. Doubled(Top) = Order ++ (Order ++ Reduction)
    <3>1. Over(Top) = Modulus
      BY <1>0 DEF Over
    <3>. QED  BY <1>0, <3>1, DoubledIs
  <2>5. Order ++ (Order ++ Reduction) = (Order ++ Order) ++ Reduction
    BY <1>0, PlusAssociates
  <2>6. Order ++ Order = 0 /\ 0 ++ Reduction = Reduction /\ Reduction ++ Reduction = 0
    BY <1>0, PlusLaws
  <2>. QED  BY <2>1, <2>2, <2>3, <2>4, <2>5, <2>6
<1>. DEFINE T == {n \in Nat : n \in Field => Rounds[Modulus][n] = 0}
<1>2. ASSUME NEW n \in Nat, \A m \in Nat : m < n => m \in T PROVE n \in T
  <2>. SUFFICES ASSUME n \in Field PROVE Rounds[Modulus][n] = 0
    OBVIOUS
  <2>1. CASE n = 0
    BY <1>0, <2>1, RoundsOfZero
  <2>2. CASE n # 0
    <3>. DEFINE h == n \div 2
                bit == n % 2
    <3>1. h \in Nat /\ h < n
      BY <2>2
    <3>2. h \in Field /\ bit \in 0..1 /\ bit \in Field /\ n = bit ++ Doubled(h)
      BY Rebuilt
    <3>. HIDE DEF h, bit
    <3>3. Rounds[Modulus][h] = 0
      BY <1>2, <3>1, <3>2
    <3>4. Rounds[Modulus][Doubled(h)] = 0
      BY <1>0, <3>2, <3>3, RoundsDoubled, DoubledZero
    <3>5. Rounds[Modulus][bit] = 0
      <4>1. bit = 0 \/ bit = 1
        BY <3>2
      <4>. QED  BY <1>0, <1>1, <4>1, RoundsOfZero
    <3>6. Doubled(h) \in Field
      BY <3>2, DoubledInField
    <3>7. Rounds[Modulus][bit ++ Doubled(h)] = Rounds[Modulus][bit] ++ Rounds[Modulus][Doubled(h)]
      <4>. DEFINE d == Doubled(h)
                  M == Modulus
      <4>1. M \in Nat /\ d \in Field /\ bit \in Field
        BY <1>0, <3>2, <3>6
      <4>. HIDE DEF d, M
      <4>2. Rounds[M][bit ++ d] = Rounds[M][bit] ++ Rounds[M][d]
        BY <4>1, RoundsLinear
      <4>. QED  BY <4>2 DEF d, M
    <3>8. 0 ++ 0 = 0
      BY PlusLaws
    <3>. QED  BY <3>2, <3>4, <3>5, <3>7, <3>8
  <2>. QED  BY <2>1, <2>2
<1>3. T \in SUBSET Nat
  OBVIOUS
<1>4. a \in T
  <2>. HIDE DEF T
  <2>1. T = Nat
    BY <1>2, <1>3, Induction
  <2>. QED  BY <1>0, <2>1
<1>. QED  BY <1>4

(* Doubling the second factor doubles the product, overflow included.      *)
LEMMA RoundsOfDoubled ==
  ASSUME NEW b \in Field, NEW a \in Field
  PROVE  Rounds[Doubled(b)][a] = Doubled(Rounds[b][a])
<1>1. /\ Doubled(b) = (2 * b) ++ Over(b) /\ Over(b) \in Nat /\ 2 * b \in Nat /\ b \in Nat
  BY DoubledIs, FieldSize
<1>. DEFINE t == 2 * b
<1>. HIDE DEF t
<1>2. Rounds[t ++ Over(b)][a] = Rounds[t][a] ++ Rounds[Over(b)][a]
  BY <1>1, RoundsXor DEF t
<1>3. Rounds[Over(b)][a] = 0
  BY ModulusIsZero, RoundsZero DEF Over
<1>4. Rounds[t][a] = Doubled(Rounds[b][a])
  BY <1>1, RoundsTwice DEF t
<1>5. Rounds[t][a] \in Nat
  BY <1>1, Round, FieldSize DEF t
<1>6. Rounds[t][a] ++ 0 = Rounds[t][a]
  BY <1>5, PlusLaws
<1>. QED  BY <1>1, <1>2, <1>3, <1>4, <1>6 DEF t

(* The factors may change places.                                          *)
LEMMA RoundsCommute ==
  ASSUME NEW b \in Field, NEW a \in Field
  PROVE  Rounds[b][a] = Rounds[a][b]
<1>. DEFINE T == {n \in Nat : n \in Field => Rounds[n][a] = Rounds[a][n]}
<1>0. Field \subseteq Nat /\ a \in Nat
  BY FieldSize
<1>1. ASSUME NEW n \in Nat, \A m \in Nat : m < n => m \in T PROVE n \in T
  <2>. SUFFICES ASSUME n \in Field PROVE Rounds[n][a] = Rounds[a][n]
    OBVIOUS
  <2>1. CASE n = 0
    BY <1>0, <2>1, RoundsOfZero, RoundsZero
  <2>2. CASE n # 0
    <3>. DEFINE h == n \div 2
                bit == n % 2
    <3>1. h \in Nat /\ h < n
      BY <2>2
    <3>2. h \in Field /\ bit \in 0..1 /\ bit \in Field /\ n = bit ++ Doubled(h)
      BY Rebuilt
    <3>3. Rounds[n][a] = Masked(bit, a) ++ Doubled(Rounds[h][a])
      BY RoundOut
    <3>. HIDE DEF h, bit
    <3>4. Rounds[h][a] = Rounds[a][h]
      BY <1>1, <3>1, <3>2
    <3>5. Doubled(h) \in Field
      BY <3>2, DoubledInField
    <3>6. Rounds[a][bit ++ Doubled(h)] = Rounds[a][bit] ++ Rounds[a][Doubled(h)]
      BY <1>0, <3>2, <3>5, RoundsLinear
    <3>7. Rounds[a][bit] = Masked(bit, a) /\ Rounds[a][Doubled(h)] = Doubled(Rounds[a][h])
      BY <1>0, <3>2, RoundsOfBits, RoundsDoubled
    <3>. QED  BY <3>2, <3>3, <3>4, <3>6, <3>7
  <2>. QED  BY <2>1, <2>2
<1>3. T \in SUBSET Nat
  OBVIOUS
<1>4. b \in T
  <2>. HIDE DEF T
  <2>1. T = Nat
    BY <1>1, <1>3, Induction
  <2>. QED  BY <1>0, <2>1
<1>. QED  BY <1>4

(* However three factors are grouped, the product is the same.             *)
LEMMA RoundsAssociate ==
  ASSUME NEW a \in Field, NEW b \in Field, NEW c \in Field
  PROVE  Rounds[Rounds[c][b]][a] = Rounds[c][Rounds[b][a]]
<1>. DEFINE T == {n \in Nat : Rounds[Rounds[n][b]][a] = Rounds[n][Rounds[b][a]]}
            ab == Rounds[b][a]
<1>0. Field \subseteq Nat /\ b \in Nat /\ c \in Nat /\ ab \in Field
  BY Round, FieldSize
<1>. HIDE DEF ab
<1>1. ASSUME NEW n \in Nat, \A m \in Nat : m < n => m \in T PROVE n \in T
  <2>1. CASE n = 0
    <3>1. Rounds[0][b] = 0 /\ Rounds[0][a] = 0 /\ Rounds[0][ab] = 0
      BY <1>0, RoundsZero
    <3>. QED  BY <2>1, <3>1 DEF ab
  <2>2. CASE n # 0
    <3>. DEFINE h == n \div 2
                bit == n % 2
                d == Rounds[h][b]
    <3>1. h \in Nat /\ h < n /\ bit \in 0..1
      BY <2>2
    <3>2. Rounds[n][b] = Masked(bit, b) ++ Doubled(d) /\ Rounds[n][ab] = Masked(bit, ab) ++ Doubled(Rounds[h][ab])
      BY <1>0, RoundOut
    <3>3. d \in Field
      <4>. HIDE DEF h
      <4>. QED  BY <3>1, Round
    <3>4. Rounds[d][a] = Rounds[h][ab]
      BY <1>1, <3>1 DEF ab
    <3>. HIDE DEF h, bit, d
    <3>5. Masked(bit, b) \in Nat /\ Doubled(d) \in Nat
      BY <1>0, <3>1, <3>3, MaskedLaws, DoubledInField
    <3>6. Rounds[Masked(bit, b) ++ Doubled(d)][a] = Rounds[Masked(bit, b)][a] ++ Rounds[Doubled(d)][a]
      BY <3>5, RoundsXor
    <3>7. Rounds[Masked(bit, b)][a] = Masked(bit, ab)
      BY RoundsZero DEF Masked, ab
    <3>8. Rounds[Doubled(d)][a] = Doubled(Rounds[d][a])
      BY <3>3, RoundsOfDoubled
    <3>9. Rounds[Rounds[n][b]][a] = Rounds[n][ab]
      BY <3>2, <3>4, <3>6, <3>7, <3>8
    <3>. QED  BY <3>9 DEF ab
  <2>. QED  BY <2>1, <2>2
<1>3. T \in SUBSET Nat
  OBVIOUS
<1>4. c \in T
  <2>. HIDE DEF T
  <2>1. T = Nat
    BY <1>1, <1>3, Induction
  <2>. QED  BY <1>0, <2>1
<1>. QED  BY <1>4

(* gf_mul, with the exclusive or, makes a commutative ring of the field,   *)
(* whatever the width and the polynomial (shamir.rs, gf_mul).              *)
THEOREM FieldIsARing ==
  \A a, b, c \in Field :
    /\ Xor[a][b] \in Field /\ gf_mul[a][b] \in Field
    /\ Xor[a][b] = Xor[b][a] /\ gf_mul[a][b] = gf_mul[b][a]
    /\ Xor[Xor[a][b]][c] = Xor[a][Xor[b][c]]
    /\ gf_mul[gf_mul[a][b]][c] = gf_mul[a][gf_mul[b][c]]
    /\ gf_mul[Xor[a][b]][c] = Xor[gf_mul[a][c]][gf_mul[b][c]]
    /\ Xor[a][0] = a /\ gf_mul[a][1] = a
    /\ Xor[a][a] = 0 /\ gf_mul[a][0] = 0
<1>. SUFFICES ASSUME NEW a \in Field, NEW b \in Field, NEW c \in Field
     PROVE  /\ Xor[a][b] \in Field /\ gf_mul[a][b] \in Field
            /\ Xor[a][b] = Xor[b][a] /\ gf_mul[a][b] = gf_mul[b][a]
            /\ Xor[Xor[a][b]][c] = Xor[a][Xor[b][c]]
            /\ gf_mul[gf_mul[a][b]][c] = gf_mul[a][gf_mul[b][c]]
            /\ gf_mul[Xor[a][b]][c] = Xor[gf_mul[a][c]][gf_mul[b][c]]
            /\ Xor[a][0] = a /\ gf_mul[a][1] = a
            /\ Xor[a][a] = 0 /\ gf_mul[a][0] = 0
  OBVIOUS
<1>1. Field \subseteq Nat /\ 0 \in Field /\ 1 \in Field
  BY FieldSize
<1>2. \A x, y \in Field : gf_mul[x][y] = Rounds[y][x] /\ Rounds[y][x] \in Field
  BY <1>1, Round DEF gf_mul
<1>3. a ++ b \in Field
  BY XorInField
<1>4. a ++ b = b ++ a /\ a ++ 0 = a /\ a ++ a = 0 /\ (a ++ b) ++ c = a ++ (b ++ c)
  BY <1>1, PlusLaws, PlusAssociates
<1>5. gf_mul[a][b] = gf_mul[b][a]
  BY <1>2, RoundsCommute
<1>6. gf_mul[gf_mul[a][b]][c] = gf_mul[a][gf_mul[b][c]]
  <2>1. gf_mul[gf_mul[a][b]][c] = Rounds[c][Rounds[b][a]]
    BY <1>2
  <2>2. gf_mul[a][gf_mul[b][c]] = Rounds[Rounds[c][b]][a]
    BY <1>2
  <2>. QED  BY <2>1, <2>2, RoundsAssociate
<1>7. gf_mul[a ++ b][c] = gf_mul[a][c] ++ gf_mul[b][c]
  <2>1. c \in Nat
    BY <1>1
  <2>2. Rounds[c][a ++ b] = Rounds[c][a] ++ Rounds[c][b]
    BY <2>1, RoundsLinear
  <2>. QED  BY <1>2, <1>3, <2>2
<1>8. gf_mul[a][1] = a /\ gf_mul[a][0] = 0
  <2>1. Rounds[1][a] = Rounds[a][1]
    BY <1>1, RoundsCommute
  <2>2. Rounds[0][a] = 0
    BY RoundsZero
  <2>. QED  BY <1>1, <1>2, <2>1, <2>2, RoundsOfOne
<1>. QED  BY <1>2, <1>3, <1>4, <1>5, <1>6, <1>7, <1>8 DEF ++

-----------------------------------------------------------------------------
(* The laws of the field, powers, and the elements of a list joined.       *)

a ** b == gf_mul[a][b]

(* Both are elements.                                                      *)
LEMMA ZeroAndOne == 0 \in Field /\ 1 \in Field
BY FieldSize

(* Sums and products of elements are elements.                             *)
LEMMA Closed ==
  ASSUME NEW a \in Field, NEW b \in Field
  PROVE  a ++ b \in Field /\ a ** b \in Field
BY FieldIsARing DEF ++, **

(* Both are the same either way round.                                     *)
LEMMA Commute ==
  ASSUME NEW a \in Field, NEW b \in Field
  PROVE  a ++ b = b ++ a /\ a ** b = b ** a
BY FieldIsARing DEF ++, **

(* What 0 and 1 do.                                                        *)
LEMMA Neutral ==
  ASSUME NEW a \in Field
  PROVE  a ++ 0 = a /\ 0 ++ a = a /\ a ++ a = 0 /\ a ** 1 = a /\ 1 ** a = a /\ a ** 0 = 0 /\ 0 ** a = 0
<1>1. a ++ 0 = a /\ a ++ a = 0 /\ a ** 1 = a /\ a ** 0 = 0
  BY FieldIsARing DEF ++, **
<1>. QED  BY <1>1, ZeroAndOne, Commute

(* However three elements are grouped, it is the same.                     *)
LEMMA Associate ==
  ASSUME NEW a \in Field, NEW b \in Field, NEW c \in Field
  PROVE  (a ++ b) ++ c = a ++ (b ++ c) /\ (a ** b) ** c = a ** (b ** c)
BY FieldIsARing DEF ++, **

(* A product of a sum is the sum of the products.                          *)
LEMMA Distribute ==
  ASSUME NEW a \in Field, NEW b \in Field, NEW c \in Field
  PROVE  (a ++ b) ** c = (a ** c) ++ (b ** c) /\ c ** (a ++ b) = (c ** a) ++ (c ** b)
<1>1. (a ++ b) ** c = (a ** c) ++ (b ** c)
  BY FieldIsARing DEF ++, **
<1>2. /\ a ++ b \in Field /\ c ** (a ++ b) = (a ++ b) ** c
      /\ a ** c = c ** a /\ b ** c = c ** b
  BY Closed, Commute
<1>. QED  BY <1>1, <1>2

(* The sum that lists are joined with is the exclusive or.                 *)
LEMMA PlusIsXor ==
  ASSUME NEW a \in Field, NEW b \in Field
  PROVE  Plus[a][b] = a ++ b
BY DEF Plus, ++

(* Powers of elements are elements.                                        *)
LEMMA RaisedInField == Raised \in [Nat -> [Field -> [Field -> Field]]]
<1>. DEFINE V == [Field -> [Field -> Field]]
            rank == [n \in Nat |-> n]
            next == [n \in Nat |-> n \div 2]
            base == [n \in Nat |-> [x \in Field |-> [result \in Field |-> result]]]
            step == [p \in Nat \X V |-> [x \in Field |-> [result \in Field |->
                       IF p[1] = 0 THEN result
                       ELSE p[2][gf_mul[x][x]][IF p[1] % 2 = 1 THEN gf_mul[result][x] ELSE result]]]]
            Step(g) == [exp \in Nat |-> [x \in Field |-> [result \in Field |->
                          IF exp = 0 THEN result
                          ELSE g[exp \div 2][gf_mul[x][x]][IF exp % 2 = 1 THEN gf_mul[result][x] ELSE result]]]]
<1>1. /\ rank \in [Nat -> Nat] /\ next \in [Nat -> Nat] /\ base \in [Nat -> V]
      /\ \A n \in Nat : rank[n] # 0 => rank[next[n]] < rank[n]
  OBVIOUS
<1>2. step \in [Nat \X V -> V]
  <2>. SUFFICES ASSUME NEW p \in Nat \X V, NEW x \in Field, NEW r \in Field
       PROVE  (IF p[1] = 0 THEN r
               ELSE p[2][gf_mul[x][x]][IF p[1] % 2 = 1 THEN gf_mul[r][x] ELSE r]) \in Field
    OBVIOUS
  <2>1. gf_mul[x][x] \in Field /\ gf_mul[r][x] \in Field
    BY FieldIsARing
  <2>2. p[2] \in V
    OBVIOUS
  <2>. QED  BY <2>1, <2>2
<1>3. PICK g \in [Nat -> V] : \A n \in Nat : Unfolds(g, n, rank, next, base, step)
  <2>. HIDE DEF V, rank, next, base, step
  <2>. QED  BY <1>1, <1>2, Recursion
<1>4. ASSUME NEW n \in Nat PROVE g[n] = Step(g)[n]
  <2>1. g[n] = IF rank[n] = 0 THEN base[n] ELSE step[<<n, g[next[n]]>>]
    BY <1>3 DEF Unfolds
  <2>2. CASE n = 0
    BY <2>1, <2>2
  <2>3. CASE n # 0
    <3>1. next[n] = n \div 2 /\ n \div 2 \in Nat
      BY <2>3
    <3>2. g[n] = step[<<n, g[n \div 2]>>]
      BY <2>1, <2>3, <3>1
    <3>3. g[n \div 2] \in V
      BY <3>1
    <3>4. step[<<n, g[n \div 2]>>] = [x \in Field |-> [result \in Field |->
             IF n = 0 THEN result
             ELSE g[n \div 2][gf_mul[x][x]][IF n % 2 = 1 THEN gf_mul[result][x] ELSE result]]]
      BY <3>3
    <3>. QED  BY <3>2, <3>4
  <2>. QED  BY <2>2, <2>3
<1>5. g = Step(g)
  BY <1>4
<1>6. Raised = CHOOSE h : h = Step(h)
  <2>. HIDE DEF V, rank, next, base, step
  <2>. QED  BY Zenon DEF Raised
<1>7. Raised = Step(Raised)
  <2>. HIDE DEF Step
  <2>. QED  BY <1>5, <1>6
<1>8. ASSUME NEW n \in Nat PROVE Raised[n] = Step(Raised)[n]
  <2>. HIDE DEF Step
  <2>. QED  BY <1>7
<1>9. Raised = [n \in Nat |-> Raised[n]]
  <2>1. Step(Raised) = [n \in Nat |-> Step(Raised)[n]]
    OBVIOUS
  <2>2. \A n \in Nat : Raised[n] = Step(Raised)[n]
    BY <1>8
  <2>. HIDE DEF Step
  <2>. QED  BY <1>7, <2>1, <2>2
<1>10. ASSUME NEW n \in Nat PROVE Raised[n] = g[n]
  <2>. DEFINE T == {k \in Nat : Raised[k] = g[k]}
  <2>1. ASSUME NEW k \in Nat, \A m \in Nat : m < k => m \in T PROVE k \in T
    <3>1. Raised[k] = Step(Raised)[k] /\ g[k] = Step(g)[k]
      <4>. HIDE DEF Step
      <4>. QED  BY <1>4, <1>8
    <3>2. k # 0 => Raised[k \div 2] = g[k \div 2]
      <4>. SUFFICES ASSUME k # 0 PROVE Raised[k \div 2] = g[k \div 2]
        OBVIOUS
      <4>1. k \div 2 \in Nat /\ k \div 2 < k
        OBVIOUS
      <4>. QED  BY <2>1, <4>1
    <3>3. Step(Raised)[k] = Step(g)[k]
      BY <3>2
    <3>. HIDE DEF Step
    <3>. QED  BY <3>1, <3>3
  <2>2. T \in SUBSET Nat
    OBVIOUS
  <2>3. n \in T
    <3>. HIDE DEF T
    <3>1. T = Nat
      BY <2>1, <2>2, Induction
    <3>. QED  BY <3>1
  <2>. QED  BY <2>3
<1>. QED  BY <1>9, <1>10

(* Every element but 0 has an inverse.                                     *)
LEMMA InverseOf ==
  ASSUME NEW a \in Field
  PROVE  gf_inv[a] \in Field /\ (a # 0 => a ** gf_inv[a] = 1)
<1>1. Order - 2 \in Nat
  BY FieldSize
<1>2. Raised[Order - 2][a][1] \in Field
  BY <1>1, RaisedInField, ZeroAndOne
<1>3. gf_inv[a] \in Field
  BY <1>2 DEF gf_inv
<1>4. a # 0 => gf_mul[a][gf_inv[a]] = 1
  BY FieldAssumption
<1>. QED  BY <1>3, <1>4 DEF **

(* What adds up to 0 is equal, and no product is 0 but of 0: from          *)
(* FieldAssumption.                                                        *)
LEMMA Cancel ==
  ASSUME NEW a \in Field, NEW b \in Field
  PROVE  /\ a ++ b = 0 => a = b
         /\ a ** b = 0 => a = 0 \/ b = 0
<1>1. ASSUME a ++ b = 0 PROVE a = b
  <2>1. (a ++ b) ++ b = a ++ (b ++ b)
    BY Associate
  <2>2. b ++ b = 0 /\ a ++ 0 = a /\ 0 ++ b = b
    BY Neutral
  <2>. QED  BY <1>1, <2>1, <2>2
<1>2. ASSUME a ** b = 0, a # 0 PROVE b = 0
  <2>. DEFINE i == gf_inv[a]
  <2>1. i \in Field /\ a ** i = 1
    BY <1>2, InverseOf
  <2>. HIDE DEF i
  <2>2. i ** a = 1
    BY <2>1, Commute
  <2>3. (i ** a) ** b = i ** (a ** b)
    BY <2>1, Associate
  <2>4. i ** 0 = 0 /\ 1 ** b = b
    BY <2>1, Neutral
  <2>. QED  BY <1>2, <2>2, <2>3, <2>4
<1>. QED  BY <1>1, <1>2

(* A set of naturals with a bound has a greatest one.                      *)
LEMMA Greatest ==
  ASSUME NEW n \in Nat, NEW s \in SUBSET (0..n), s # {}
  PROVE  Max(s) \in s /\ \A y \in s : y <= Max(s)
<1>. DEFINE R == {n - x : x \in s}
<1>1. R \in SUBSET Nat /\ R # {}
  <2>1. ASSUME NEW x \in s PROVE n - x \in Nat
    <3>1. x \in 0..n
      OBVIOUS
    <3>. QED  BY <3>1
  <2>. QED  BY <2>1
<1>2. \E r \in R : \A y \in R : r <= y
  <2>. HIDE DEF R
  <2>. QED  BY <1>1, LeastOfNaturals
<1>3. PICK x \in s : \A y \in R : n - x <= y
  BY <1>2
<1>4. \A y \in s : x >= y
  <2>. TAKE y \in s
  <2>1. n - y \in R
    OBVIOUS
  <2>2. n - x <= n - y
    BY <1>3, <2>1
  <2>3. x \in 0..n /\ y \in 0..n
    OBVIOUS
  <2>. QED  BY <2>2, <2>3
<1>5. Max(s) \in s /\ \A y \in s : Max(s) >= y
  BY <1>4 DEF Max
<1>6. ASSUME NEW y \in s PROVE y <= Max(s)
  <2>1. y \in 0..n /\ Max(s) \in 0..n
    BY <1>5
  <2>. QED  BY <1>5, <2>1
<1>. QED  BY <1>5, <1>6

-----------------------------------------------------------------------------
(* Induction up to a bound.                                                *)
LEMMA UpTo ==
  ASSUME NEW n \in Nat, NEW T, 0 \in T, \A m \in 1..n : m - 1 \in T => m \in T
  PROVE  \A m \in 0..n : m \in T
<1>. DEFINE U == {m \in Nat : m <= n => m \in T}
<1>1. ASSUME NEW k \in Nat, \A m \in Nat : m < k => m \in U PROVE k \in U
  <2>1. CASE k = 0
    BY <2>1
  <2>2. CASE k # 0
    <3>1. k - 1 \in Nat /\ k - 1 < k
      BY <2>2
    <3>2. k - 1 \in U
      BY <1>1, <3>1
    <3>3. k <= n => k - 1 \in T
      BY <3>1, <3>2
    <3>4. k <= n => k \in 1..n
      BY <2>2
    <3>. QED  BY <3>3, <3>4
  <2>. QED  BY <2>1, <2>2
<1>2. U \in SUBSET Nat
  OBVIOUS
<1>3. U = Nat
  <2>. HIDE DEF U
  <2>. QED  BY <1>1, <1>2, Induction
<1>4. ASSUME NEW m \in 0..n PROVE m \in T
  <2>1. m \in U
    <3>. HIDE DEF U
    <3>. QED  BY <1>3
  <2>. QED  BY <2>1
<1>. QED  BY <1>4

(* F joins the first elements of a list, one by one.                       *)
JoinedBy(F, op, start, list, n) ==
  F[0] = start /\ \A m \in 1..n : F[m] = op[F[m - 1]][list[m]]

IsJoined(S, op, start, list, n) ==
  \E F \in [0..n -> S] : JoinedBy(F, op, start, list, n) /\ Joined(op, start, list) = F[n]

(* A list is joined from its first element on.                             *)
LEMMA JoinedUnfolds ==
  ASSUME NEW S, NEW C, NEW n \in Nat, NEW list \in [1..n -> C],
         NEW op \in [S -> [C -> S]], NEW start \in S
  PROVE  IsJoined(S, op, start, list, n)
<1>. DEFINE D == SUBSET (1..n)
            Step(g) == [s \in D |-> IF s = {} THEN start ELSE op[g[s \ {Max(s)}]][list[Max(s)]]]
            it == CHOOSE h : h = Step(h)
            rank == [s \in D |-> Cardinality(s)]
            next == [s \in D |-> IF s = {} THEN s ELSE s \ {Max(s)}]
            base == [s \in D |-> start]
            step == [p \in D \X S |-> IF p[1] = {} THEN start ELSE op[p[2]][list[Max(p[1])]]]
<1>1. ASSUME NEW s \in D, s # {}
      PROVE  Max(s) \in s /\ Max(s) \in 1..n /\ \A y \in s : y <= Max(s)
  <2>1. s \in SUBSET (0..n)
    OBVIOUS
  <2>. QED  BY <1>1, <2>1, Greatest
<1>2. ASSUME NEW s \in D PROVE IsFiniteSet(s) /\ Cardinality(s) \in Nat /\ (Cardinality(s) = 0 <=> s = {})
  <2>1. IsFiniteSet(1..n)
    BY FS_Interval
  <2>2. IsFiniteSet(s)
    BY <2>1, FS_Subset
  <2>. QED  BY <2>2, FS_CardinalityType, FS_EmptySet
<1>3. rank \in [D -> Nat] /\ next \in [D -> D] /\ base \in [D -> S]
  <2>1. rank \in [D -> Nat]
    BY <1>2
  <2>2. next \in [D -> D]
    OBVIOUS
  <2>. QED  BY <2>1, <2>2
<1>4. step \in [D \X S -> S]
  <2>. SUFFICES ASSUME NEW p \in D \X S, p[1] # {}
       PROVE  op[p[2]][list[Max(p[1])]] \in S
    OBVIOUS
  <2>1. p[1] \in D /\ p[2] \in S
    OBVIOUS
  <2>2. Max(p[1]) \in 1..n
    BY <1>1, <2>1
  <2>. QED  BY <2>1, <2>2
<1>5. ASSUME NEW s \in D, rank[s] # 0 PROVE rank[next[s]] < rank[s]
  <2>1. s # {} /\ IsFiniteSet(s) /\ Cardinality(s) \in Nat
    BY <1>2, <1>5
  <2>2. next[s] = s \ {Max(s)} /\ Max(s) \in s
    BY <1>1, <2>1
  <2>3. Cardinality(s \ {Max(s)}) = Cardinality(s) - 1
    BY <2>1, <2>2, FS_RemoveElement
  <2>4. rank[next[s]] = Cardinality(s \ {Max(s)}) /\ rank[s] = Cardinality(s)
    <3>1. next[s] \in D
      BY <1>3
    <3>. QED  BY <2>2, <3>1
  <2>. HIDE DEF rank, next
  <2>. QED  BY <2>1, <2>3, <2>4
<1>6. PICK g \in [D -> S] : \A s \in D : Unfolds(g, s, rank, next, base, step)
  <2>. HIDE DEF D, rank, next, base, step
  <2>. QED  BY <1>3, <1>4, <1>5, Recursion
<1>7. ASSUME NEW s \in D PROVE g[s] = Step(g)[s]
  <2>1. g[s] = IF rank[s] = 0 THEN base[s] ELSE step[<<s, g[next[s]]>>]
    BY <1>6 DEF Unfolds
  <2>2. rank[s] = 0 <=> s = {}
    BY <1>2
  <2>3. CASE s = {}
    BY <2>1, <2>2, <2>3
  <2>4. CASE s # {}
    <3>1. next[s] = s \ {Max(s)} /\ next[s] \in D
      BY <2>4
    <3>2. g[next[s]] \in S
      BY <3>1
    <3>3. step[<<s, g[next[s]]>>] = op[g[next[s]]][list[Max(s)]]
      BY <2>4, <3>2
    <3>. HIDE DEF D, rank, next, step
    <3>4. g[s] = op[g[s \ {Max(s)}]][list[Max(s)]]
      BY <2>1, <2>2, <2>4, <3>1, <3>3
    <3>. QED  BY <2>4, <3>4
  <2>. QED  BY <2>3, <2>4
<1>8. g = Step(g)
  <2>. HIDE DEF D
  <2>. QED  BY <1>7
<1>9. it = Step(it)
  <2>. HIDE DEF Step
  <2>. QED  BY <1>8
<1>10. Joined(op, start, list) = it[1..n]
  <2>1. DOMAIN list = 1..n
    OBVIOUS
  <2>. HIDE DEF rank, next, base, step
  <2>. QED  BY <2>1, Zenon DEF Joined, FoldLeft, MapThenFoldSet
<1>11. ASSUME NEW s \in D PROVE it[s] = IF s = {} THEN start ELSE op[it[s \ {Max(s)}]][list[Max(s)]]
  <2>1. it[s] = Step(it)[s]
    <3>. HIDE DEF Step, it
    <3>. QED  BY <1>9
  <2>. HIDE DEF it
  <2>. QED  BY <2>1
<1>. HIDE DEF it
<1>. DEFINE F == [m \in 0..n |-> it[1..m]]
<1>12. F[0] = start
  <2>1. 1..0 = {} /\ {} \in D /\ 0 \in 0..n
    OBVIOUS
  <2>. QED  BY <1>11, <2>1
<1>13. ASSUME NEW m \in 1..n PROVE F[m] = op[F[m - 1]][list[m]]
  <2>1. 1..m \in D /\ 1..m # {} /\ m \in 1..m /\ m \in 0..n /\ m - 1 \in 0..n
    <3>1. m \in 1..m /\ m \in 0..n /\ m - 1 \in 0..n
      OBVIOUS
    <3>2. \A i \in 1..m : i \in 1..n
      OBVIOUS
    <3>. QED  BY <3>1, <3>2
  <2>2. Max(1..m) = m
    <3>1. Max(1..m) \in 1..m /\ m <= Max(1..m)
      BY <1>1, <2>1
    <3>. QED  BY <3>1
  <2>3. (1..m) \ {m} = 1..(m - 1)
    OBVIOUS
  <2>4. it[1..m] = op[it[(1..m) \ {m}]][list[m]]
    BY <1>11, <2>1, <2>2
  <2>. QED  BY <2>1, <2>3, <2>4
<1>14. F \in [0..n -> S]
  <2>. DEFINE T == {m \in 0..n : F[m] \in S}
  <2>. HIDE DEF F
  <2>1. 0 \in T
    BY <1>12
  <2>2. \A m \in 1..n : m - 1 \in T => m \in T
    <3>. TAKE m \in 1..n
    <3>. HAVE m - 1 \in T
    <3>1. F[m - 1] \in S /\ list[m] \in C /\ m \in 0..n
      OBVIOUS
    <3>. QED  BY <1>13, <3>1
  <2>3. \A m \in 0..n : m \in T
    <3>. HIDE DEF T
    <3>. QED  BY <2>1, <2>2, UpTo
  <2>. QED  BY <2>3 DEF F
<1>15. F[n] = it[1..n]
  OBVIOUS
<1>. HIDE DEF F
<1>16. JoinedBy(F, op, start, list, n)
  BY <1>12, <1>13 DEF JoinedBy
<1>. QED  BY <1>10, <1>14, <1>15, <1>16 DEF IsJoined

-----------------------------------------------------------------------------
(* Sums and products of lists of elements.                                 *)

Sums(F, list, n) ==
  F \in [0..n -> Field] /\ F[0] = 0 /\ \A m \in 1..n : F[m] = F[m - 1] ++ list[m]

Products(F, list, n) ==
  F \in [0..n -> Field] /\ F[0] = 1 /\ \A m \in 1..n : F[m] = F[m - 1] ** list[m]

(* Where the steps of a list are.                                          *)
LEMMA Places ==
  ASSUME NEW n \in Nat, NEW m \in 1..n
  PROVE  m - 1 \in 0..n /\ m \in 0..n /\ m \in Nat
OBVIOUS

(* The sums of the first elements of a list, up to that of all.            *)
LEMMA SumUnfolds ==
  ASSUME NEW n \in Nat, NEW list \in [1..n -> Field]
  PROVE  \E F : Sums(F, list, n) /\ Sum(list) = F[n]
<1>1. Plus \in [Field -> [Field -> Field]]
  <2>1. \A a, b \in Field : Xor[a][b] \in Field
    BY FieldIsARing
  <2>. QED  BY <2>1 DEF Plus
<1>. DEFINE z == 0
            op == Plus
            S == Field
<1>2. z \in S /\ op \in [S -> [S -> S]] /\ list \in [1..n -> S]
  BY <1>1, ZeroAndOne
<1>3. IsJoined(S, op, z, list, n)
  <2>. HIDE DEF z, op, S
  <2>. QED  BY <1>2, JoinedUnfolds
<1>4. PICK F \in [0..n -> Field] : JoinedBy(F, Plus, 0, list, n) /\ Joined(Plus, 0, list) = F[n]
  BY <1>3 DEF IsJoined
<1>5. \A m \in 1..n : F[m] = F[m - 1] ++ list[m]
  <2>. TAKE m \in 1..n
  <2>1. F[m - 1] \in Field /\ list[m] \in Field
    BY Places
  <2>. QED  BY <1>4, <2>1, PlusIsXor DEF JoinedBy
<1>. QED  BY <1>4, <1>5 DEF Sums, Sum, JoinedBy

(* The products of the first elements of a list, up to that of all.        *)
LEMMA ProductUnfolds ==
  ASSUME NEW n \in Nat, NEW list \in [1..n -> Field]
  PROVE  \E F : Products(F, list, n) /\ Product(list) = F[n]
<1>1. gf_mul \in [Field -> [Field -> Field]]
  <2>1. \A a, b \in Field : Rounds[b][a] \in Field
    BY FieldSize, Round
  <2>. QED  BY <2>1 DEF gf_mul
<1>. DEFINE z == 1
            op == gf_mul
            S == Field
<1>2. z \in S /\ op \in [S -> [S -> S]] /\ list \in [1..n -> S]
  BY <1>1, ZeroAndOne
<1>3. IsJoined(S, op, z, list, n)
  <2>. HIDE DEF z, op, S
  <2>. QED  BY <1>2, JoinedUnfolds
<1>4. PICK F \in [0..n -> Field] : JoinedBy(F, gf_mul, 1, list, n) /\ Joined(gf_mul, 1, list) = F[n]
  BY <1>3 DEF IsJoined
<1>. QED  BY <1>4 DEF Products, Product, JoinedBy, **

(* What adds up is the sum.                                                *)
LEMMA SumIs ==
  ASSUME NEW n \in Nat, NEW list \in [1..n -> Field], NEW G, Sums(G, list, n)
  PROVE  Sum(list) = G[n] /\ Sum(list) \in Field
<1>1. PICK F : Sums(F, list, n) /\ Sum(list) = F[n]
  BY SumUnfolds
<1>. DEFINE T == {m \in 0..n : F[m] = G[m]}
<1>2. 0 \in T
  BY <1>1 DEF Sums
<1>3. \A m \in 1..n : m - 1 \in T => m \in T
  BY <1>1, Places DEF Sums
<1>4. n \in T
  <2>1. \A m \in 0..n : m \in T
    <3>. HIDE DEF T
    <3>. QED  BY <1>2, <1>3, UpTo
  <2>. QED  BY <2>1
<1>. QED  BY <1>1, <1>4 DEF Sums

(* What multiplies up is the product.                                      *)
LEMMA ProductIs ==
  ASSUME NEW n \in Nat, NEW list \in [1..n -> Field], NEW G, Products(G, list, n)
  PROVE  Product(list) = G[n] /\ Product(list) \in Field
<1>1. PICK F : Products(F, list, n) /\ Product(list) = F[n]
  BY ProductUnfolds
<1>. DEFINE T == {m \in 0..n : F[m] = G[m]}
<1>2. 0 \in T
  BY <1>1 DEF Products
<1>3. \A m \in 1..n : m - 1 \in T => m \in T
  BY <1>1, Places DEF Products
<1>4. n \in T
  <2>1. \A m \in 0..n : m \in T
    <3>. HIDE DEF T
    <3>. QED  BY <1>2, <1>3, UpTo
  <2>. QED  BY <2>1
<1>. QED  BY <1>1, <1>4 DEF Products

(* The sum of a list of elements is one.                                   *)
LEMMA SumInField ==
  ASSUME NEW n \in Nat, NEW list \in [1..n -> Field]
  PROVE  Sum(list) \in Field
BY SumUnfolds, SumIs

(* So is the product.                                                      *)
LEMMA ProductInField ==
  ASSUME NEW n \in Nat, NEW list \in [1..n -> Field]
  PROVE  Product(list) \in Field
BY ProductUnfolds, ProductIs

(* Four elements add up the same in another order.                         *)
LEMMA Exchange ==
  ASSUME NEW a \in Field, NEW b \in Field, NEW c \in Field, NEW d \in Field
  PROVE  (a ++ b) ++ (c ++ d) = (a ++ c) ++ (b ++ d)
BY XorExchange, FieldSize

(* The sum of the sums, place by place.                                    *)
LEMMA SumAdds ==
  ASSUME NEW n \in Nat, NEW f \in [1..n -> Field], NEW g \in [1..n -> Field],
         NEW h \in [1..n -> Field], \A i \in 1..n : h[i] = f[i] ++ g[i]
  PROVE  Sum(h) = Sum(f) ++ Sum(g)
<1>1. PICK F : Sums(F, f, n) /\ Sum(f) = F[n]
  BY SumUnfolds
<1>2. PICK G : Sums(G, g, n) /\ Sum(g) = G[n]
  BY SumUnfolds
<1>. DEFINE H == [m \in 0..n |-> F[m] ++ G[m]]
<1>3. H \in [0..n -> Field]
  BY <1>1, <1>2, Closed DEF Sums
<1>4. H[0] = 0
  BY <1>1, <1>2, Neutral, ZeroAndOne DEF Sums
<1>5. ASSUME NEW m \in 1..n PROVE H[m] = H[m - 1] ++ h[m]
  <2>1. m - 1 \in 0..n /\ m \in 0..n
    BY Places
  <2>. DEFINE a == F[m - 1]
              b == G[m - 1]
  <2>2. a \in Field /\ b \in Field /\ f[m] \in Field /\ g[m] \in Field
    BY <1>1, <1>2, <2>1 DEF Sums
  <2>3. F[m] = a ++ f[m] /\ G[m] = b ++ g[m]
    BY <1>1, <1>2 DEF Sums
  <2>4. H[m] = F[m] ++ G[m] /\ H[m - 1] = a ++ b
    BY <2>1
  <2>. HIDE DEF a, b, H
  <2>5. (a ++ f[m]) ++ (b ++ g[m]) = (a ++ b) ++ (f[m] ++ g[m])
    BY <2>2, Exchange
  <2>. QED  BY <2>3, <2>4, <2>5
<1>6. Sums(H, h, n)
  BY <1>3, <1>4, <1>5 DEF Sums
<1>7. H[n] = F[n] ++ G[n]
  OBVIOUS
<1>. HIDE DEF H
<1>. QED  BY <1>1, <1>2, <1>6, <1>7, SumIs

(* A factor of every element is one of the sum.                            *)
LEMMA SumScales ==
  ASSUME NEW n \in Nat, NEW c \in Field, NEW f \in [1..n -> Field],
         NEW h \in [1..n -> Field], \A i \in 1..n : h[i] = c ** f[i]
  PROVE  Sum(h) = c ** Sum(f)
<1>1. PICK F : Sums(F, f, n) /\ Sum(f) = F[n]
  BY SumUnfolds
<1>. DEFINE H == [m \in 0..n |-> c ** F[m]]
<1>3. H \in [0..n -> Field]
  BY <1>1, Closed DEF Sums
<1>4. H[0] = 0
  BY <1>1, Neutral DEF Sums
<1>5. ASSUME NEW m \in 1..n PROVE H[m] = H[m - 1] ++ h[m]
  <2>1. m - 1 \in 0..n /\ m \in 0..n
    BY Places
  <2>. DEFINE a == F[m - 1]
  <2>2. a \in Field /\ f[m] \in Field
    BY <1>1, <2>1 DEF Sums
  <2>3. F[m] = a ++ f[m]
    BY <1>1 DEF Sums
  <2>4. H[m] = c ** F[m] /\ H[m - 1] = c ** a
    BY <2>1
  <2>. HIDE DEF a, H
  <2>5. c ** (a ++ f[m]) = (c ** a) ++ (c ** f[m])
    BY <2>2, Distribute
  <2>. QED  BY <2>3, <2>4, <2>5
<1>6. Sums(H, h, n)
  BY <1>3, <1>4, <1>5 DEF Sums
<1>7. H[n] = c ** F[n]
  OBVIOUS
<1>. HIDE DEF H
<1>. QED  BY <1>1, <1>6, <1>7, SumIs

(* The sum of a list with one element that is not 0.                       *)
LEMMA SumOfOne ==
  ASSUME NEW n \in Nat, NEW j \in 1..n, NEW f \in [1..n -> Field],
         \A i \in 1..n : i # j => f[i] = 0
  PROVE  Sum(f) = f[j]
<1>. DEFINE H == [m \in 0..n |-> IF m < j THEN 0 ELSE f[j]]
<1>1. H \in [0..n -> Field]
  BY ZeroAndOne
<1>2. H[0] = 0
  OBVIOUS
<1>3. ASSUME NEW m \in 1..n PROVE H[m] = H[m - 1] ++ f[m]
  <2>1. m - 1 \in 0..n /\ m \in 0..n
    BY Places
  <2>2. f[j] \in Field /\ 0 ++ 0 = 0 /\ 0 ++ f[j] = f[j] /\ f[j] ++ 0 = f[j]
    BY Neutral, ZeroAndOne
  <2>3. CASE m < j
    <3>1. m - 1 < j /\ f[m] = 0
      BY <2>3
    <3>. QED  BY <2>1, <2>2, <2>3, <3>1
  <2>4. CASE m = j
    <3>1. m - 1 < j /\ ~ (m < j)
      BY <2>4
    <3>. QED  BY <2>1, <2>2, <2>4, <3>1
  <2>5. CASE m > j
    <3>1. ~ (m - 1 < j) /\ ~ (m < j) /\ f[m] = 0
      BY <2>5
    <3>. QED  BY <2>1, <2>2, <3>1
  <2>. QED  BY <2>3, <2>4, <2>5
<1>4. Sums(H, f, n)
  BY <1>1, <1>2, <1>3 DEF Sums
<1>5. H[n] = f[j]
  OBVIOUS
<1>. HIDE DEF H
<1>. QED  BY <1>4, <1>5, SumIs

(* The sum of nothing.                                                     *)
LEMMA SumOfZeros ==
  ASSUME NEW n \in Nat, NEW f \in [1..n -> Field], \A i \in 1..n : f[i] = 0
  PROVE  Sum(f) = 0
<1>. DEFINE H == [m \in 0..n |-> 0]
<1>1. Sums(H, f, n)
  <2>1. 0 ++ 0 = 0
    BY Neutral, ZeroAndOne
  <2>2. \A m \in 1..n : H[m] = 0 /\ H[m - 1] = 0
    OBVIOUS
  <2>. QED  BY <2>1, <2>2, ZeroAndOne DEF Sums
<1>2. H[n] = 0
  OBVIOUS
<1>. HIDE DEF H
<1>. QED  BY <1>1, <1>2, SumIs

(* A product of no zeros is not 0.                                         *)
LEMMA ProductNotZero ==
  ASSUME NEW n \in Nat, NEW f \in [1..n -> Field], \A i \in 1..n : f[i] # 0
  PROVE  Product(f) \in Field /\ Product(f) # 0
<1>1. PICK F : Products(F, f, n) /\ Product(f) = F[n]
  BY ProductUnfolds
<1>. DEFINE T == {m \in 0..n : F[m] # 0}
<1>2. 0 \in T
  BY <1>1 DEF Products
<1>3. \A m \in 1..n : m - 1 \in T => m \in T
  <2>. TAKE m \in 1..n
  <2>. HAVE m - 1 \in T
  <2>1. F[m - 1] \in Field /\ f[m] \in Field /\ F[m] = F[m - 1] ** f[m] /\ m \in 0..n
    BY <1>1, Places DEF Products
  <2>. QED  BY <2>1, Cancel
<1>4. n \in T
  <2>1. \A m \in 0..n : m \in T
    <3>. HIDE DEF T
    <3>. QED  BY <1>2, <1>3, UpTo
  <2>. QED  BY <2>1
<1>. QED  BY <1>1, <1>4, ProductIs

(* The product of nothing.                                                 *)
LEMMA ProductOfOnes ==
  ASSUME NEW n \in Nat, NEW f \in [1..n -> Field], \A i \in 1..n : f[i] = 1
  PROVE  Product(f) = 1
<1>. DEFINE H == [m \in 0..n |-> 1]
<1>1. Products(H, f, n)
  <2>1. 1 ** 1 = 1
    BY Neutral, ZeroAndOne
  <2>2. \A m \in 1..n : H[m] = 1 /\ H[m - 1] = 1
    OBVIOUS
  <2>. QED  BY <2>1, <2>2, ZeroAndOne DEF Products
<1>2. H[n] = 1
  OBVIOUS
<1>. HIDE DEF H
<1>. QED  BY <1>1, <1>2, ProductIs

(* A product whose j-th factor, 1 before, is another one.                  *)
LEMMA ProductWith ==
  ASSUME NEW n \in Nat, NEW j \in 1..n, NEW f \in [1..n -> Field], NEW g \in [1..n -> Field],
         f[j] = 1, \A i \in 1..n : i # j => g[i] = f[i]
  PROVE  Product(g) = Product(f) ** g[j]
<1>1. PICK F : Products(F, f, n) /\ Product(f) = F[n]
  BY ProductUnfolds
<1>. DEFINE H == [m \in 0..n |-> IF m < j THEN F[m] ELSE F[m] ** g[j]]
<1>2. H \in [0..n -> Field]
  BY <1>1, Closed DEF Products
<1>3. H[0] = 1
  BY <1>1 DEF Products
<1>4. ASSUME NEW m \in 1..n PROVE H[m] = H[m - 1] ** g[m]
  <2>1. m - 1 \in 0..n /\ m \in 0..n
    BY Places
  <2>. DEFINE a == F[m - 1]
  <2>2. a \in Field /\ f[m] \in Field /\ g[m] \in Field /\ g[j] \in Field /\ F[m] = a ** f[m]
    BY <1>1, <2>1 DEF Products
  <2>3. CASE m < j
    <3>1. m - 1 < j /\ f[m] = g[m]
      BY <2>3
    <3>. QED  BY <2>1, <2>2, <2>3, <3>1
  <2>4. CASE m = j
    <3>1. m - 1 < j /\ ~ (m < j)
      BY <2>4
    <3>2. F[m] = a
      BY <2>2, <2>4, Neutral
    <3>. QED  BY <2>1, <2>2, <2>4, <3>1, <3>2
  <2>5. CASE m > j
    <3>1. ~ (m - 1 < j) /\ ~ (m < j) /\ f[m] = g[m]
      BY <2>5
    <3>2. H[m] = F[m] ** g[j] /\ H[m - 1] = a ** g[j]
      BY <2>1, <3>1
    <3>. HIDE DEF H, a
    <3>3. (a ** f[m]) ** g[j] = a ** (f[m] ** g[j]) /\ (a ** g[j]) ** g[m] = a ** (g[j] ** g[m])
      BY <2>2, Associate
    <3>4. g[m] ** g[j] = g[j] ** g[m]
      BY <2>2, Commute
    <3>. QED  BY <2>2, <3>1, <3>2, <3>3, <3>4
  <2>. QED  BY <2>3, <2>4, <2>5
<1>5. Products(H, g, n)
  BY <1>2, <1>3, <1>4 DEF Products
<1>6. H[n] = F[n] ** g[j]
  OBVIOUS
<1>. HIDE DEF H
<1>. QED  BY <1>1, <1>5, <1>6, ProductIs

-----------------------------------------------------------------------------
(* The weights of Lagrange at 0 sum up to 1 and vanish with every higher   *)
(* power.                                                                  *)

(* Distinct indices of shares, none of them 0.                             *)
ArePoints(x, k) ==
  /\ x \in [1..k -> Field]
  /\ \A i \in 1..k : x[i] # 0
  /\ \A i, j \in 1..k : i # j => x[i] # x[j]

(* Lagrange's coefficient at 0 of the i-th point among those in T.         *)
Above(x, k, T, i) == [j \in 1..k |-> IF j \in T /\ j # i THEN x[j] ELSE 1]
Below(x, k, T, i) == [j \in 1..k |-> IF j \in T /\ j # i THEN x[i] ++ x[j] ELSE 1]
Weight(x, k, T, i) == Product(Above(x, k, T, i)) ** gf_inv[Product(Below(x, k, T, i))]

(* What interpolation at 0 gives of the values y at the points in T.       *)
Terms(x, k, T, y) == [i \in 1..k |-> IF i \in T THEN y[i] ** Weight(x, k, T, i) ELSE 0]
AtZero(x, k, T, y) == Sum(Terms(x, k, T, y))

(* Factors may change places.                                              *)
LEMMA Swap ==
  ASSUME NEW a \in Field, NEW b \in Field, NEW c \in Field
  PROVE  a ** (b ** c) = b ** (a ** c)
<1>1. (a ** b) ** c = a ** (b ** c) /\ (b ** a) ** c = b ** (a ** c)
  BY Associate
<1>2. a ** b = b ** a
  BY Commute
<1>. QED  BY <1>1, <1>2

(* Distinct points have differences that are not 0.                        *)
LEMMA AboveBelowInField ==
  ASSUME NEW k \in Nat, NEW x, ArePoints(x, k), NEW T, NEW i \in 1..k
  PROVE  /\ Above(x, k, T, i) \in [1..k -> Field]
         /\ Below(x, k, T, i) \in [1..k -> Field]
         /\ \A j \in 1..k : Below(x, k, T, i)[j] # 0
<1>1. \A j \in 1..k : x[j] \in Field /\ x[i] \in Field /\ x[i] ++ x[j] \in Field
  BY Closed DEF ArePoints
<1>2. \A j \in 1..k : j # i => x[i] ++ x[j] # 0
  BY <1>1, Cancel DEF ArePoints
<1>3. Above(x, k, T, i) \in [1..k -> Field]
  BY <1>1, ZeroAndOne DEF Above
<1>4. Below(x, k, T, i) \in [1..k -> Field]
  BY <1>1, ZeroAndOne DEF Below
<1>5. \A j \in 1..k : Below(x, k, T, i)[j] # 0
  BY <1>2 DEF Below
<1>. QED  BY <1>3, <1>4, <1>5

(* The coefficients are elements.                                          *)
LEMMA WeightInField ==
  ASSUME NEW k \in Nat, NEW x, ArePoints(x, k), NEW T, NEW i \in 1..k
  PROVE  Weight(x, k, T, i) \in Field
<1>1. Product(Above(x, k, T, i)) \in Field /\ Product(Below(x, k, T, i)) \in Field
  BY AboveBelowInField, ProductInField
<1>2. gf_inv[Product(Below(x, k, T, i))] \in Field
  BY <1>1, InverseOf
<1>. QED  BY <1>1, <1>2, Closed DEF Weight

(* So is what interpolation gives.                                         *)
LEMMA TermsInField ==
  ASSUME NEW k \in Nat, NEW x, ArePoints(x, k), NEW T, NEW y \in [1..k -> Field]
  PROVE  /\ Terms(x, k, T, y) \in [1..k -> Field]
         /\ AtZero(x, k, T, y) \in Field
<1>1. \A i \in 1..k : y[i] ** Weight(x, k, T, i) \in Field
  BY WeightInField, Closed
<1>2. Terms(x, k, T, y) \in [1..k -> Field]
  BY <1>1, ZeroAndOne DEF Terms
<1>. QED  BY <1>2, SumInField DEF AtZero

(* A coefficient with one point less.                                      *)
LEMMA WeightWithout ==
  ASSUME NEW k \in Nat, NEW x, ArePoints(x, k), NEW T \in SUBSET (1..k),
         NEW b \in T, NEW i \in T, i # b
  PROVE  (x[i] ++ x[b]) ** Weight(x, k, T, i) = x[b] ** Weight(x, k, T \ {b}, i)
<1>. DEFINE P == Product(Above(x, k, T \ {b}, i))
            Q == Product(Below(x, k, T \ {b}, i))
            d == x[i] ++ x[b]
            xb == x[b]
            v == gf_inv[Q ** d]
            w == gf_inv[Q]
<1>0. b \in 1..k /\ i \in 1..k
  OBVIOUS
<1>1. xb \in Field /\ d \in Field /\ d # 0
  <2>1. x[i] \in Field /\ x[b] \in Field /\ x[i] # x[b]
    BY <1>0 DEF ArePoints
  <2>. QED  BY <2>1, Closed, Cancel
<1>2. P \in Field /\ Q \in Field /\ Q # 0
  BY <1>0, AboveBelowInField, ProductInField, ProductNotZero
<1>3. Product(Above(x, k, T, i)) = P ** xb
  <2>. DEFINE f == Above(x, k, T \ {b}, i)
              g == Above(x, k, T, i)
  <2>1. f \in [1..k -> Field] /\ g \in [1..k -> Field]
    BY <1>0, AboveBelowInField
  <2>2. f[b] = 1 /\ g[b] = xb /\ \A j \in 1..k : j # b => g[j] = f[j]
    BY <1>0 DEF Above
  <2>. HIDE DEF f, g
  <2>3. Product(g) = Product(f) ** g[b]
    BY <1>0, <2>1, <2>2, ProductWith
  <2>. QED  BY <2>2, <2>3 DEF f, g
<1>4. Product(Below(x, k, T, i)) = Q ** d
  <2>. DEFINE f == Below(x, k, T \ {b}, i)
              g == Below(x, k, T, i)
  <2>1. f \in [1..k -> Field] /\ g \in [1..k -> Field]
    BY <1>0, AboveBelowInField
  <2>2. f[b] = 1 /\ g[b] = d /\ \A j \in 1..k : j # b => g[j] = f[j]
    BY <1>0 DEF Below
  <2>. HIDE DEF f, g
  <2>3. Product(g) = Product(f) ** g[b]
    BY <1>0, <2>1, <2>2, ProductWith
  <2>. QED  BY <2>2, <2>3 DEF f, g
<1>5. Weight(x, k, T, i) = (P ** xb) ** v /\ Weight(x, k, T \ {b}, i) = P ** w
  BY <1>3, <1>4 DEF Weight
<1>6. Q ** d \in Field /\ Q ** d # 0
  BY <1>1, <1>2, Closed, Cancel
<1>7. v \in Field /\ w \in Field /\ (Q ** d) ** v = 1 /\ Q ** w = 1
  BY <1>2, <1>6, InverseOf
<1>. HIDE DEF P, Q, d, xb, v, w
<1>8. d ** v = w
  <2>1. d ** v \in Field
    BY <1>1, <1>7, Closed
  <2>2. Q ** (d ** v) = 1
    BY <1>1, <1>2, <1>7, Associate
  <2>3. w ** Q = 1
    BY <1>2, <1>7, Commute
  <2>4. (w ** Q) ** (d ** v) = w ** (Q ** (d ** v))
    BY <1>2, <1>7, <2>1, Associate
  <2>5. 1 ** (d ** v) = d ** v /\ w ** 1 = w
    BY <1>7, <2>1, Neutral
  <2>. QED  BY <2>2, <2>3, <2>4, <2>5
<1>9. d ** ((P ** xb) ** v) = (P ** xb) ** (d ** v)
  BY <1>1, <1>2, <1>7, Closed, Swap
<1>10. (P ** xb) ** w = xb ** (P ** w)
  <2>1. (xb ** P) ** w = xb ** (P ** w)
    BY <1>1, <1>2, <1>7, Associate
  <2>2. P ** xb = xb ** P
    BY <1>1, <1>2, Commute
  <2>. QED  BY <2>1, <2>2
<1>. QED  BY <1>5, <1>8, <1>9, <1>10 DEF d, xb

(* Interpolation of what is multiplied by the variable.                    *)
LEMMA TimesVariable ==
  ASSUME NEW k \in Nat, NEW x, ArePoints(x, k), NEW T \in SUBSET (1..k), NEW b \in T,
         NEW h \in [1..k -> Field], NEW y \in [1..k -> Field],
         \A i \in 1..k : y[i] = x[i] ** h[i]
  PROVE  AtZero(x, k, T, y) = x[b] ** (AtZero(x, k, T \ {b}, h) ++ AtZero(x, k, T, h))
<1>. DEFINE f == Terms(x, k, T \ {b}, h)
            g == Terms(x, k, T, h)
            s == [i \in 1..k |-> f[i] ++ g[i]]
            t == Terms(x, k, T, y)
            xb == x[b]
<1>0. b \in 1..k /\ xb \in Field
  BY DEF ArePoints
<1>1. f \in [1..k -> Field] /\ g \in [1..k -> Field] /\ t \in [1..k -> Field]
  BY TermsInField
<1>2. s \in [1..k -> Field] /\ \A i \in 1..k : s[i] = f[i] ++ g[i]
  <2>. HIDE DEF f, g
  <2>. QED  BY <1>1, Closed
<1>3. ASSUME NEW i \in 1..k PROVE t[i] = xb ** s[i]
  <2>. DEFINE W == Weight(x, k, T, i)
              V == Weight(x, k, T \ {b}, i)
              xi == x[i]
              hi == h[i]
  <2>1. W \in Field /\ V \in Field /\ xi \in Field /\ hi \in Field
    BY WeightInField DEF ArePoints
  <2>2. /\ t[i] = IF i \in T THEN (xi ** hi) ** W ELSE 0
        /\ g[i] = IF i \in T THEN hi ** W ELSE 0
        /\ f[i] = IF i \in T /\ i # b THEN hi ** V ELSE 0
        /\ s[i] = f[i] ++ g[i]
    BY DEF Terms
  <2>. HIDE DEF W, V, xi, hi, f, g, t, s, xb
  <2>3. CASE i \notin T
    <3>1. 0 ++ 0 = 0 /\ xb ** 0 = 0
      BY <1>0, Neutral, ZeroAndOne
    <3>. QED  BY <2>2, <2>3, <3>1
  <2>4. CASE i = b
    <3>1. hi ** W \in Field /\ 0 ++ (hi ** W) = hi ** W
      BY <2>1, Closed, Neutral
    <3>2. (xi ** hi) ** W = xi ** (hi ** W)
      BY <2>1, Associate
    <3>3. xi = xb
      BY <2>4 DEF xi, xb
    <3>. QED  BY <2>2, <2>4, <3>1, <3>2, <3>3
  <2>5. CASE i \in T /\ i # b
    <3>1. (xi ++ xb) ** W = xb ** V
      BY <2>5, WeightWithout DEF W, V, xi, xb
    <3>2. /\ (xi ++ xb) ** W = (xi ** W) ++ (xb ** W)
          /\ xi ** W \in Field /\ xb ** W \in Field /\ xb ** V \in Field
          /\ hi ** V \in Field /\ hi ** W \in Field
      BY <1>0, <2>1, Closed, Distribute
    <3>3. xb ** ((hi ** V) ++ (hi ** W)) = (xb ** (hi ** V)) ++ (xb ** (hi ** W))
      BY <1>0, <3>2, Distribute
    <3>4. xb ** (hi ** V) = hi ** (xb ** V) /\ xb ** (hi ** W) = hi ** (xb ** W)
      BY <1>0, <2>1, Swap
    <3>5. (hi ** (xb ** V)) ++ (hi ** (xb ** W)) = hi ** ((xb ** V) ++ (xb ** W))
      BY <2>1, <3>2, Distribute
    <3>. DEFINE A == xi ** W
                B == xb ** W
    <3>6. A \in Field /\ B \in Field
      BY <3>2
    <3>7. xb ** V = A ++ B
      BY <3>1, <3>2
    <3>. HIDE DEF A, B
    <3>8. (A ++ B) ++ B = A
      <4>1. (A ++ B) ++ B = A ++ (B ++ B) /\ B ++ B = 0 /\ A ++ 0 = A
        BY <3>6, Associate, Neutral
      <4>. QED  BY <4>1
    <3>9. xb ** ((hi ** V) ++ (hi ** W)) = hi ** (xi ** W)
      BY <3>3, <3>4, <3>5, <3>7, <3>8 DEF A, B
    <3>10. (xi ** hi) ** W = hi ** (xi ** W)
      <4>1. (xi ** hi) ** W = xi ** (hi ** W) /\ xi ** (hi ** W) = hi ** (xi ** W)
        BY <2>1, Associate, Swap
      <4>. QED  BY <4>1
    <3>. QED  BY <2>2, <2>5, <3>9, <3>10
  <2>. QED  BY <2>3, <2>4, <2>5
<1>. HIDE DEF f, g, s, t, xb
<1>4. Sum(s) = Sum(f) ++ Sum(g)
  BY <1>1, <1>2, SumAdds, ZenonT(60)
<1>5. Sum(t) = xb ** Sum(s)
  BY <1>0, <1>1, <1>2, <1>3, SumScales
<1>. QED  BY <1>4, <1>5 DEF f, g, t, xb, AtZero

(* Interpolation is linear.                                                *)
LEMMA AtZeroAdds ==
  ASSUME NEW k \in Nat, NEW x, ArePoints(x, k), NEW T, NEW e \in Field,
         NEW y \in [1..k -> Field], NEW z \in [1..k -> Field], NEW h \in [1..k -> Field],
         \A i \in 1..k : h[i] = y[i] ++ (e ** z[i])
  PROVE  AtZero(x, k, T, h) = AtZero(x, k, T, y) ++ (e ** AtZero(x, k, T, z))
<1>. DEFINE f == Terms(x, k, T, y)
            g == Terms(x, k, T, z)
            s == [i \in 1..k |-> e ** g[i]]
            t == Terms(x, k, T, h)
<1>1. f \in [1..k -> Field] /\ g \in [1..k -> Field] /\ t \in [1..k -> Field]
  BY TermsInField
<1>2. s \in [1..k -> Field] /\ \A i \in 1..k : s[i] = e ** g[i]
  <2>. HIDE DEF f, g
  <2>. QED  BY <1>1, Closed
<1>3. ASSUME NEW i \in 1..k PROVE t[i] = f[i] ++ s[i]
  <2>. DEFINE W == Weight(x, k, T, i)
              yi == y[i]
              zi == z[i]
  <2>1. W \in Field /\ yi \in Field /\ zi \in Field
    BY WeightInField
  <2>2. /\ t[i] = IF i \in T THEN (yi ++ (e ** zi)) ** W ELSE 0
        /\ f[i] = IF i \in T THEN yi ** W ELSE 0
        /\ g[i] = IF i \in T THEN zi ** W ELSE 0
        /\ s[i] = e ** g[i]
    BY DEF Terms
  <2>. HIDE DEF W, yi, zi, f, g, t, s
  <2>3. CASE i \notin T
    <3>1. 0 ++ 0 = 0 /\ e ** 0 = 0
      BY Neutral, ZeroAndOne
    <3>. QED  BY <2>2, <2>3, <3>1
  <2>4. CASE i \in T
    <3>1. e ** zi \in Field
      BY <2>1, Closed
    <3>. DEFINE ez == e ** zi
    <3>2. (yi ++ ez) ** W = (yi ** W) ++ (ez ** W)
      <4>. HIDE DEF ez
      <4>1. ez \in Field
        BY <3>1 DEF ez
      <4>. QED  BY <2>1, <4>1, Distribute
    <3>3. (e ** zi) ** W = e ** (zi ** W)
      BY <2>1, Associate
    <3>. QED  BY <2>2, <2>4, <3>2, <3>3
  <2>. QED  BY <2>3, <2>4
<1>. HIDE DEF f, g, s, t
<1>4. Sum(t) = Sum(f) ++ Sum(s)
  BY <1>1, <1>2, <1>3, SumAdds, ZenonT(60)
<1>5. Sum(s) = e ** Sum(g)
  BY <1>1, <1>2, SumScales
<1>. QED  BY <1>4, <1>5 DEF f, g, t, AtZero

Ones(k) == [i \in 1..k |-> 1]

(* Where every value is 0, so is the one at 0.                             *)
LEMMA AtZeroOfZeros ==
  ASSUME NEW k \in Nat, NEW x, ArePoints(x, k), NEW T,
         NEW y \in [1..k -> Field], \A i \in 1..k : i \in T => y[i] = 0
  PROVE  AtZero(x, k, T, y) = 0
<1>1. Terms(x, k, T, y) \in [1..k -> Field]
  BY TermsInField
<1>2. \A i \in 1..k : Terms(x, k, T, y)[i] = 0
  <2>1. \A i \in 1..k : 0 ** Weight(x, k, T, i) = 0
    BY WeightInField, Neutral
  <2>. QED  BY <2>1 DEF Terms
<1>. QED  BY <1>1, <1>2, SumOfZeros DEF AtZero

(* A coefficient among one point is 1.                                     *)
LEMMA OnlyWeight ==
  ASSUME NEW k \in Nat, NEW x, ArePoints(x, k), NEW i \in 1..k
  PROVE  Weight(x, k, {i}, i) = 1
<1>. DEFINE f == Above(x, k, {i}, i)
            g == Below(x, k, {i}, i)
            o == 1
<1>1. f \in [1..k -> Field] /\ g \in [1..k -> Field]
  BY AboveBelowInField
<1>2. (\A j \in 1..k : f[j] = 1) /\ (\A j \in 1..k : g[j] = 1)
  BY DEF Above, Below
<1>3. Product(f) = 1 /\ Product(g) = 1
  <2>. HIDE DEF f, g
  <2>. QED  BY <1>1, <1>2, ProductOfOnes
<1>. HIDE DEF f, g
<1>4. o \in Field /\ o # 0
  BY ZeroAndOne
<1>. HIDE DEF o
<1>5. gf_inv[o] \in Field /\ o ** gf_inv[o] = 1
  <2>1. gf_inv[o] \in Field /\ (o # 0 => o ** gf_inv[o] = 1)
    BY <1>4, InverseOf
  <2>. QED  BY <1>4, <2>1
<1>6. Weight(x, k, {i}, i) = o ** gf_inv[o]
  BY <1>3 DEF Weight, f, g, o
<1>. QED  BY <1>5, <1>6

(* The coefficients add up to 1.                                           *)
LEMMA OnesAtZero ==
  ASSUME NEW k \in Nat, NEW x, ArePoints(x, k), NEW T \in SUBSET (1..k), T # {}
  PROVE  AtZero(x, k, T, Ones(k)) = 1
<1>. DEFINE h == Ones(k)
<1>0. h \in [1..k -> Field] /\ \A i \in 1..k : h[i] = 1
  BY ZeroAndOne DEF Ones
<1>. HIDE DEF h
<1>. DEFINE U == {n \in Nat : \A S \in SUBSET (1..k) :
                     S # {} /\ Cardinality(S) = n => AtZero(x, k, S, h) = 1}
<1>9. ASSUME NEW S \in SUBSET (1..k) PROVE IsFiniteSet(S) /\ Cardinality(S) \in Nat
  <2>1. IsFiniteSet(1..k)
    BY FS_Interval
  <2>2. IsFiniteSet(S)
    BY <2>1, FS_Subset
  <2>. QED  BY <2>2, FS_CardinalityType
<1>1. ASSUME NEW n \in Nat, \A m \in Nat : m < n => m \in U PROVE n \in U
  <2>. SUFFICES ASSUME NEW S \in SUBSET (1..k), S # {}, Cardinality(S) = n
       PROVE  AtZero(x, k, S, h) = 1
    OBVIOUS
  <2>1. PICK b : b \in S
    OBVIOUS
  <2>2. b \in 1..k
    BY <2>1
  <2>3. CASE S = {b}
    <3>. DEFINE t == Terms(x, k, S, h)
    <3>1. t \in [1..k -> Field]
      BY <1>0, TermsInField
    <3>2. t[b] = 1
      <4>1. t[b] = h[b] ** Weight(x, k, {b}, b)
        BY <2>2, <2>3 DEF Terms
      <4>2. 1 ** 1 = 1
        BY Neutral, ZeroAndOne
      <4>. QED  BY <1>0, <2>2, <4>1, <4>2, OnlyWeight
    <3>3. \A i \in 1..k : i # b => t[i] = 0
      BY <2>3 DEF Terms
    <3>. HIDE DEF t
    <3>4. Sum(t) = t[b]
      BY <2>2, <3>1, <3>3, SumOfOne
    <3>. QED  BY <3>2, <3>4 DEF t, AtZero
  <2>4. CASE S # {b}
    <3>1. PICK c : c \in S /\ c # b
      BY <2>1, <2>4
    <3>2. c \in 1..k
      BY <3>1
    <3>. DEFINE y == [i \in 1..k |-> x[i] ** h[i]]
                s == AtZero(x, k, S, h)
    <3>3. x[b] \in Field /\ x[c] \in Field /\ x[b] # x[c]
      BY <2>2, <3>1, <3>2 DEF ArePoints
    <3>4. s \in Field /\ 1 \in Field
      BY <1>0, TermsInField, ZeroAndOne
    <3>5. y \in [1..k -> Field] /\ \A i \in 1..k : y[i] = x[i] ** h[i]
      BY <1>0, Closed DEF ArePoints
    <3>6. ASSUME NEW d \in S, NEW e \in S, d # e
          PROVE  AtZero(x, k, S \ {d}, h) = 1
      <4>1. S \ {d} \in SUBSET (1..k) /\ S \ {d} # {}
        BY <3>6
      <4>2. Cardinality(S \ {d}) = n - 1
        BY <1>9, FS_RemoveElement
      <4>3. Cardinality(S \ {d}) \in Nat
        BY <4>1, <1>9
      <4>4. n - 1 \in Nat /\ n - 1 < n
        BY <4>2, <4>3
      <4>5. n - 1 \in U
        <5>. HIDE DEF U
        <5>. QED  BY <1>1, <4>4
      <4>. QED  BY <4>1, <4>2, <4>5
    <3>7. AtZero(x, k, S \ {b}, h) = 1 /\ AtZero(x, k, S \ {c}, h) = 1
      BY <2>1, <3>1, <3>6
    <3>. HIDE DEF y
    <3>8. AtZero(x, k, S, y) = x[b] ** (1 ++ s)
      BY <1>0, <2>1, <3>5, <3>7, TimesVariable
    <3>9. AtZero(x, k, S, y) = x[c] ** (1 ++ s)
      BY <1>0, <3>1, <3>5, <3>7, TimesVariable
    <3>. DEFINE r == 1 ++ s
                B == x[b]
                C == x[c]
    <3>10. r \in Field /\ B \in Field /\ C \in Field
      BY <3>3, <3>4, Closed
    <3>11. B ** r = C ** r
      BY <3>8, <3>9
    <3>12. B # C
      BY <3>3
    <3>. HIDE DEF r, B, C
    <3>13. (B ++ C) ** r = (B ** r) ++ (C ** r) /\ (B ** r) ++ (B ** r) = 0 /\ B ++ C \in Field
      BY <3>10, Distribute, Closed, Neutral
    <3>14. B ++ C # 0
      BY <3>10, <3>12, Cancel
    <3>15. r = 0
      BY <3>10, <3>11, <3>13, <3>14, Cancel
    <3>. DEFINE o == 1
    <3>16. o \in Field /\ o ++ s = 0
      BY <3>4, <3>15 DEF r
    <3>. HIDE DEF o, s
    <3>17. o = s
      BY <3>4, <3>16, Cancel DEF s
    <3>. QED  BY <3>17 DEF o, s
  <2>. QED  BY <2>3, <2>4
<1>2. U \in SUBSET Nat
  OBVIOUS
<1>3. Cardinality(T) \in U
  <2>. HIDE DEF U
  <2>1. U = Nat
    BY <1>1, <1>2, Induction
  <2>. QED  BY <1>9, <2>1
<1>. QED  BY <1>3 DEF h

-----------------------------------------------------------------------------
(* Interpolation at 0 gives the constant term (evaluate and combine).      *)

(* A polynomial, its coefficients from the highest on, at x.               *)
ValueAt(q, x) == Joined(Horner(x), 0, q)

Horners(F, q, x, n) ==
  F \in [0..n -> Field] /\ F[0] = 0 /\ \A m \in 1..n : F[m] = (x ** F[m - 1]) ++ q[m]

(* The steps of an evaluation by Horner.                                   *)
LEMMA ValueUnfolds ==
  ASSUME NEW n \in Nat, NEW q \in [1..n -> Field], NEW x \in Field
  PROVE  \E F : Horners(F, q, x, n) /\ ValueAt(q, x) = F[n]
<1>1. ASSUME NEW a \in Field, NEW c \in Field
      PROVE  Plus[gf_mul[a][x]][c] = (x ** a) ++ c /\ Plus[gf_mul[a][x]][c] \in Field
  <2>1. a ** x \in Field /\ a ** x = x ** a
    BY Closed, Commute
  <2>2. Plus[a ** x][c] = (a ** x) ++ c /\ (a ** x) ++ c \in Field
    BY <2>1, PlusIsXor, Closed
  <2>3. gf_mul[a][x] = a ** x
    BY DEF **
  <2>. QED  BY <2>1, <2>2, <2>3
<1>2. Horner(x) \in [Field -> [Field -> Field]]
  BY <1>1 DEF Horner
<1>. DEFINE z == 0
            op == Horner(x)
            S == Field
<1>3. z \in S /\ op \in [S -> [S -> S]] /\ q \in [1..n -> S]
  BY <1>2, ZeroAndOne
<1>4. IsJoined(S, op, z, q, n)
  <2>. HIDE DEF z, op, S
  <2>. QED  BY <1>3, JoinedUnfolds
<1>5. PICK F \in [0..n -> Field] : JoinedBy(F, Horner(x), 0, q, n) /\ Joined(Horner(x), 0, q) = F[n]
  BY <1>4 DEF IsJoined
<1>6. \A m \in 1..n : F[m] = (x ** F[m - 1]) ++ q[m]
  <2>. TAKE m \in 1..n
  <2>. DEFINE a == F[m - 1]
  <2>1. a \in Field /\ q[m] \in Field
    BY Places
  <2>2. F[m] = Horner(x)[a][q[m]]
    BY <1>5 DEF JoinedBy
  <2>. HIDE DEF a
  <2>3. Horner(x)[a][q[m]] = Plus[gf_mul[a][x]][q[m]]
    BY <2>1 DEF Horner
  <2>4. F[m] = (x ** a) ++ q[m]
    BY <1>1, <2>1, <2>2, <2>3
  <2>. QED  BY <2>4 DEF a
<1>. QED  BY <1>5, <1>6 DEF Horners, ValueAt, JoinedBy

(* Horner's steps at every point; the values after m of them.              *)
AllHorners(F, q, x, k, n) == \A i \in 1..k : Horners(F[i], q, x[i], n)
Level(F, k, m) == [i \in 1..k |-> F[i][m]]

(* Interpolation gives back the last coefficient that went in.             *)
LEMMA ConstantTerms ==
  ASSUME NEW k \in Nat, NEW x, ArePoints(x, k), NEW n \in 0..k,
         NEW q \in [1..n -> Field], NEW F, AllHorners(F, q, x, k, n)
  PROVE  \A m \in 1..n : AtZero(x, k, 1..k, Level(F, k, m)) = q[m]
<1>. DEFINE v(m) == Level(F, k, m)
            c(m) == IF m = 0 THEN 0 ELSE q[m]
            T == {m \in 0..n : \A b \in m..k : AtZero(x, k, 1..b, v(m)) = c(m)}
<1>0. n \in Nat
  OBVIOUS
<1>1. ASSUME NEW m \in 0..n PROVE v(m) \in [1..k -> Field]
  BY DEF Level, AllHorners, Horners
<1>2. 0 \in T
  <2>1. \A i \in 1..k : v(0)[i] = 0
    BY DEF Level, AllHorners, Horners
  <2>. DEFINE y == v(0)
  <2>2. y \in [1..k -> Field] /\ \A i \in 1..k : y[i] = 0
    BY <1>1, <2>1
  <2>. HIDE DEF y
  <2>3. ASSUME NEW b \in 0..k PROVE AtZero(x, k, 1..b, y) = 0
    BY <2>2, AtZeroOfZeros
  <2>. QED  BY <2>3 DEF y
<1>3. ASSUME NEW m \in 1..n, m - 1 \in T PROVE m \in T
  <2>0. m - 1 \in 0..n /\ m \in 0..n
    BY <1>0, Places
  <2>. SUFFICES ASSUME NEW b \in m..k PROVE AtZero(x, k, 1..b, v(m)) = q[m]
    BY <2>0
  <2>1. b \in 1..k /\ b - 1 \in (m - 1)..k /\ b \in (m - 1)..k /\ b \in 1..b
    OBVIOUS
  <2>2. 1..b \in SUBSET (1..k) /\ (1..b) \ {b} = 1..(b - 1) /\ 1..b # {}
    <3>1. \A j \in 1..b : j \in 1..k
      BY <2>1
    <3>2. (1..b) \ {b} = 1..(b - 1)
      BY <2>1
    <3>. QED  BY <2>1, <3>1, <3>2
  <2>. DEFINE h == v(m - 1)
              y == [i \in 1..k |-> x[i] ** h[i]]
              o == Ones(k)
              e == q[m]
              B == 1..b
              w == v(m)
  <2>3. /\ h \in [1..k -> Field] /\ o \in [1..k -> Field] /\ e \in Field
        /\ w \in [1..k -> Field] /\ \A i \in 1..k : o[i] = 1
    <3>1. h \in [1..k -> Field] /\ w \in [1..k -> Field]
      BY <1>1, <2>0
    <3>. QED  BY <3>1, ZeroAndOne DEF Ones
  <2>4. y \in [1..k -> Field] /\ \A i \in 1..k : y[i] = x[i] ** h[i]
    <3>. HIDE DEF h
    <3>. QED  BY <2>3, Closed DEF ArePoints
  <2>5. \A i \in 1..k : w[i] = y[i] ++ (e ** o[i])
    <3>. TAKE i \in 1..k
    <3>1. w[i] = (x[i] ** h[i]) ++ e
      BY DEF Level, AllHorners, Horners
    <3>2. o[i] = 1 /\ e ** 1 = e
      BY <2>3, Neutral
    <3>. HIDE DEF w, h, e, o
    <3>. QED  BY <3>1, <3>2
  <2>6. AtZero(x, k, B \ {b}, h) = c(m - 1) /\ AtZero(x, k, B, h) = c(m - 1)
    BY <1>3, <2>1, <2>2
  <2>7. c(m - 1) \in Field
    BY <2>0, ZeroAndOne
  <2>. DEFINE d == c(m - 1)
  <2>. HIDE DEF h, y, o, e, B, w, d, v
  <2>8. AtZero(x, k, B, y) = x[b] ** (AtZero(x, k, B \ {b}, h) ++ AtZero(x, k, B, h))
    <3>1. B \in SUBSET (1..k) /\ b \in B
      BY <2>1, <2>2 DEF B
    <3>. QED  BY <2>3, <2>4, <3>1, TimesVariable
  <2>9. AtZero(x, k, B, w) = AtZero(x, k, B, y) ++ (e ** AtZero(x, k, B, o))
    BY <2>3, <2>4, <2>5, AtZeroAdds
  <2>10. AtZero(x, k, B, o) = 1
    BY <2>2, OnesAtZero DEF B, o
  <2>11. d ++ d = 0 /\ d \in Field
    BY <2>7, Neutral DEF d
  <2>12. AtZero(x, k, B, y) = 0
    <3>1. x[b] ** 0 = 0
      BY <2>1, Neutral DEF ArePoints
    <3>. QED  BY <2>6, <2>8, <2>11, <3>1 DEF d
  <2>13. 0 ++ e = e /\ e ** 1 = e
    BY <2>3, Neutral
  <2>. QED  BY <2>9, <2>10, <2>12, <2>13 DEF w, B, e
<1>4. ASSUME NEW m \in 1..n PROVE AtZero(x, k, 1..k, v(m)) = q[m]
  <2>1. m \in T
    <3>1. \A j \in 0..n : j \in T
      <4>. HIDE DEF T
      <4>. QED  BY <1>0, <1>2, <1>3, UpTo
    <3>. QED  BY <1>0, <3>1, Places
  <2>2. k \in m..k
    OBVIOUS
  <2>. QED  BY <2>1, <2>2
<1>. QED  BY <1>4

(* What combine computes is the coefficient among all the points.          *)
LEMMA LagrangeWeight ==
  ASSUME NEW k \in Nat, NEW x, ArePoints(x, k), NEW i \in 1..k
  PROVE  Lagrange(x, i) = Weight(x, k, 1..k, i)
<1>1. x \in [1..k -> Field] /\ DOMAIN x = 1..k
  BY DEF ArePoints
<1>2. [x EXCEPT ![i] = 1] = Above(x, k, 1..k, i)
  BY <1>1 DEF Above
<1>3. [[j \in DOMAIN x |-> Plus[x[i]][x[j]]] EXCEPT ![i] = 1] = Below(x, k, 1..k, i)
  <2>1. \A j \in 1..k : Plus[x[i]][x[j]] = x[i] ++ x[j]
    BY <1>1, PlusIsXor
  <2>. QED  BY <1>1, <2>1 DEF Below
<1>. QED  BY <1>2, <1>3, Zenon DEF Lagrange, Weight, **

(* The values of a polynomial, and what combine sums of them.              *)
ValuesAt(q, x, k) == [i \in 1..k |-> ValueAt(q, x[i])]
Weighted(y, x, k) == [i \in 1..k |-> y[i] ** Lagrange(x, i)]

(* The values of a polynomial at as many points as it has coefficients,    *)
(* each with its weight, add up to its constant term.                      *)
LEMMA Interpolates ==
  ASSUME NEW k \in Nat, NEW x, ArePoints(x, k), NEW n \in 1..k, NEW q \in [1..n -> Field]
  PROVE  Sum(Weighted(ValuesAt(q, x, k), x, k)) = q[n]
<1>0. n \in Nat /\ n \in 0..k /\ n \in 1..n
  OBVIOUS
<1>1. \A i \in 1..k : x[i] \in Field
  BY DEF ArePoints
<1>2. \A i \in 1..k : \E F : Horners(F, q, x[i], n) /\ ValueAt(q, x[i]) = F[n]
  BY <1>0, <1>1, ValueUnfolds
<1>. DEFINE F == [i \in 1..k |-> CHOOSE f : Horners(f, q, x[i], n) /\ ValueAt(q, x[i]) = f[n]]
<1>3. \A i \in 1..k : Horners(F[i], q, x[i], n) /\ ValueAt(q, x[i]) = F[i][n]
  BY <1>2
<1>. HIDE DEF F
<1>4. AllHorners(F, q, x, k, n)
  BY <1>3 DEF AllHorners
<1>5. AtZero(x, k, 1..k, Level(F, k, n)) = q[n]
  BY <1>0, <1>4, ConstantTerms
<1>6. ValuesAt(q, x, k) = Level(F, k, n)
  BY <1>3 DEF ValuesAt, Level
<1>7. Weighted(Level(F, k, n), x, k) = Terms(x, k, 1..k, Level(F, k, n))
  BY LagrangeWeight DEF Weighted, Terms
<1>. QED  BY <1>5, <1>6, <1>7 DEF AtZero

-----------------------------------------------------------------------------
(* split and combine.                                                      *)

(* A list by its places.                                                   *)
LEMMA ListLength ==
  ASSUME NEW S, NEW n \in Nat, NEW f \in [1..n -> S]
  PROVE  f \in Seq(S) /\ Len(f) = n
OBVIOUS

(* The first elements of a list, as many as asked.                         *)
LEMMA FirstOnes ==
  ASSUME NEW S, NEW n \in Nat, NEW f \in [1..n -> S], NEW t \in 0..n
  PROVE  /\ SubSeq(f, 1, t) \in [1..t -> S]
         /\ \A i \in 1..t : SubSeq(f, 1, t)[i] = f[i]
<1>1. f \in Seq(S) /\ Len(f) = n
  BY ListLength
<1>2. \A i \in 1..t : i \in 1..n
  OBVIOUS
<1>3. /\ DOMAIN SubSeq(f, 1, t) = 1..t
      /\ \A i \in 1..t : SubSeq(f, 1, t)[i] = f[i]
  BY <1>1, <1>2
<1>4. SubSeq(f, 1, t) \in Seq(S)
  BY <1>1, <1>2, <1>3
<1>5. Len(SubSeq(f, 1, t)) = t
  BY <1>1
<1>. DEFINE g == SubSeq(f, 1, t)
<1>. HIDE DEF g
<1>6. g \in [1..t -> S]
  <2>1. g \in Seq(S) /\ Len(g) = t
    BY <1>4, <1>5 DEF g
  <2>. QED  BY <2>1
<1>. QED  BY <1>3, <1>6 DEF g

(* What is shared: the secret, then its tag.                               *)
LEMMA PayloadOfElements ==
  ASSUME NEW s \in Secret
  PROVE  /\ s \in Seq(Field) /\ Len(s) \in Nat /\ Len(s) > 0
         /\ TagLength \in Nat /\ TagLength > 0
         /\ Payload(s) \in [1..(Len(s) + TagLength) -> Field]
         /\ Len(Payload(s)) = Len(s) + TagLength
         /\ SubSeq(Payload(s), 1, Len(s)) = s
<1>1. s \in Seq(Field) /\ s # <<>> /\ Tag[s] \in Seq(Field) /\ Len(Tag[s]) = TagLength /\ TagLength > 0
  BY ShamirAssumption
<1>2. Len(s) \in Nat /\ TagLength \in Nat /\ Len(s) > 0
  BY <1>1
<1>3. Payload(s) \in Seq(Field) /\ Len(Payload(s)) = Len(s) + TagLength
  BY <1>1 DEF Payload
<1>4. Payload(s) \in [1..(Len(s) + TagLength) -> Field]
  BY <1>2, <1>3
<1>5. SubSeq(Payload(s), 1, Len(s)) = s
  <2>. DEFINE p == Payload(s)
              f == SubSeq(p, 1, Len(s))
              n == Len(s)
              N == n + TagLength
  <2>1. n \in 0..N /\ N \in Nat
    BY <1>2
  <2>2. f \in [1..n -> Field] /\ \A i \in 1..n : f[i] = p[i]
    <3>. HIDE DEF N, n, p
    <3>. QED  BY <1>4, <2>1, FirstOnes DEF p, N, n
  <2>3. \A i \in 1..n : p[i] = s[i]
    BY <1>1 DEF Payload
  <2>4. s \in [1..n -> Field]
    BY <1>1
  <2>. HIDE DEF f, n, p
  <2>5. f = s
    <3>1. \A i \in 1..n : f[i] = s[i]
      BY <2>2, <2>3
    <3>2. f = [i \in 1..n |-> f[i]] /\ s = [i \in 1..n |-> s[i]]
      BY <2>2, <2>4
    <3>3. [i \in 1..n |-> f[i]] = [i \in 1..n |-> s[i]]
      BY <3>1
    <3>. QED  BY <3>2, <3>3
  <2>. QED  BY <2>5 DEF f, n, p
<1>. QED  BY <1>1, <1>2, <1>3, <1>4, <1>5

(* The polynomial of an element, from its highest coefficient on.          *)
Polynomial(byte, coefficients) == Reverse(<<byte>> \o coefficients)

(* The coefficients from the highest on, the element last.                 *)
LEMMA Coefficients ==
  ASSUME NEW t \in Nat, t >= 1, NEW byte \in Field, NEW c \in [1..(t - 1) -> Field]
  PROVE  /\ Polynomial(byte, c) \in [1..t -> Field]
         /\ Polynomial(byte, c)[t] = byte
         /\ \A i \in 1..(t - 1) : Polynomial(byte, c)[i] = c[t - i]
<1>. DEFINE n == t - 1
            r == <<byte>> \o c
            q == Polynomial(byte, c)
<1>1. n \in Nat
  OBVIOUS
<1>2. c \in Seq(Field) /\ Len(c) = n
  <2>. HIDE DEF n
  <2>. QED  BY <1>1, ListLength DEF n
<1>3. r \in Seq(Field) /\ Len(r) = t /\ r[1] = byte /\ \A i \in 1..n : r[i + 1] = c[i]
  BY <1>2
<1>. HIDE DEF r
<1>4. q = [j \in 1..t |-> r[(t - j) + 1]]
  BY <1>3 DEF Polynomial, Reverse, r
<1>5. q \in [1..t -> Field]
  <2>1. \A j \in 1..t : (t - j) + 1 \in 1..t
    OBVIOUS
  <2>2. \A j \in 1..t : r[j] \in Field
    BY <1>3
  <2>. QED  BY <1>4, <2>1, <2>2
<1>6. q[t] = byte
  <2>1. t \in 1..t /\ (t - t) + 1 = 1
    OBVIOUS
  <2>. QED  BY <1>3, <1>4, <2>1
<1>7. ASSUME NEW i \in 1..(t - 1) PROVE q[i] = c[t - i]
  <2>1. i \in 1..t /\ t - i \in 1..n
    OBVIOUS
  <2>2. q[i] = r[(t - i) + 1]
    BY <1>4, <2>1
  <2>. QED  BY <1>3, <2>1, <2>2
<1>. HIDE DEF q
<1>. QED  BY <1>5, <1>6, <1>7 DEF q

(* What evaluate computes of them.                                         *)
LEMMA EvaluateIsValue ==
  ASSUME NEW byte, NEW c, NEW x
  PROVE  evaluate(byte, c, x) = ValueAt(Polynomial(byte, c), x)
BY Zenon DEF evaluate, ValueAt, Polynomial

(* The shares that are brought, by their indices.                          *)
Brought(deal, idx) == [i \in DOMAIN idx |-> deal[idx[i]]]

(* A list of shares whose indices are these.                               *)
LEMMA SharesAtPoints ==
  ASSUME NEW s \in Secret, NEW t \in Nat, t >= 2, NEW number \in Field,
         NEW drawn \in Draw(t, s, Field), NEW i \in 1..number
  PROVE  LET share == Shares(s, t, number, drawn)[i]
         IN  /\ i \in Field /\ i # 0
             /\ share.threshold = t /\ share.index = i
             /\ share = Share(t, i, share.y)
             /\ share.y \in [1..(Len(s) + TagLength) -> Field]
             /\ Len(share.y) = Len(s) + TagLength
             /\ \A pos \in 1..(Len(s) + TagLength) :
                  share.y[pos] = ValueAt(Polynomial(Payload(s)[pos], drawn[pos]), i)
<1>. DEFINE n == Len(s) + TagLength
            y == [pos \in 1..n |-> evaluate(Payload(s)[pos], drawn[pos], i)]
<1>1. i \in Field /\ i # 0
  <2>1. number \in Nat /\ number < Order
    BY FieldSize
  <2>2. i \in Nat /\ i < Order /\ i # 0
    BY <2>1, FieldSize
  <2>. QED  BY <2>2, FieldSize
<1>2. n \in Nat /\ Len(Payload(s)) = n /\ Payload(s) \in [1..n -> Field]
  BY PayloadOfElements
<1>3. drawn \in [1..n -> [1..(t - 1) -> Field]]
  BY <1>2 DEF Draw
<1>. HIDE DEF n
<1>4. ASSUME NEW pos \in 1..n
      PROVE  /\ y[pos] = ValueAt(Polynomial(Payload(s)[pos], drawn[pos]), i)
             /\ y[pos] \in Field
  <2>. DEFINE p == Polynomial(Payload(s)[pos], drawn[pos])
  <2>1. p \in [1..t -> Field]
    <3>1. Payload(s)[pos] \in Field /\ drawn[pos] \in [1..(t - 1) -> Field] /\ t >= 1
      BY <1>2, <1>3
    <3>. QED  BY <3>1, Coefficients
  <2>2. y[pos] = ValueAt(p, i)
    BY EvaluateIsValue
  <2>. HIDE DEF p, y
  <2>3. PICK F : Horners(F, p, i, t) /\ ValueAt(p, i) = F[t]
    BY <1>1, <2>1, ValueUnfolds
  <2>4. F[t] \in Field
    BY <2>3 DEF Horners
  <2>. QED  BY <2>2, <2>3, <2>4 DEF p
<1>5. y \in [1..n -> Field]
  BY <1>4
<1>6. Len(y) = n
  <2>. HIDE DEF y
  <2>. QED  BY <1>2, <1>5, ListLength
<1>7. Shares(s, t, number, drawn)[i] = Share(t, i, y)
  BY <1>2 DEF Shares
<1>8. Share(t, i, y).y = y /\ Share(t, i, y).threshold = t /\ Share(t, i, y).index = i
  BY DEF Share
<1>. HIDE DEF y
<1>. QED  BY <1>1, <1>4, <1>5, <1>6, <1>7, <1>8 DEF n

(* Any shares of a deal, at least as many as its threshold and in any      *)
(* order, bring the secret back, whatever the field, the secret and what   *)
(* was drawn for it (shamir.rs, split and combine).                        *)
THEOREM CombineRestores ==
  ASSUME NEW s \in Secret, NEW t \in Nat, t >= 2, NEW number \in Field,
         NEW drawn \in Draw(t, s, Field), NEW L \in Nat, L >= t,
         NEW idx \in [1..L -> 1..number],
         \A i, j \in 1..L : i # j => idx[i] # idx[j]
  PROVE  combine(Brought(Shares(s, t, number, drawn), idx)) = SharingOk(s)
<1>. DEFINE deal == Shares(s, t, number, drawn)
            shares == Brought(deal, idx)
            n == Len(s) + TagLength
            used == SubSeq(shares, 1, t)
            x == [j \in 1..t |-> idx[j]]
<1>1. n \in Nat /\ n - TagLength = Len(s) /\ Payload(s) \in [1..n -> Field]
      /\ Len(Payload(s)) = n /\ SubSeq(Payload(s), 1, Len(s)) = s /\ n \in 1..n /\ 1 \in 1..n
  BY PayloadOfElements
<1>2. 1 \in 1..L /\ t \in 0..L /\ \A i \in 1..t : i \in 1..L
  OBVIOUS
<1>3. \A i \in 1..L : idx[i] \in 1..number
  OBVIOUS
<1>. HIDE DEF n
<1>4. ASSUME NEW i \in 1..L
      PROVE  /\ shares[i].threshold = t /\ shares[i].index = idx[i]
             /\ idx[i] \in Field /\ idx[i] # 0
             /\ Len(shares[i].y) = n
             /\ \A pos \in 1..n : shares[i].y[pos] =
                  ValueAt(Polynomial(Payload(s)[pos], drawn[pos]), idx[i])
  <2>1. shares[i] = deal[idx[i]]
    BY DEF Brought
  <2>. DEFINE k == idx[i]
  <2>2. k \in 1..number
    OBVIOUS
  <2>. HIDE DEF deal, k, shares
  <2>. QED  BY <2>1, <2>2, SharesAtPoints DEF deal, k, n
<1>5. shares \in [1..L -> {shares[i] : i \in 1..L}]
  BY DEF Brought
<1>. HIDE DEF shares
<1>6. Len(shares) = L /\ shares # <<>>
  <2>1. shares \in Seq({shares[i] : i \in 1..L}) /\ Len(shares) = L
    BY <1>5, ListLength
  <2>. QED  BY <2>1, <1>2
<1>7. DOMAIN used = 1..t /\ \A i \in 1..t : used[i] = shares[i]
  <2>. DEFINE C == {shares[i] : i \in 1..L}
  <2>1. shares \in [1..L -> C]
    BY <1>5
  <2>. HIDE DEF C
  <2>2. used \in [1..t -> C] /\ \A i \in 1..t : used[i] = shares[i]
    BY <1>2, <2>1, FirstOnes
  <2>. QED  BY <2>2
<1>. HIDE DEF used
<1>8. ArePoints(x, t)
  BY <1>2, <1>4 DEF ArePoints
<1>9. \A i \in 1..t : lambda(used, i) = Lagrange(x, i)
  <2>1. [j \in DOMAIN used |-> used[j].index] = x
    BY <1>2, <1>4, <1>7
  <2>. HIDE DEF x
  <2>. QED  BY <2>1 DEF lambda
<1>. HIDE DEF x
<1>. DEFINE lambdas == [i \in 1..t |-> lambda(used, i)]
            at(pos) == Sum([i \in 1..t |-> gf_mul[used[i].y[pos]][lambdas[i]]])
            whole == [pos \in 1..n |-> at(pos)]
<1>10. ASSUME NEW pos \in 1..n PROVE at(pos) = Payload(s)[pos]
  <2>. DEFINE q == Polynomial(Payload(s)[pos], drawn[pos])
  <2>1. q \in [1..t -> Field] /\ q[t] = Payload(s)[pos]
    <3>1. Payload(s)[pos] \in Field /\ drawn[pos] \in [1..(t - 1) -> Field] /\ t >= 1
      BY <1>1 DEF Draw
    <3>. QED  BY <3>1, Coefficients
  <2>2. \A i \in 1..t : used[i].y[pos] = ValueAt(q, x[i])
    BY <1>2, <1>4, <1>7 DEF x
  <2>. HIDE DEF q
  <2>3. [i \in 1..t |-> gf_mul[used[i].y[pos]][lambdas[i]]] = Weighted(ValuesAt(q, x, t), x, t)
    BY <1>9, <2>2 DEF Weighted, ValuesAt, **
  <2>4. t \in 1..t
    OBVIOUS
  <2>5. Sum(Weighted(ValuesAt(q, x, t), x, t)) = q[t]
    BY <1>8, <2>1, <2>4, Interpolates
  <2>. QED  BY <2>1, <2>3, <2>5
<1>11. whole = Payload(s)
  <2>. HIDE DEF at
  <2>. QED  BY <1>1, <1>10
<1>12. Len(whole) = n /\ SubSeq(whole, 1, n - TagLength) = s
  BY <1>1, <1>11
<1>13. /\ \A i \in 1..L : shares[i].threshold = t /\ Len(shares[i].y) = n /\ shares[i].index # 0
       /\ \A i, j \in 1..L : i # j => shares[i].index # shares[j].index
  BY <1>4
<1>14. combine(shares) =
         LET secret == SubSeq(whole, 1, Len(whole) - TagLength)
         IN  IF shares = <<>> \/ Len(shares) < t THEN SharingError("not enough")
             ELSE IF \/ \E i \in 1..Len(shares) : \/ shares[i].threshold # t
                                                  \/ Len(shares[i].y) # Len(shares[1].y)
                                                  \/ shares[i].index = 0
                     \/ \E i, j \in 1..Len(shares) : i # j /\ shares[i].index = shares[j].index
             THEN SharingError("inconsistent")
             ELSE IF secret \notin Secret \/ whole # Payload(secret)
             THEN SharingError("verification")
             ELSE SharingOk(secret)
  <2>1. shares[1].threshold = t /\ Len(shares[1].y) = n
    BY <1>2, <1>4
  <2>. QED  BY <2>1, Zenon DEF combine, used
<1>15. ~ (L < t)
  OBVIOUS
<1>16. ~ (\E i \in 1..L : \/ shares[i].threshold # t
                          \/ Len(shares[i].y) # Len(shares[1].y)
                          \/ shares[i].index = 0)
  BY <1>2, <1>13
<1>17. combine(shares) = SharingOk(s)
  <2>. HIDE DEF whole
  <2>1. SubSeq(whole, 1, Len(whole) - TagLength) = s
    BY <1>12
  <2>2. ~ (s \notin Secret \/ whole # Payload(s))
    BY <1>11
  <2>. QED  BY <1>6, <1>13, <1>14, <1>15, <1>16, <2>1, <2>2
<1>. QED  BY <1>17 DEF shares

-----------------------------------------------------------------------------
(* Two polynomials that agree at as many points as they have coefficients  *)
(* are the same.                                                           *)

(* A factor that is not 0 and a term may be left out on both sides.        *)
LEMMA SameTerm ==
  ASSUME NEW a \in Field, a # 0, NEW u \in Field, NEW v \in Field, NEW e \in Field,
         (a ** u) ++ e = (a ** v) ++ e
  PROVE  u = v
<1>. DEFINE p == a ** u
            q == a ** v
<1>1. p \in Field /\ q \in Field
  BY Closed
<1>. HIDE DEF p, q
<1>2. p ++ e = q ++ e
  BY DEF p, q
<1>3. (p ++ e) ++ e = p /\ (q ++ e) ++ e = q
  <2>1. (p ++ e) ++ e = p ++ (e ++ e) /\ (q ++ e) ++ e = q ++ (e ++ e)
    BY <1>1, Associate
  <2>2. e ++ e = 0 /\ p ++ 0 = p /\ q ++ 0 = q
    BY <1>1, Neutral
  <2>. QED  BY <2>1, <2>2
<1>4. p = q
  BY <1>2, <1>3
<1>5. a ** (u ++ v) = (a ** u) ++ (a ** v)
  BY Distribute
<1>6. (a ** u) ++ (a ** v) = 0
  BY <1>1, <1>4, Neutral DEF p, q
<1>7. u ++ v \in Field
  BY Closed
<1>8. u ++ v = 0
  BY <1>5, <1>6, <1>7, Cancel
<1>. QED  BY <1>8, Cancel

(* The value of a polynomial is an element.                                *)
LEMMA ValueInField ==
  ASSUME NEW n \in Nat, NEW q \in [1..n -> Field], NEW x \in Field
  PROVE  ValueAt(q, x) \in Field
<1>1. PICK F : Horners(F, q, x, n) /\ ValueAt(q, x) = F[n]
  BY ValueUnfolds
<1>. QED  BY <1>1 DEF Horners

(* The first coefficients of a list.                                       *)
Part(q, m) == [i \in 1..m |-> q[i]]

(* The last step of an evaluation.                                         *)
LEMMA ValueStep ==
  ASSUME NEW n \in Nat, n >= 1, NEW q \in [1..n -> Field], NEW x \in Field
  PROVE  /\ Part(q, n - 1) \in [1..(n - 1) -> Field]
         /\ ValueAt(q, x) = (x ** ValueAt(Part(q, n - 1), x)) ++ q[n]
<1>. DEFINE m == n - 1
            p == Part(q, m)
<1>1. m \in Nat /\ m \in 0..n /\ n \in 1..n /\ \A i \in 1..m : i \in 1..n
  OBVIOUS
<1>2. p \in [1..m -> Field] /\ \A i \in 1..m : p[i] = q[i]
  <2>. HIDE DEF m
  <2>. QED  BY <1>1 DEF Part
<1>. HIDE DEF p
<1>3. PICK F : Horners(F, q, x, n) /\ ValueAt(q, x) = F[n]
  BY ValueUnfolds
<1>4. PICK G : Horners(G, p, x, m) /\ ValueAt(p, x) = G[m]
  <2>. HIDE DEF m
  <2>. QED  BY <1>1, <1>2, ValueUnfolds
<1>5. F[m] = G[m]
  <2>. HIDE DEF m
  <2>. DEFINE T == {i \in 0..m : F[i] = G[i]}
  <2>1. 0 \in T
    BY <1>1, <1>3, <1>4 DEF Horners
  <2>2. \A i \in 1..m : i - 1 \in T => i \in T
    <3>. TAKE i \in 1..m
    <3>. HAVE i - 1 \in T
    <3>1. i \in 1..n /\ i \in 0..m
      BY <1>1
    <3>2. F[i] = (x ** F[i - 1]) ++ q[i] /\ G[i] = (x ** G[i - 1]) ++ p[i]
      BY <1>3, <1>4, <3>1 DEF Horners
    <3>. QED  BY <1>2, <3>1, <3>2
  <2>3. \A i \in 0..m : i \in T
    <3>. HIDE DEF T
    <3>. QED  BY <1>1, <2>1, <2>2, UpTo
  <2>4. m \in T
    <3>1. m \in 0..m
      BY <1>1
    <3>. QED  BY <2>3, <3>1
  <2>. QED  BY <2>4
<1>6. F[n] = (x ** F[m]) ++ q[n]
  BY <1>1, <1>3 DEF Horners
<1>. QED  BY <1>2, <1>3, <1>4, <1>5, <1>6 DEF p

Agree(q, p, x, k) == \A i \in 1..k : ValueAt(q, x[i]) = ValueAt(p, x[i])

(* Polynomials with the same last coefficient that agree where x is not 0  *)
(* agree without it.                                                       *)
LEMMA PartsAgree ==
  ASSUME NEW k \in Nat, NEW x, ArePoints(x, k), NEW n \in Nat, n >= 1,
         NEW q \in [1..n -> Field], NEW p \in [1..n -> Field],
         q[n] = p[n], Agree(q, p, x, k)
  PROVE  Agree(Part(q, n - 1), Part(p, n - 1), x, k)
<1>. SUFFICES ASSUME NEW i \in 1..k
     PROVE  ValueAt(Part(q, n - 1), x[i]) = ValueAt(Part(p, n - 1), x[i])
  BY DEF Agree
<1>. DEFINE a == x[i]
            Q == Part(q, n - 1)
            P == Part(p, n - 1)
            m == n - 1
<1>1. a \in Field /\ a # 0 /\ m \in Nat /\ q[n] \in Field
  BY DEF ArePoints
<1>2. Q \in [1..m -> Field] /\ P \in [1..m -> Field]
  BY <1>1, ValueStep
<1>3. ValueAt(q, a) = (a ** ValueAt(Q, a)) ++ q[n] /\ ValueAt(p, a) = (a ** ValueAt(P, a)) ++ p[n]
  BY <1>1, ValueStep
<1>4. ValueAt(q, a) = ValueAt(p, a)
  BY DEF Agree
<1>. HIDE DEF Q, P, m, a
<1>5. ValueAt(Q, a) \in Field /\ ValueAt(P, a) \in Field
  BY <1>1, <1>2, ValueInField
<1>6. ValueAt(Q, a) = ValueAt(P, a)
  BY <1>1, <1>3, <1>4, <1>5, SameTerm
<1>. QED  BY <1>6 DEF Q, P, a

(* A polynomial is known by its values at as many points as it has         *)
(* coefficients.                                                           *)
LEMMA SameCoefficients ==
  ASSUME NEW k \in Nat, NEW x, ArePoints(x, k), NEW n \in Nat, n <= k,
         NEW q \in [1..n -> Field], NEW p \in [1..n -> Field], Agree(q, p, x, k)
  PROVE  q = p
<1>. DEFINE T == {m \in Nat : m <= k => \A f, g \in [1..m -> Field] : Agree(f, g, x, k) => f = g}
<1>1. ASSUME NEW m \in Nat, \A j \in Nat : j < m => j \in T PROVE m \in T
  <2>. SUFFICES ASSUME m <= k, NEW f \in [1..m -> Field], NEW g \in [1..m -> Field], Agree(f, g, x, k)
       PROVE  f = g
    OBVIOUS
  <2>1. CASE m = 0
    <3>1. \A i \in 1..m : f[i] = g[i]
      BY <2>1
    <3>. QED  BY <3>1
  <2>2. CASE m # 0
    <3>. DEFINE l == m - 1
                F == Part(f, l)
                G == Part(g, l)
    <3>1. l \in Nat /\ l < m /\ l <= k /\ m >= 1 /\ m \in 1..k /\ m \in 1..m
      BY <2>2
    <3>2. f[m] = g[m]
      <4>1. ValuesAt(f, x, k) = ValuesAt(g, x, k)
        BY DEF ValuesAt, Agree
      <4>2. Sum(Weighted(ValuesAt(f, x, k), x, k)) = f[m] /\ Sum(Weighted(ValuesAt(g, x, k), x, k)) = g[m]
        BY <3>1, Interpolates
      <4>. QED  BY <4>1, <4>2
    <3>3. Agree(F, G, x, k)
      BY <3>1, <3>2, PartsAgree
    <3>4. F \in [1..l -> Field] /\ G \in [1..l -> Field]
      <4>1. \A i \in 1..l : i \in 1..m
        OBVIOUS
      <4>. QED  BY <4>1 DEF Part
    <3>5. l \in T
      <4>. HIDE DEF T
      <4>. QED  BY <1>1, <3>1
    <3>6. F = G
      <4>. HIDE DEF F, G, l
      <4>. QED  BY <3>1, <3>3, <3>4, <3>5
    <3>7. \A i \in 1..m : f[i] = g[i]
      <4>. SUFFICES ASSUME NEW i \in 1..m PROVE f[i] = g[i]
        OBVIOUS
      <4>1. CASE i = m
        BY <3>2, <4>1
      <4>2. CASE i # m
        <5>1. i \in 1..l
          BY <4>2
        <5>2. F[i] = f[i] /\ G[i] = g[i]
          BY <5>1 DEF Part
        <5>. QED  BY <3>6, <5>2
      <4>. QED  BY <4>1, <4>2
    <3>. QED  BY <3>7
  <2>. QED  BY <2>1, <2>2
<1>2. T \in SUBSET Nat
  OBVIOUS
<1>3. n \in T
  <2>. HIDE DEF T
  <2>1. T = Nat
    BY <1>1, <1>2, Induction
  <2>. QED  BY <2>1
<1>. QED  BY <1>3

(* These coefficients give these values.                                   *)
Fits(byte, c, x, y, k) == \A i \in 1..k : ValueAt(Polynomial(byte, c), x[i]) = y[i]

(* At most one list of coefficients fits an element and k values.          *)
LEMMA AtMostOneFits ==
  ASSUME NEW k \in Nat, NEW x, ArePoints(x, k), NEW byte \in Field, NEW y,
         NEW c \in [1..k -> Field], NEW d \in [1..k -> Field],
         Fits(byte, c, x, y, k), Fits(byte, d, x, y, k)
  PROVE  c = d
<1>. DEFINE t == k + 1
            q == Polynomial(byte, c)
            p == Polynomial(byte, d)
<1>1. t \in Nat /\ t >= 1 /\ t - 1 = k
  OBVIOUS
<1>. HIDE DEF t
<1>2. /\ q \in [1..t -> Field] /\ p \in [1..t -> Field] /\ q[t] = byte /\ p[t] = byte
      /\ \A i \in 1..k : q[i] = c[t - i]
      /\ \A i \in 1..k : p[i] = d[t - i]
  <2>1. c \in [1..(t - 1) -> Field] /\ d \in [1..(t - 1) -> Field]
    BY <1>1
  <2>2. \A i \in 1..(t - 1) : q[i] = c[t - i]
    BY <1>1, <2>1, Coefficients, ZenonT(60)
  <2>3. \A i \in 1..(t - 1) : p[i] = d[t - i]
    BY <1>1, <2>1, Coefficients, ZenonT(60)
  <2>. QED  BY <1>1, <2>1, <2>2, <2>3, Coefficients
<1>3. Agree(q, p, x, k)
  BY DEF Agree, Fits
<1>. HIDE DEF q, p
<1>4. Agree(Part(q, t - 1), Part(p, t - 1), x, k)
  BY <1>1, <1>2, <1>3, PartsAgree
<1>5. Part(q, k) \in [1..k -> Field] /\ Part(p, k) \in [1..k -> Field]
  <2>1. \A i \in 1..k : i \in 1..t
    BY <1>1
  <2>. QED  BY <1>2, <2>1 DEF Part
<1>6. Part(q, k) = Part(p, k)
  <2>1. k <= k
    OBVIOUS
  <2>. QED  BY <1>1, <1>4, <1>5, <2>1, SameCoefficients
<1>7. \A i \in 1..k : c[i] = d[i]
  <2>. TAKE i \in 1..k
  <2>1. t - i \in 1..k /\ t - (t - i) = i
    BY <1>1
  <2>2. Part(q, k)[t - i] = q[t - i] /\ Part(p, k)[t - i] = p[t - i]
    BY <2>1 DEF Part
  <2>. QED  BY <1>2, <1>6, <2>1, <2>2
<1>. QED  BY <1>7

-----------------------------------------------------------------------------
(* There are as many polynomials as lists of values, so each list has one. *)

(* There are finitely many lists of a length.                              *)
LEMMA FiniteLists ==
  ASSUME NEW S, IsFiniteSet(S), NEW n \in Nat
  PROVE  IsFiniteSet([1..n -> S])
<1>. DEFINE T == {m \in Nat : IsFiniteSet([1..m -> S])}
<1>1. ASSUME NEW m \in Nat, \A j \in Nat : j < m => j \in T PROVE m \in T
  <2>1. CASE m = 0
    <3>. DEFINE e == [i \in 1..m |-> 0]
    <3>1. \A f \in [1..m -> S] : f = e
      <4>. TAKE f \in [1..m -> S]
      <4>1. \A i \in 1..m : f[i] = e[i]
        BY <2>1
      <4>. QED  BY <4>1
    <3>2. [1..m -> S] \subseteq {e}
      BY <3>1
    <3>. HIDE DEF e
    <3>3. IsFiniteSet({e})
      BY FS_Singleton
    <3>. QED  BY <3>2, <3>3, FS_Subset
  <2>2. CASE m # 0
    <3>. DEFINE l == m - 1
                A == [1..l -> S]
                B == [1..m -> S]
                F == [p \in A \X S |-> [i \in 1..m |-> IF i = m THEN p[2] ELSE p[1][i]]]
    <3>1. l \in Nat /\ l < m
      BY <2>2
    <3>2. l \in T
      <4>. HIDE DEF T
      <4>. QED  BY <1>1, <3>1
    <3>3. IsFiniteSet(A \X S)
      <4>1. IsFiniteSet(A)
        BY <3>2
      <4>. HIDE DEF A
      <4>. QED  BY <4>1, FS_Product
    <3>4. \A i \in 1..m : i # m => i \in 1..l
      BY <2>2
    <3>5. F \in [A \X S -> B]
      <4>. SUFFICES ASSUME NEW p \in A \X S, NEW i \in 1..m
           PROVE  (IF i = m THEN p[2] ELSE p[1][i]) \in S
        OBVIOUS
      <4>1. p[1] \in A /\ p[2] \in S
        OBVIOUS
      <4>. QED  BY <3>4, <4>1
    <3>6. ASSUME NEW f \in B PROVE \E p \in A \X S : F[p] = f
      <4>. DEFINE g == [i \in 1..l |-> f[i]]
                  p == <<g, f[m]>>
      <4>1. \A i \in 1..l : i \in 1..m
        BY <2>2
      <4>2. m \in 1..m
        BY <2>2
      <4>3. p \in A \X S /\ p[1] = g /\ p[2] = f[m]
        BY <4>1, <4>2
      <4>4. F[p] = [i \in 1..m |-> IF i = m THEN f[m] ELSE g[i]]
        <5>. HIDE DEF p, g, A, l
        <5>. QED  BY <4>3
      <4>5. \A i \in 1..m : (IF i = m THEN f[m] ELSE g[i]) = f[i]
        BY <3>4
      <4>6. F[p] = f
        <5>1. [i \in 1..m |-> IF i = m THEN f[m] ELSE g[i]] = [i \in 1..m |-> f[i]]
          BY <4>5
        <5>. HIDE DEF F, p
        <5>. QED  BY <4>4, <5>1
      <4>. HIDE DEF F, p, A
      <4>. QED  BY <4>3, <4>6
    <3>7. F \in Surjection(A \X S, B)
      <4>. HIDE DEF F, A, B
      <4>. QED  BY <3>5, <3>6 DEF Surjection
    <3>8. IsFiniteSet(B)
      <4>. HIDE DEF F, A, B
      <4>. QED  BY <3>3, <3>7, FS_Surjection
    <3>. QED  BY <3>8
  <2>. QED  BY <2>1, <2>2
<1>2. T \in SUBSET Nat
  OBVIOUS
<1>3. n \in T
  <2>. HIDE DEF T
  <2>1. T = Nat
    BY <1>1, <1>2, Induction
  <2>. QED  BY <2>1
<1>. QED  BY <1>3

(* There are finitely many elements.                                       *)
LEMMA FiniteField == IsFiniteSet(Field)
<1>1. 0 \in Int /\ Order - 1 \in Int
  BY FieldSize
<1>. DEFINE b == Order - 1
<1>. HIDE DEF b
<1>2. IsFiniteSet(0..b)
  BY <1>1, FS_Interval DEF b
<1>. QED  BY <1>2 DEF Field, b

(* Whatever the constant term, there are coefficients that give as many    *)
(* values as there are of them.                                            *)
LEMMA OneFits ==
  ASSUME NEW k \in Nat, NEW x, ArePoints(x, k), NEW byte \in Field, NEW y \in [1..k -> Field]
  PROVE  \E c \in [1..k -> Field] : Fits(byte, c, x, y, k)
<1>. DEFINE D == [1..k -> Field]
            M == [c \in D |-> [i \in 1..k |-> ValueAt(Polynomial(byte, c), x[i])]]
<1>1. ASSUME NEW c \in D, NEW i \in 1..k PROVE ValueAt(Polynomial(byte, c), x[i]) \in Field
  <2>. DEFINE t == k + 1
  <2>1. t \in Nat /\ t >= 1 /\ t - 1 = k
    OBVIOUS
  <2>. HIDE DEF t
  <2>2. c \in [1..(t - 1) -> Field]
    BY <2>1
  <2>3. Polynomial(byte, c) \in [1..t -> Field]
    BY <2>1, <2>2, Coefficients
  <2>4. x[i] \in Field
    BY DEF ArePoints
  <2>. QED  BY <2>1, <2>3, <2>4, ValueInField
<1>2. M \in [D -> D]
  BY <1>1
<1>3. ASSUME NEW c \in D, NEW d \in D, M[c] = M[d] PROVE c = d
  <2>. DEFINE z == M[d]
  <2>1. \A i \in 1..k : ValueAt(Polynomial(byte, c), x[i]) = M[c][i]
    OBVIOUS
  <2>2. \A i \in 1..k : ValueAt(Polynomial(byte, d), x[i]) = M[d][i]
    OBVIOUS
  <2>. HIDE DEF M
  <2>3. Fits(byte, c, x, z, k) /\ Fits(byte, d, x, z, k)
    BY <1>3, <2>1, <2>2 DEF Fits
  <2>. HIDE DEF z
  <2>. QED  BY <2>3, AtMostOneFits
<1>4. IsFiniteSet(D)
  BY FiniteField, FiniteLists
<1>5. M \in Injection(D, D)
  <2>. HIDE DEF M, D
  <2>. QED  BY <1>2, <1>3 DEF Injection, IsInjective
<1>6. M \in Surjection(D, D)
  <2>. HIDE DEF M, D
  <2>. QED  BY <1>4, <1>5, FS_Injection
<1>7. \E c \in D : M[c] = y
  <2>1. y \in D
    OBVIOUS
  <2>. HIDE DEF M, D
  <2>. QED  BY <1>6, <2>1 DEF Surjection
<1>8. PICK c \in D : M[c] = y
  BY <1>7
<1>9. Fits(byte, c, x, y, k)
  <2>1. \A i \in 1..k : M[c][i] = ValueAt(Polynomial(byte, c), x[i])
    OBVIOUS
  <2>. HIDE DEF M
  <2>. QED  BY <1>8, <2>1 DEF Fits
<1>. QED  BY <1>9

-----------------------------------------------------------------------------
(* Fewer shares than the threshold.                                        *)

(* Lists of a length are the same place by place.                          *)
LEMMA SameList ==
  ASSUME NEW n \in Nat, NEW C, NEW f \in [1..n -> C], NEW g \in [1..n -> C],
         \A i \in 1..n : f[i] = g[i]
  PROVE  f = g
OBVIOUS

(* What was drawn in the deals of s that these shares are of.              *)
Deals(s, t, most, S) ==
  {drawn \in Draw(t, s, Field) : \A share \in S : Shares(s, t, most, drawn)[share.index] = share}

(* Shares of a deal are those at some distinct indices.                    *)
LEMMA SharesHaveIndices ==
  ASSUME NEW r \in Secret, NEW t \in Nat, t >= 2, NEW most \in Field,
         NEW drawn \in Draw(t, r, Field),
         NEW S \in SUBSET {Shares(r, t, most, drawn)[i] : i \in 1..most},
         Cardinality(S) = t - 1
  PROVE  \E e \in [1..(t - 1) -> 1..most] :
           /\ \A i, j \in 1..(t - 1) : i # j => e[i] # e[j]
           /\ S = {Shares(r, t, most, drawn)[e[i]] : i \in 1..(t - 1)}
<1>. DEFINE R == Shares(r, t, most, drawn)
            I == {i \in 1..most : R[i] \in S}
            k == t - 1
            f == [i \in I |-> R[i]]
<1>1. \A i \in 1..most : R[i].index = i
  BY SharesAtPoints
<1>. HIDE DEF R
<1>2. f \in Bijection(I, S)
  <2>1. f \in [I -> S]
    OBVIOUS
  <2>2. \A i, j \in I : f[i] = f[j] => i = j
    BY <1>1
  <2>3. \A share \in S : \E i \in I : f[i] = share
    <3>. TAKE share \in S
    <3>1. PICK i \in 1..most : share = R[i]
      BY DEF R
    <3>2. i \in I /\ f[i] = share
      BY <3>1
    <3>. QED  BY <3>2
  <2>. HIDE DEF f, I
  <2>. QED  BY <2>1, <2>2, <2>3 DEF Bijection, Injection, Surjection, IsInjective
<1>3. IsFiniteSet(I)
  <2>1. most \in Int
    BY FieldSize
  <2>2. IsFiniteSet(1..most)
    BY <2>1, FS_Interval
  <2>. QED  BY <2>2, FS_Subset
<1>4. Cardinality(I) = k
  <2>1. ExistsBijection(I, S)
    <3>. HIDE DEF f, I
    <3>. QED  BY <1>2 DEF ExistsBijection
  <2>. HIDE DEF I
  <2>. QED  BY <1>3, <2>1, FS_Bijection
<1>5. ExistsBijection(1..k, I)
  <2>. HIDE DEF I
  <2>. QED  BY <1>3, <1>4, FS_CardinalityType
<1>6. PICK e \in Bijection(1..k, I) : TRUE
  <2>. HIDE DEF I, k
  <2>. QED  BY <1>5 DEF ExistsBijection
<1>7. /\ e \in [1..k -> I]
      /\ \A i, j \in 1..k : e[i] = e[j] => i = j
      /\ \A i \in I : \E j \in 1..k : e[j] = i
  <2>. HIDE DEF I, k
  <2>. QED  BY <1>6 DEF Bijection, Injection, Surjection, IsInjective
<1>8. e \in [1..k -> 1..most] /\ \A i \in 1..k : R[e[i]] \in S
  BY <1>7
<1>9. S = {R[e[i]] : i \in 1..k}
  <2>1. ASSUME NEW share \in S PROVE \E i \in 1..k : share = R[e[i]]
    <3>1. PICK i \in 1..most : share = R[i]
      BY DEF R
    <3>2. i \in I
      BY <3>1
    <3>. QED  BY <1>7, <3>1, <3>2
  <2>. HIDE DEF k, I
  <2>. QED  BY <1>8, <2>1
<1>10. \A i, j \in 1..k : i # j => e[i] # e[j]
  BY <1>7
<1>. QED  BY <1>8, <1>9, <1>10 DEF R

(* Fewer shares than the threshold say nothing of the secret: there is one *)
(* deal of every secret of that length that they are of (shamir.rs,        *)
(* "secreto perfecto").                                                    *)
THEOREM OneDealOfAnySecret ==
  ASSUME NEW s \in Secret, NEW r \in Secret, Len(s) = Len(r),
         NEW t \in Nat, t >= 2, NEW most \in Field,
         NEW drawn \in Draw(t, r, Field),
         NEW S \in SUBSET {Shares(r, t, most, drawn)[i] : i \in 1..most},
         Cardinality(S) = t - 1
  PROVE  Cardinality(Deals(s, t, most, S)) = 1
<1>. DEFINE k == t - 1
            N == Len(s) + TagLength
            R == Shares(r, t, most, drawn)
            byte(pos) == Payload(s)[pos]
<1>1. k \in Nat /\ k + 1 = t
  OBVIOUS
<1>2. PICK e \in [1..k -> 1..most] :
        /\ \A i, j \in 1..k : i # j => e[i] # e[j]
        /\ S = {R[e[i]] : i \in 1..k}
  BY SharesHaveIndices
<1>. DEFINE y(pos) == [i \in 1..k |-> R[e[i]].y[pos]]
<1>3. /\ N \in Nat /\ Payload(s) \in [1..N -> Field] /\ Len(Payload(s)) = N
      /\ N = Len(r) + TagLength
  BY PayloadOfElements
<1>. HIDE DEF N, k
<1>4. ASSUME NEW j \in 1..most
      PROVE  /\ j \in Field /\ j # 0 /\ R[j].index = j
             /\ R[j] = Share(t, j, R[j].y) /\ R[j].y \in [1..N -> Field]
  BY <1>3, SharesAtPoints
<1>5. ArePoints(e, k)
  <2>1. \A i \in 1..k : e[i] \in 1..most
    OBVIOUS
  <2>. HIDE DEF R
  <2>. QED  BY <1>2, <1>4, <2>1 DEF ArePoints
<1>6. ASSUME NEW pos \in 1..N PROVE byte(pos) \in Field /\ y(pos) \in [1..k -> Field]
  <2>. HIDE DEF R
  <2>. QED  BY <1>3, <1>4
<1>7. Draw(t, s, Field) = [1..N -> [1..k -> Field]]
  BY <1>3 DEF Draw, k
<1>8. ASSUME NEW d \in Draw(t, s, Field)
      PROVE  d \in Deals(s, t, most, S) <=> \A pos \in 1..N : Fits(byte(pos), d[pos], e, y(pos), k)
  <2>. DEFINE Q == Shares(s, t, most, d)
  <2>1. ASSUME NEW j \in 1..most
        PROVE  /\ Q[j] = Share(t, j, Q[j].y) /\ Q[j].y \in [1..N -> Field]
               /\ \A pos \in 1..N : Q[j].y[pos] = ValueAt(Polynomial(byte(pos), d[pos]), j)
    BY SharesAtPoints DEF N
  <2>2. ASSUME NEW j \in 1..most
        PROVE  Q[j] = R[j] <=> \A pos \in 1..N : Q[j].y[pos] = R[j].y[pos]
    <3>. DEFINE u == Q[j].y
                v == R[j].y
    <3>1. Q[j] = Share(t, j, u) /\ R[j] = Share(t, j, v) /\ u \in [1..N -> Field] /\ v \in [1..N -> Field]
      BY <1>4, <2>1
    <3>. HIDE DEF Q, R
    <3>2. ASSUME \A pos \in 1..N : u[pos] = v[pos] PROVE u = v
      <4>. HIDE DEF u, v
      <4>. QED  BY <1>3, <3>1, <3>2, SameList
    <3>. QED  BY <3>1, <3>2
  <2>3. d \in Deals(s, t, most, S) <=> \A i \in 1..k : Q[e[i]] = R[e[i]]
    <3>1. \A i \in 1..k : R[e[i]].index = e[i]
      <4>. HIDE DEF R
      <4>. QED  BY <1>4
    <3>2. d \in Deals(s, t, most, S) <=> \A share \in S : Q[share.index] = share
      BY DEF Deals
    <3>. HIDE DEF Q, R
    <3>. QED  BY <1>2, <3>1, <3>2
  <2>. HIDE DEF Q, R
  <2>4. ASSUME \A i \in 1..k : Q[e[i]] = R[e[i]], NEW pos \in 1..N
        PROVE  Fits(byte(pos), d[pos], e, y(pos), k)
    <3>. SUFFICES ASSUME NEW i \in 1..k
         PROVE  ValueAt(Polynomial(byte(pos), d[pos]), e[i]) = y(pos)[i]
      BY DEF Fits
    <3>1. e[i] \in 1..most
      OBVIOUS
    <3>2. Q[e[i]].y[pos] = ValueAt(Polynomial(byte(pos), d[pos]), e[i])
      BY <2>1, <3>1
    <3>. QED  BY <2>4, <3>2
  <2>5. ASSUME \A pos \in 1..N : Fits(byte(pos), d[pos], e, y(pos), k), NEW i \in 1..k
        PROVE  Q[e[i]] = R[e[i]]
    <3>1. e[i] \in 1..most
      OBVIOUS
    <3>2. \A pos \in 1..N : Q[e[i]].y[pos] = R[e[i]].y[pos]
      <4>. TAKE pos \in 1..N
      <4>1. ValueAt(Polynomial(byte(pos), d[pos]), e[i]) = y(pos)[i]
        BY <2>5 DEF Fits
      <4>2. Q[e[i]].y[pos] = ValueAt(Polynomial(byte(pos), d[pos]), e[i])
        BY <2>1, <3>1
      <4>. QED  BY <4>1, <4>2
    <3>. QED  BY <2>2, <3>1, <3>2
  <2>. QED  BY <2>3, <2>4, <2>5
<1>9. ASSUME NEW pos \in 1..N
      PROVE  \E c \in [1..k -> Field] : Fits(byte(pos), c, e, y(pos), k)
  <2>. HIDE DEF byte, y
  <2>. QED  BY <1>1, <1>5, <1>6, OneFits
<1>. DEFINE w == [pos \in 1..N |-> CHOOSE c \in [1..k -> Field] : Fits(byte(pos), c, e, y(pos), k)]
<1>10. \A pos \in 1..N : w[pos] \in [1..k -> Field] /\ Fits(byte(pos), w[pos], e, y(pos), k)
  <2>. HIDE DEF byte, y
  <2>. QED  BY <1>9
<1>11. w \in [1..N -> [1..k -> Field]]
  <2>. HIDE DEF byte, y
  <2>. QED  BY <1>9
<1>. HIDE DEF w
<1>12. w \in Deals(s, t, most, S)
  <2>. HIDE DEF byte, y
  <2>. QED  BY <1>7, <1>8, <1>10, <1>11
<1>13. ASSUME NEW d \in Deals(s, t, most, S) PROVE d = w
  <2>1. d \in Draw(t, s, Field)
    BY DEF Deals
  <2>2. \A pos \in 1..N : d[pos] \in [1..k -> Field]
    BY <1>7, <2>1
  <2>3. \A pos \in 1..N : d[pos] = w[pos]
    <3>. TAKE pos \in 1..N
    <3>1. Fits(byte(pos), d[pos], e, y(pos), k)
      BY <1>8, <2>1
    <3>. HIDE DEF byte, y
    <3>. QED  BY <1>1, <1>5, <1>6, <1>10, <2>2, <3>1, AtMostOneFits
  <2>. DEFINE C == [1..k -> Field]
  <2>4. d \in [1..N -> C] /\ w \in [1..N -> C]
    BY <1>7, <1>11, <2>1
  <2>. HIDE DEF C
  <2>. QED  BY <1>3, <2>3, <2>4, SameList
<1>14. Deals(s, t, most, S) = {w}
  BY <1>12, <1>13
<1>. QED  BY <1>14, FS_Singleton

-----------------------------------------------------------------------------
(* The invariant of the custody.                                           *)

OnlyOwn ==
  /\ env \in {Unset, NotUnicode, Invalid, Seed(Own)}
  /\ key.seed \in {<<>>, Own}
  /\ restored.status = "ok" => restored.data = Own

KeyInv == TypeOK /\ OnlyOwn

(* The shares of the n-th split that are sound are of one deal.            *)
DealtOnce(n) ==
  \E s \in Secret, t \in Nat, number \in Field : \E drawn \in Draw(t, s, Field) :
    /\ t >= 2
    /\ \A k \in held : k.of = n /\ k.sound =>
         k.seed = s /\ k.share \in {Shares(s, t, number, drawn)[i] : i \in 1..number}

Delivered ==
  /\ IsFiniteSet(held)
  /\ \A k \in held : k = Kept(k.share, k.of, k.seed, k.sound) /\ k.sound \in BOOLEAN
  /\ \A n \in 1..splits : DealtOnce(n)

(* What a run draws is drawn from the field.                               *)
LEMMA DrawnInField ==
  ASSUME NEW t, NEW s, NEW drawn \in Draw(t, s, Values)
  PROVE  drawn \in Draw(t, s, Field)
<1>1. Values \subseteq Field
  BY CustodyAssumption
<1>. DEFINE D == 1..Len(Payload(s))
            E == 1..(t - 1)
<1>2. drawn \in [D -> [E -> Values]]
  BY DEF Draw
<1>. HIDE DEF D, E
<1>3. drawn \in [D -> [E -> Field]]
  BY <1>1, <1>2
<1>. QED  BY <1>3 DEF Draw, D, E

(* Nothing was restored, so that there is nothing to show.                 *)
LEMMA NothingRestored ==
  ASSUME restored' = NotRestored
  PROVE  EnoughSharesRestore'
BY DEF EnoughSharesRestore, NotRestored, Restoration

(* What was delivered stays so while no share is made or damaged.          *)
LEMMA SameShares ==
  ASSUME Delivered, UNCHANGED <<held, splits>>
  PROVE  Delivered'
BY DEF Delivered, DealtOnce

(* What a split delivers is a deal of its own.                             *)
LEMMA SplitDelivers ==
  ASSUME TypeOK, Delivered, NEW s \in Secret, NEW t \in Thresholds, NEW number \in Numbers,
         NEW drawn \in Draw(t, s, Values), cmd_repartir(s, t, number, drawn)
  PROVE  Delivered'
<1>. DEFINE deal == Shares(s, t, number, drawn)
            new == {Kept(share, splits + 1, s, TRUE) : share \in Range(deal)}
<1>1. /\ t \in Nat /\ number \in Field /\ number \in Nat /\ t >= 2
      /\ held' = held \cup new /\ splits' = splits + 1
  <2>1. t \in Field /\ number \in Field
    BY CustodyAssumption
  <2>2. t \in Nat /\ number \in Nat
    BY <2>1, FieldSize
  <2>3. split(s, t, number, drawn).status = "ok"
    BY DEF cmd_repartir
  <2>4. ~ (t < 2 \/ number < t) /\ split(s, t, number, drawn) = SharingOk(deal)
    BY <2>3 DEF split, SharingError
  <2>5. split(s, t, number, drawn).data = deal
    BY <2>4 DEF SharingOk
  <2>6. held' = held \cup new /\ splits' = splits + 1
    BY <2>5 DEF cmd_repartir
  <2>. QED  BY <2>1, <2>2, <2>4, <2>6
<1>2. DOMAIN deal = 1..number /\ Range(deal) = {deal[i] : i \in 1..number}
  <2>1. DOMAIN deal = 1..number
    BY DEF Shares
  <2>. HIDE DEF deal
  <2>. QED  BY <2>1 DEF Range
<1>3. drawn \in Draw(t, s, Field)
  BY DrawnInField
<1>. HIDE DEF deal
<1>4. ASSUME NEW k \in new
      PROVE  /\ k.of = splits + 1 /\ k.seed = s /\ k.sound = TRUE
             /\ k = Kept(k.share, k.of, k.seed, k.sound)
             /\ k.share \in {deal[i] : i \in 1..number}
  BY <1>2 DEF Kept
<1>5. IsFiniteSet(new)
  <2>. DEFINE f == [i \in 1..number |-> Kept(deal[i], splits + 1, s, TRUE)]
              I == 1..number
  <2>1. IsFiniteSet(I)
    BY <1>1, FS_Interval
  <2>2. f \in [I -> new] /\ \A k \in new : \E i \in I : f[i] = k
    BY <1>2
  <2>3. f \in Surjection(I, new)
    <3>. HIDE DEF f, I, new
    <3>. QED  BY <2>2 DEF Surjection
  <2>. HIDE DEF f, I, new
  <2>. QED  BY <2>1, <2>3, FS_Surjection
<1>. HIDE DEF new
<1>6. IsFiniteSet(held')
  <2>1. IsFiniteSet(held)
    BY DEF Delivered
  <2>2. IsFiniteSet(held \cup new)
    BY <1>5, <2>1, FS_Union
  <2>. QED  BY <1>1, <2>2
<1>7. \A k \in held' : k = Kept(k.share, k.of, k.seed, k.sound) /\ k.sound \in BOOLEAN
  <2>1. \A k \in held : k = Kept(k.share, k.of, k.seed, k.sound) /\ k.sound \in BOOLEAN
    BY DEF Delivered
  <2>2. \A k \in new : k = Kept(k.share, k.of, k.seed, k.sound) /\ k.sound \in BOOLEAN
    BY <1>4
  <2>. QED  BY <1>1, <2>1, <2>2
<1>8. splits \in Nat /\ \A k \in held : k.of \in 1..splits
  BY DEF TypeOK
<1>9. ASSUME NEW n \in 1..splits' PROVE DealtOnce(n)'
  <2>1. CASE n = splits + 1
    <3>1. ASSUME NEW k \in held', k.of = n
          PROVE  k.seed = s /\ k.share \in {deal[i] : i \in 1..number}
      <4>1. k \notin held
        BY <1>8, <2>1, <3>1
      <4>2. k \in new
        BY <1>1, <4>1
      <4>. QED  BY <1>4, <4>2
    <3>. QED  BY <1>1, <1>3, <3>1 DEF DealtOnce, deal
  <2>2. CASE n # splits + 1
    <3>1. n \in 1..splits
      BY <1>1, <1>8, <2>2
    <3>2. DealtOnce(n)
      BY <3>1 DEF Delivered
    <3>3. \A k \in held' : k.of = n => k \in held
      BY <1>1, <1>4, <2>2
    <3>4. PICK s0 \in Secret, t0 \in Nat, number0 \in Field :
            \E drawn0 \in Draw(t0, s0, Field) :
              /\ t0 >= 2
              /\ \A k \in held : k.of = n /\ k.sound =>
                   k.seed = s0 /\ k.share \in {Shares(s0, t0, number0, drawn0)[i] : i \in 1..number0}
      BY <3>2 DEF DealtOnce
    <3>5. PICK drawn0 \in Draw(t0, s0, Field) :
              /\ t0 >= 2
              /\ \A k \in held : k.of = n /\ k.sound =>
                   k.seed = s0 /\ k.share \in {Shares(s0, t0, number0, drawn0)[i] : i \in 1..number0}
      BY <3>4
    <3>6. \A k \in held' : k.of = n /\ k.sound =>
            k.seed = s0 /\ k.share \in {Shares(s0, t0, number0, drawn0)[i] : i \in 1..number0}
      BY <3>3, <3>5
    <3>. QED  BY <3>5, <3>6 DEF DealtOnce
  <2>. QED  BY <2>1, <2>2
<1>. QED  BY <1>6, <1>7, <1>9 DEF Delivered

(* A share that is damaged is no longer sound; the others stay.            *)
LEMMA DamageDelivers ==
  ASSUME Delivered, NEW k \in held, Damage(k)
  PROVE  Delivered'
<1>1. PICK d : held' = (held \ {k}) \cup {Kept(d, k.of, k.seed, FALSE)}
  BY DEF Damage
<1>2. splits' = splits
  BY DEF Damage
<1>. DEFINE new == Kept(d, k.of, k.seed, FALSE)
<1>3. new = Kept(new.share, new.of, new.seed, new.sound) /\ new.sound = FALSE
  BY DEF Kept
<1>. HIDE DEF new
<1>4. held' = (held \ {k}) \cup {new}
  BY <1>1 DEF new
<1>5. IsFiniteSet(held')
  <2>1. IsFiniteSet(held)
    BY DEF Delivered
  <2>2. IsFiniteSet(held \ {k})
    BY <2>1, FS_RemoveElement
  <2>. DEFINE rest == held \ {k}
  <2>. HIDE DEF rest
  <2>3. IsFiniteSet(rest \cup {new})
    BY <2>2, FS_AddElement DEF rest
  <2>. QED  BY <1>4, <2>3 DEF rest
<1>6. \A j \in held' : j = Kept(j.share, j.of, j.seed, j.sound) /\ j.sound \in BOOLEAN
  BY <1>3, <1>4 DEF Delivered
<1>7. \A j \in held' : j.sound => j \in held
  BY <1>3, <1>4
<1>8. ASSUME NEW n \in 1..splits PROVE DealtOnce(n)'
  <2>1. DealtOnce(n)
    BY DEF Delivered
  <2>2. PICK s0 \in Secret, t0 \in Nat, number0 \in Field :
          \E drawn0 \in Draw(t0, s0, Field) :
            /\ t0 >= 2
            /\ \A j \in held : j.of = n /\ j.sound =>
                 j.seed = s0 /\ j.share \in {Shares(s0, t0, number0, drawn0)[i] : i \in 1..number0}
    BY <2>1 DEF DealtOnce
  <2>3. PICK drawn0 \in Draw(t0, s0, Field) :
            /\ t0 >= 2
            /\ \A j \in held : j.of = n /\ j.sound =>
                 j.seed = s0 /\ j.share \in {Shares(s0, t0, number0, drawn0)[i] : i \in 1..number0}
    BY <2>2
  <2>4. \A j \in held' : j.of = n /\ j.sound =>
          j.seed = s0 /\ j.share \in {Shares(s0, t0, number0, drawn0)[i] : i \in 1..number0}
    BY <1>7, <2>3
  <2>. QED  BY <2>3, <2>4 DEF DealtOnce
<1>. QED  BY <1>2, <1>5, <1>6, <1>8 DEF Delivered

(* Enough sound shares of one split of the service's seed restore it,      *)
(* whatever the order in which they are brought.                           *)
LEMMA EnoughIsRestored ==
  ASSUME Delivered, NEW given \in SUBSET held, cmd_restaurar(given)
  PROVE  EnoughSharesRestore'
<1>. SUFFICES ASSUME NEW n \in 1..splits, given # {},
                     \A k \in given : k.of = n /\ k.sound /\ k.seed = Own,
                     \A k \in given : Cardinality(given) >= k.share.threshold
              PROVE  restored'.status = "ok" /\ restored'.data = Own
  <2>1. \E status, data : restored' = Restoration(status, data, given)
    BY Zenon DEF cmd_restaurar
  <2>2. splits' = splits
    BY DEF cmd_restaurar
  <2>3. restored'.given = given
    BY <2>1 DEF Restoration
  <2>. QED  BY <2>2, <2>3 DEF EnoughSharesRestore
<1>1. DealtOnce(n)
  BY DEF Delivered
<1>2. PICK s \in Secret, t \in Nat, number \in Field :
        \E drawn \in Draw(t, s, Field) :
          /\ t >= 2
          /\ \A k \in held : k.of = n /\ k.sound =>
               k.seed = s /\ k.share \in {Shares(s, t, number, drawn)[i] : i \in 1..number}
  BY <1>1 DEF DealtOnce
<1>3. PICK drawn \in Draw(t, s, Field) :
          /\ t >= 2
          /\ \A k \in held : k.of = n /\ k.sound =>
               k.seed = s /\ k.share \in {Shares(s, t, number, drawn)[i] : i \in 1..number}
  BY <1>2
<1>. DEFINE deal == Shares(s, t, number, drawn)
            L == Cardinality(given)
<1>4. \A k \in given : k.seed = s /\ \E i \in 1..number : k.share = deal[i]
  BY <1>3
<1>5. s = Own
  BY <1>4
<1>6. ASSUME NEW i \in 1..number
      PROVE  /\ deal[i].threshold = t /\ deal[i].index = i /\ i # 0
             /\ Len(deal[i].y) > TagLength
  <2>1. /\ deal[i].threshold = t /\ deal[i].index = i /\ i # 0
        /\ Len(deal[i].y) = Len(s) + TagLength
    BY <1>3, SharesAtPoints
  <2>2. Len(s) \in Nat /\ TagLength \in Nat /\ Len(s) > 0
    BY PayloadOfElements
  <2>. HIDE DEF deal
  <2>. QED  BY <2>1, <2>2
<1>. HIDE DEF deal
<1>7. L \in Nat /\ L >= t /\ L >= 1
  <2>1. IsFiniteSet(given)
    BY FS_Subset DEF Delivered
  <2>2. L \in Nat
    BY <2>1, FS_CardinalityType
  <2>3. PICK k \in given : TRUE
    OBVIOUS
  <2>4. k.share.threshold = t
    BY <1>4, <1>6
  <2>. QED  BY <1>3, <2>2, <2>3, <2>4
<1>8. \A k \in given : WellFormed(k.share)
  BY <1>3, <1>4, <1>6 DEF WellFormed
<1>9. ASSUME NEW shares \in SetToSeqs(given)
      PROVE  /\ shares # <<>> /\ Len(shares) = L
             /\ combine([i \in 1..Len(shares) |-> shares[i].share]) = SharingOk(Own)
  <2>1. shares \in [1..L -> given] /\ \A i, j \in 1..L : i # j => shares[i] # shares[j]
    BY DEF SetToSeqs
  <2>. HIDE DEF L
  <2>2. Len(shares) = L
    BY <1>7, <2>1, ListLength
  <2>. DEFINE idx == [i \in 1..L |-> shares[i].share.index]
  <2>3. \A i \in 1..L : idx[i] \in 1..number /\ shares[i].share = deal[idx[i]]
    BY <1>4, <1>6, <2>1
  <2>4. \A i, j \in 1..L : i # j => idx[i] # idx[j]
    <3>. SUFFICES ASSUME NEW i \in 1..L, NEW j \in 1..L, idx[i] = idx[j] PROVE i = j
      OBVIOUS
    <3>1. shares[i] \in given /\ shares[j] \in given
      BY <2>1
    <3>2. shares[i].share = shares[j].share
      <4>. HIDE DEF idx
      <4>. QED  BY <2>3
    <3>3. /\ shares[i].of = shares[j].of /\ shares[i].seed = shares[j].seed
          /\ shares[i].sound = TRUE /\ shares[j].sound = TRUE
      BY <3>1 DEF Delivered
    <3>4. /\ shares[i] = Kept(shares[i].share, shares[i].of, shares[i].seed, shares[i].sound)
          /\ shares[j] = Kept(shares[j].share, shares[j].of, shares[j].seed, shares[j].sound)
      BY <3>1 DEF Delivered
    <3>5. shares[i] = shares[j]
      BY <3>2, <3>3, <3>4
    <3>. QED  BY <2>1, <3>5
  <2>5. idx \in [1..L -> 1..number]
    BY <2>3
  <2>6. [i \in 1..Len(shares) |-> shares[i].share] = Brought(deal, idx)
    <3>1. DOMAIN idx = 1..L
      OBVIOUS
    <3>. HIDE DEF idx
    <3>. QED  BY <2>2, <2>3, <3>1 DEF Brought
  <2>. HIDE DEF idx
  <2>7. combine(Brought(deal, idx)) = SharingOk(s)
    BY <1>3, <1>7, <2>4, <2>5, CombineRestores DEF deal
  <2>8. shares # <<>>
    BY <1>7, <2>2
  <2>. QED  BY <1>5, <2>2, <2>6, <2>7, <2>8
<1>10. \A shares \in SetToSeqs(given) :
         LET r == IF shares = <<>> THEN SharingError("no shares")
                  ELSE IF \E k \in given : ~WellFormed(k.share) THEN SharingError("malformed")
                  ELSE verificar_restauracion([i \in 1..Len(shares) |-> shares[i].share], Own)
         IN  r = SharingOk(Own)
  <2>. SUFFICES ASSUME NEW shares \in SetToSeqs(given)
       PROVE  verificar_restauracion([i \in 1..Len(shares) |-> shares[i].share], Own) = SharingOk(Own)
    BY <1>8, <1>9
  <2>. DEFINE b == [i \in 1..Len(shares) |-> shares[i].share]
  <2>1. combine(b) = SharingOk(Own)
    BY <1>9
  <2>. HIDE DEF b
  <2>2. verificar_restauracion(b, Own) = SharingOk(Own)
    BY <2>1 DEF verificar_restauracion, SharingOk
  <2>. QED  BY <2>2 DEF b
<1>11. \E shares \in SetToSeqs(given) :
         LET r == IF shares = <<>> THEN SharingError("no shares")
                  ELSE IF \E k \in given : ~WellFormed(k.share) THEN SharingError("malformed")
                  ELSE verificar_restauracion([i \in 1..Len(shares) |-> shares[i].share], Own)
         IN  restored' = Restoration(r.status, r.data, given)
  BY Zenon DEF cmd_restaurar
<1>12. restored' = Restoration(SharingOk(Own).status, SharingOk(Own).data, given)
  BY <1>10, <1>11, Zenon
<1>. QED  BY <1>12 DEF Restoration, SharingOk

-----------------------------------------------------------------------------
(* Fewer shares than the threshold, when they are delivered.               *)

(* The deals that FewerTellNothing counts are those of OneDealOfAnySecret. *)
LEMMA OneDealIsCounted ==
  ASSUME NEW t \in Thresholds, t >= 2, NEW number \in Numbers,
         NEW s \in Secret, NEW r \in Secret, NEW drawn \in Draw(t, r, Field),
         NEW S \in SUBSET {Shares(r, t, number, drawn)[i] : i \in 1..number},
         Cardinality(S) = t - 1
  PROVE  Cardinality({d \in DOMAIN Dealt[t][s] :
                        \A share \in S : Dealt[t][s][d][share.index] = share}) = 1
<1>. DEFINE most == Max(Numbers)
            top == Order - 1
            R == Shares(r, t, number, drawn)
            Q == Shares(r, t, most, drawn)
<1>1. t \in Nat /\ Numbers \subseteq Field /\ number \in Field /\ number \in Nat
  BY CustodyAssumption, FieldSize
<1>2. most \in Field /\ number <= most
  <2>1. top \in Nat /\ Field = 0..top
    BY FieldSize DEF Field
  <2>. HIDE DEF top
  <2>2. Numbers \in SUBSET (0..top) /\ Numbers # {}
    BY <1>1, <2>1
  <2>3. Max(Numbers) \in Numbers /\ \A y \in Numbers : y <= Max(Numbers)
    BY <2>1, <2>2, Greatest
  <2>. QED  BY <1>1, <2>3
<1>. HIDE DEF most
<1>3. most \in Nat /\ Len(s) = Len(r)
  BY <1>2, FieldSize, CustodyAssumption
<1>4. \A i \in 1..number : i \in 1..most /\ R[i] = Q[i]
  BY <1>1, <1>2, <1>3 DEF Shares
<1>5. S \in SUBSET {Q[i] : i \in 1..most}
  <2>1. \A share \in S : \E i \in 1..number : share = R[i]
    OBVIOUS
  <2>. HIDE DEF R, Q
  <2>. QED  BY <1>4, <2>1
<1>6. Cardinality(Deals(s, t, most, S)) = 1
  BY <1>1, <1>2, <1>3, <1>5, OneDealOfAnySecret
<1>7. Dealt[t][s] = [d \in Draw(t, s, Field) |-> Shares(s, t, most, d)]
  BY Zenon DEF Dealt, most
<1>8. {d \in DOMAIN Dealt[t][s] : \A share \in S : Dealt[t][s][d][share.index] = share}
        = Deals(s, t, most, S)
  BY <1>7 DEF Deals
<1>. QED  BY <1>6, <1>8

(* What FewerTellNothing says of a step.                                   *)
TellsNothing ==
  LET new == {k.share : k \in held' \ held}
      threshold == (CHOOSE share \in new : TRUE).threshold
      few == {S \in SUBSET new : Cardinality(S) = threshold - 1}
      ways(S, s) == Cardinality({drawn \in DOMAIN Dealt[threshold][s] :
                      \A share \in S : Dealt[threshold][s][drawn][share.index] = share})
  IN  \A S \in few : Cardinality({ways(S, s) : s \in Secret}) = 1

(* A split that delivers its shares tells nothing.                         *)
LEMMA SplitTellsNothing ==
  ASSUME TypeOK, NEW r \in Secret, NEW t \in Thresholds, NEW number \in Numbers,
         NEW drawn \in Draw(t, r, Values), cmd_repartir(r, t, number, drawn)
  PROVE  TellsNothing
<1>. DEFINE deal == Shares(r, t, number, drawn)
            added == {Kept(share, splits + 1, r, TRUE) : share \in Range(deal)}
            new == {k.share : k \in held' \ held}
            dealt == {deal[i] : i \in 1..number}
            threshold == (CHOOSE share \in new : TRUE).threshold
            counted(S, s) == {d \in DOMAIN Dealt[threshold][s] :
                                \A share \in S : Dealt[threshold][s][d][share.index] = share}
<1>1. /\ t \in Nat /\ number \in Field /\ number \in Nat /\ t >= 2 /\ t <= number
      /\ held' = held \cup added
  <2>1. t \in Field /\ number \in Field
    BY CustodyAssumption
  <2>2. t \in Nat /\ number \in Nat
    BY <2>1, FieldSize
  <2>3. split(r, t, number, drawn).status = "ok"
    BY DEF cmd_repartir
  <2>4. ~ (t < 2 \/ number < t) /\ split(r, t, number, drawn) = SharingOk(deal)
    BY <2>3 DEF split, SharingError
  <2>5. split(r, t, number, drawn).data = deal
    BY <2>4 DEF SharingOk
  <2>6. held' = held \cup added
    BY <2>5 DEF cmd_repartir
  <2>. QED  BY <2>1, <2>2, <2>4, <2>6
<1>2. Range(deal) = dealt
  <2>1. DOMAIN deal = 1..number
    BY DEF Shares
  <2>. HIDE DEF deal
  <2>. QED  BY <2>1 DEF Range
<1>3. drawn \in Draw(t, r, Field)
  BY DrawnInField
<1>4. \A share \in dealt : share.threshold = t
  BY <1>1, <1>3, SharesAtPoints
<1>. HIDE DEF deal
<1>5. new = dealt
  <2>1. \A k \in added : k.of = splits + 1
    BY DEF Kept
  <2>2. \A k \in held : k.of # splits + 1
    BY DEF TypeOK
  <2>3. held' \ held = added
    BY <1>1, <2>1, <2>2
  <2>4. {k.share : k \in added} = Range(deal)
    <3>1. \A share : Kept(share, splits + 1, r, TRUE).share = share
      BY DEF Kept
    <3>. QED  BY <3>1
  <2>. QED  BY <1>2, <2>3, <2>4
<1>6. threshold = t
  <2>1. 1 \in 1..number
    BY <1>1
  <2>2. deal[1] \in dealt
    BY <2>1
  <2>. HIDE DEF dealt, new
  <2>3. (CHOOSE share \in new : TRUE) \in dealt
    BY <1>5, <2>2
  <2>. QED  BY <1>4, <2>3
<1>. HIDE DEF new, threshold
<1>7. ASSUME NEW S \in SUBSET new, Cardinality(S) = threshold - 1, NEW s \in Secret
      PROVE  Cardinality(counted(S, s)) = 1
  BY <1>1, <1>3, <1>5, <1>6, <1>7, OneDealIsCounted DEF deal
<1>. HIDE DEF counted
<1>8. ASSUME NEW S \in SUBSET new, Cardinality(S) = threshold - 1
      PROVE  Cardinality({Cardinality(counted(S, s)) : s \in Secret}) = 1
  <2>1. Secret # {}
    BY ShamirAssumption
  <2>2. {Cardinality(counted(S, s)) : s \in Secret} = {1}
    BY <1>7, <1>8, <2>1
  <2>. QED  BY <2>2, FS_Singleton
<1>. QED  BY <1>8, Zenon DEF TellsNothing, counted, threshold, new

-----------------------------------------------------------------------------
(* No step configures, restores or serves another seed.                    *)

(* The configurations are told apart by their status.                      *)
LEMMA StatusesDiffer ==
  /\ Unset.status = "unset" /\ NotUnicode.status = "not unicode"
  /\ Invalid.status = "invalid"
  /\ \A s : Seed(s).status = "seed" /\ Seed(s).seed = s
  /\ \A v \in {Unset, NotUnicode, Invalid} : v.seed = <<>> /\ v.status # "seed"
BY DEF Unset, NotUnicode, Invalid, Seed, Setting

(* A start serves the seed that is set, no key if it is not valid, and     *)
(* otherwise a new one.                                                    *)
LEMMA KeyOfAStart ==
  ASSUME OnlyOwn, NEW k \in load_server_key
  PROVE  \/ env = Seed(Own) /\ k = SeedKey(Own)
         \/ env \in {Unset, NotUnicode} /\ k = EphemeralKey(starts + 1)
<1>1. env \in {Unset, NotUnicode, Invalid, Seed(Own)}
  BY DEF OnlyOwn
<1>2. CASE env.status = "seed"
  <2>1. env = Seed(Own)
    BY <1>1, <1>2, StatusesDiffer
  <2>. QED  BY <1>2, <2>1, StatusesDiffer DEF load_server_key
<1>3. CASE env.status # "seed"
  <2>1. env # Invalid
    BY <1>3 DEF load_server_key
  <2>2. env \in {Unset, NotUnicode}
    BY <1>1, <1>3, <2>1, StatusesDiffer
  <2>. QED  BY <1>3, <2>1, <2>2 DEF load_server_key
<1>. QED  BY <1>2, <1>3

(* combine returns a secret or an error that says nothing of it.           *)
LEMMA CombineIsWhole ==
  ASSUME NEW shares, combine(shares).status # "ok"
  PROVE  combine(shares).data = <<>>
BY DEF combine, SharingError, SharingOk

(* What passes the check of a restoration is the seed that was expected.   *)
LEMMA RestoredIsExpected ==
  ASSUME NEW shares, NEW expected
  PROVE  LET r == verificar_restauracion(shares, expected)
         IN  /\ r.status = "ok" => r.data = expected
             /\ r.status # "ok" => r.data = <<>>
BY CombineIsWhole DEF verificar_restauracion, SharingError

(* The service starts with its own seed and nothing restored.              *)
LEMMA InitKeyInv == Init => KeyInv
<1>. SUFFICES ASSUME Init PROVE KeyInv
  OBVIOUS
<1>1. TypeOK
  BY CustodyAssumption DEF Init, TypeOK, NotRestored, Restoration
<1>2. OnlyOwn
  BY DEF Init, OnlyOwn, NoKey, NotRestored, Restoration
<1>. QED  BY <1>1, <1>2 DEF KeyInv

(* A start serves the seed that is configured, or a new key.               *)
LEMMA StartStep == ASSUME KeyInv, Start PROVE KeyInv'
<1>1. \/ key' = SeedKey(Own) /\ starts' \in {starts, starts + 1}
      \/ key' = EphemeralKey(starts + 1) /\ starts' = starts + 1
  BY KeyOfAStart DEF KeyInv, Start
<1>2. starts \in Nat /\ starts' \in Nat
  BY <1>1 DEF KeyInv, TypeOK
<1>3. restored' = NotRestored /\ UNCHANGED <<env, held, splits>>
  BY DEF Start
<1>4. Own \in Secret
  BY CustodyAssumption
<1>5. key' \in {NoKey} \cup {SeedKey(s) : s \in Secret} \cup {EphemeralKey(n) : n \in 1..starts'}
  <2>1. CASE key' = SeedKey(Own)
    BY <2>1, <1>4
  <2>2. CASE key' = EphemeralKey(starts + 1) /\ starts' = starts + 1
    BY <2>2, <1>2
  <2>. QED  BY <1>1, <2>1, <2>2
<1>6. TypeOK'
  BY <1>2, <1>3, <1>5 DEF KeyInv, TypeOK, NotRestored, Restoration
<1>7. OnlyOwn'
  BY <1>1, <1>3 DEF KeyInv, OnlyOwn, SeedKey, EphemeralKey, NotRestored, Restoration
<1>. QED  BY <1>6, <1>7 DEF KeyInv

(* A stop leaves the configuration alone.                                  *)
LEMMA StopStep == ASSUME KeyInv, Stop PROVE KeyInv'
BY DEF KeyInv, TypeOK, OnlyOwn, Stop, NoKey, NotRestored, Restoration

(* A value that is lost or badly copied is no seed at all.                 *)
LEMMA MisconfigureStep ==
  ASSUME KeyInv, NEW v \in {Unset, NotUnicode, Invalid}, Misconfigure(v)
  PROVE  KeyInv'
BY DEF KeyInv, TypeOK, OnlyOwn, Misconfigure, NotRestored, Restoration

(* Splitting changes no configuration and no key, whatever is split.       *)
LEMMA SplitStep ==
  ASSUME KeyInv, NEW s \in ({env.seed} \ {<<>>}) \cup Others, NEW t, NEW n, NEW drawn,
         cmd_repartir(s, t, n, drawn)
  PROVE  KeyInv'
<1>1. s \in {Own} \cup Others
  BY StatusesDiffer DEF KeyInv, OnlyOwn
<1>2. /\ splits' = splits + 1 /\ restored' = NotRestored
      /\ UNCHANGED <<env, key, starts>>
      /\ \E shares : held' = held \cup {Kept(share, splits + 1, s, TRUE) : share \in shares}
  BY DEF cmd_repartir
<1>. PICK shares : held' = held \cup {Kept(share, splits + 1, s, TRUE) : share \in shares}
  BY <1>2
<1>5. \A k \in held' : k \in held \/ (k.of = splits + 1 /\ k.seed = s)
  BY DEF Kept
<1>3. splits \in Nat /\ \A k \in held : k.of \in 1..splits
  BY DEF KeyInv, TypeOK
<1>4. \A k \in held' : k.of \in 1..splits' /\ k.seed \in {Own} \cup Others
  <2>. SUFFICES ASSUME NEW k \in held'
       PROVE  k.of \in 1..(splits + 1) /\ k.seed \in {Own} \cup Others
    BY <1>2
  <2>1. CASE k \in held
    <3>1. k.of \in 1..splits /\ k.seed \in {Own} \cup Others
      BY <2>1 DEF KeyInv, TypeOK
    <3>. QED  BY <3>1, <1>3
  <2>2. CASE k.of = splits + 1 /\ k.seed = s
    BY <2>2, <1>1, <1>3
  <2>. QED  BY <2>1, <2>2, <1>5
<1>6. splits' \in Nat /\ env' = env /\ key' = key /\ starts' = starts
  BY <1>2, <1>3
<1>7. restored' = NotRestored
  BY <1>2
<1>8. TypeOK'
  BY <1>4, <1>6, <1>7 DEF KeyInv, TypeOK, NotRestored, Restoration
<1>9. OnlyOwn'
  BY <1>6, <1>7 DEF KeyInv, OnlyOwn, NotRestored, Restoration
<1>. QED  BY <1>8, <1>9 DEF KeyInv

(* A damaged share is of the same split and seed.                          *)
LEMMA DamageStep == ASSUME KeyInv, NEW k \in held, Damage(k) PROVE KeyInv'
<1>1. PICK d : held' = (held \ {k}) \cup {Kept(d, k.of, k.seed, FALSE)}
  BY DEF Damage
<1>3. \A j \in held' : j.of \in 1..splits /\ j.seed \in {Own} \cup Others
  BY <1>1 DEF KeyInv, TypeOK, Kept
<1>2. restored' = NotRestored /\ UNCHANGED <<env, key, starts, splits>>
  BY DEF Damage
<1>. QED  BY <1>2, <1>3 DEF KeyInv, TypeOK, OnlyOwn, NotRestored, Restoration

(* A restoration shows the service's seed or nothing.                      *)
LEMMA RestoreStep ==
  ASSUME KeyInv, NEW given \in SUBSET held, cmd_restaurar(given)
  PROVE  KeyInv'
<1>1. \E r : /\ restored' = Restoration(r.status, r.data, given)
             /\ r.status = "ok" => r.data = Own
             /\ r.status # "ok" => r.data = <<>>
  <2>1. PICK shares, brought :
          LET r == IF shares = <<>> THEN SharingError("no shares")
                   ELSE IF \E k \in given : ~WellFormed(k.share) THEN SharingError("malformed")
                   ELSE verificar_restauracion(brought, Own)
          IN  restored' = Restoration(r.status, r.data, given)
    BY DEF cmd_restaurar
  <2>2. CASE restored' = Restoration("no shares", <<>>, given)
    <3>. WITNESS SharingError("no shares")
    <3>. QED  BY <2>2 DEF SharingError
  <2>3. CASE restored' = Restoration("malformed", <<>>, given)
    <3>. WITNESS SharingError("malformed")
    <3>. QED  BY <2>3 DEF SharingError
  <2>4. CASE restored' = Restoration(verificar_restauracion(brought, Own).status,
                                     verificar_restauracion(brought, Own).data, given)
    <3>. WITNESS verificar_restauracion(brought, Own)
    <3>. QED  BY <2>4, RestoredIsExpected
  <2>. QED  BY <2>1, <2>2, <2>3, <2>4 DEF SharingError
<1>2. UNCHANGED <<env, key, starts, held, splits>>
  BY DEF cmd_restaurar
<1>. QED  BY <1>1, <1>2 DEF KeyInv, TypeOK, OnlyOwn, Restoration

(* What is put back is what was restored.                                  *)
LEMMA ReinstateStep == ASSUME KeyInv, Reinstate PROVE KeyInv'
BY CustodyAssumption DEF KeyInv, TypeOK, OnlyOwn, Reinstate, NotRestored, Restoration

-----------------------------------------------------------------------------
(* Every step keeps the invariant.                                         *)

(* The keys, the shares that are kept and what they restore.               *)
IInv == KeyInv /\ Delivered /\ EnoughSharesRestore

(* What is split is the service's seed or that of another service.         *)
LEMMA SeedOfASplit ==
  ASSUME OnlyOwn, NEW s \in ({env.seed} \ {<<>>}) \cup Others
  PROVE  s \in Secret
<1>1. s \in {Own} \cup Others
  BY StatusesDiffer DEF OnlyOwn
<1>. QED  BY <1>1, CustodyAssumption

(* At first there are no shares.                                           *)
LEMMA InitIInv == Init => IInv
<1>. SUFFICES ASSUME Init PROVE IInv
  OBVIOUS
<1>1. KeyInv
  BY InitKeyInv
<1>2. Delivered
  <2>1. held = {} /\ splits = 0
    BY DEF Init
  <2>2. IsFiniteSet(held)
    BY <2>1, FS_EmptySet
  <2>3. 1..splits = {}
    BY <2>1
  <2>. QED  BY <2>1, <2>2, <2>3 DEF Delivered
<1>3. EnoughSharesRestore
  BY DEF Init, EnoughSharesRestore
<1>. QED  BY <1>1, <1>2, <1>3 DEF IInv

(* Every action keeps the invariant.                                       *)
LEMMA StepIInv == IInv /\ [Next]_vars => IInv'
<1>. SUFFICES ASSUME IInv, [Next]_vars PROVE IInv'
  OBVIOUS
<1>. USE DEF IInv
<1>1. CASE Start
  <2>1. restored' = NotRestored /\ UNCHANGED <<held, splits>>
    BY <1>1 DEF Start
  <2>. QED  BY <1>1, <2>1, StartStep, SameShares, NothingRestored
<1>2. CASE Stop
  <2>1. restored' = NotRestored /\ UNCHANGED <<held, splits>>
    BY <1>2 DEF Stop
  <2>. QED  BY <1>2, <2>1, StopStep, SameShares, NothingRestored
<1>3. ASSUME NEW v \in {Unset, NotUnicode, Invalid}, Misconfigure(v) PROVE IInv'
  <2>1. restored' = NotRestored /\ UNCHANGED <<held, splits>>
    BY <1>3 DEF Misconfigure
  <2>. QED  BY <1>3, <2>1, MisconfigureStep, SameShares, NothingRestored
<1>4. ASSUME NEW s \in ({env.seed} \ {<<>>}) \cup Others, NEW t \in Thresholds,
             NEW n \in Numbers, NEW drawn \in Draw(t, s, Values),
             cmd_repartir(s, t, n, drawn)
      PROVE  IInv'
  <2>1. restored' = NotRestored
    BY <1>4 DEF cmd_repartir
  <2>2. s \in Secret
    BY SeedOfASplit DEF KeyInv
  <2>3. Delivered'
    BY <1>4, <2>2, SplitDelivers DEF KeyInv
  <2>. QED  BY <1>4, <2>1, <2>3, SplitStep, NothingRestored
<1>5. ASSUME NEW k \in held, Damage(k) PROVE IInv'
  <2>1. restored' = NotRestored
    BY <1>5 DEF Damage
  <2>. QED  BY <1>5, <2>1, DamageStep, DamageDelivers, NothingRestored
<1>6. ASSUME NEW given \in SUBSET held, cmd_restaurar(given) PROVE IInv'
  <2>1. UNCHANGED <<held, splits>>
    BY <1>6 DEF cmd_restaurar
  <2>. QED  BY <1>6, <2>1, RestoreStep, SameShares, EnoughIsRestored
<1>7. CASE Reinstate
  <2>1. restored' = NotRestored /\ UNCHANGED <<held, splits>>
    BY <1>7 DEF Reinstate
  <2>. QED  BY <1>7, <2>1, ReinstateStep, SameShares, NothingRestored
<1>8. CASE UNCHANGED vars
  <2>1. UNCHANGED <<held, splits>>
    BY <1>8 DEF vars
  <2>2. KeyInv'
    BY <1>8 DEF vars, KeyInv, TypeOK, OnlyOwn
  <2>3. EnoughSharesRestore'
    BY <1>8 DEF vars, EnoughSharesRestore
  <2>. QED  BY <2>1, <2>2, <2>3, SameShares
<1>. QED  BY <1>1, <1>2, <1>3, <1>4, <1>5, <1>6, <1>7, <1>8 DEF Next

(* So it always holds.                                                     *)
LEMMA SpecIInv == Spec => []IInv
BY InitIInv, StepIInv, PTL DEF Spec

-----------------------------------------------------------------------------
(* The variables keep their kinds, and what is restored came from shares   *)
(* that are kept.                                                          *)
THEOREM TypeCorrect == Spec => []TypeOK
BY SpecIInv, PTL DEF IInv, KeyInv

(* However shares of several seeds are mixed, damaged or brought, and the  *)
(* configuration lost, the service never serves another seed's key.        *)
THEOREM OwnKeyOnly == Spec => []NeverAnotherKey
<1>1. IInv => NeverAnotherKey
  BY DEF IInv, KeyInv, OnlyOwn, NeverAnotherKey
<1>. QED  BY <1>1, SpecIInv, PTL

(* Sound shares of one split of the service's seed, as many as it asks for *)
(* or more and in any order, bring the seed back (custodia-seed restaurar, *)
(* shamir.rs combine).                                                     *)
THEOREM EnoughAlwaysRestore == Spec => []EnoughSharesRestore
BY SpecIInv, PTL DEF IInv

(* What a split delivers tells nothing to who holds fewer shares than its  *)
(* threshold: every seed is explained by as many deals (shamir.rs,         *)
(* "secreto perfecto").                                                    *)
THEOREM FewerAlwaysTellNothing == Spec => FewerTellNothing
<1>. DEFINE silent == splits' # splits => TellsNothing
<1>1. IInv /\ [Next]_vars => [silent]_vars
  <2>. SUFFICES ASSUME IInv, Next, splits' # splits PROVE TellsNothing
    BY DEF vars
  <2>1. PICK s \in ({env.seed} \ {<<>>}) \cup Others, t \in Thresholds, n \in Numbers :
          \E drawn \in Draw(t, s, Values) : cmd_repartir(s, t, n, drawn)
    BY DEF Next, Start, Stop, Misconfigure, Damage, cmd_restaurar, Reinstate
  <2>2. PICK drawn \in Draw(t, s, Values) : cmd_repartir(s, t, n, drawn)
    BY <2>1
  <2>3. s \in Secret /\ TypeOK
    BY SeedOfASplit DEF IInv, KeyInv
  <2>. QED  BY <2>2, <2>3, SplitTellsNothing
<1>2. Spec => [][silent]_vars
  <2>. HIDE DEF silent
  <2>. QED  BY <1>1, SpecIInv, PTL DEF Spec
<1>3. [silent]_vars => [splits' # splits =>
        LET new == {k.share : k \in held' \ held}
            threshold == (CHOOSE share \in new : TRUE).threshold
            few == {S \in SUBSET new : Cardinality(S) = threshold - 1}
            ways(S, s) == Cardinality({drawn \in DOMAIN Dealt[threshold][s] :
                            \A share \in S : Dealt[threshold][s][drawn][share.index] = share})
        IN  \A S \in few : Cardinality({ways(S, s) : s \in Secret}) = 1]_vars
  BY DEF TellsNothing
<1>. QED  BY <1>2, <1>3, PTL DEF FewerTellNothing
=============================================================================
