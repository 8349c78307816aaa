------------------------- MODULE OprfServiceProofs -------------------------
(***************************************************************************)
(* Proofs about the OPRF server and its store, for any number of keys,     *)
(* customers, operators and periods, with crashes and failing statements.  *)
(* The first part is about its burst limiter alone, seen through a window, *)
(* for every set of keys and plans; the last one about billing periods.    *)
(***************************************************************************)
EXTENDS OprfService, BurstWindow, Calendar, WellFoundedInduction, TLAPS

(* What the bucket of k would hold if its window's plan called now.        *)
Held(k) == Topped(k, plan[k])

TimesOrdered ==
  \A k \in Keys :
    /\ since[k] <= now /\ granted[k] <= now /\ denied[k] <= now
    /\ bucket[k] # NoBucket => granted[k] <= bucket[k].last /\ bucket[k].last <= now

(* Admitted calls and the tokens still held are paid for together.         *)
WindowPaid ==
  \A k \in Keys :
    count[k] * Scale + Held(k)
      <= (boots[k] + 1) * Capacity[plan[k]] + (now - since[k]) * Refill[plan[k]]

(* A bucket below one token has kept everything earned since the grant.    *)
EarningsKept ==
  \A k \in Keys :
    bucket[k] # NoBucket =>
      \/ bucket[k].tokens >= Scale
      \/ bucket[k].tokens >= (bucket[k].last - granted[k]) * LowRefill

WindowIInv == WindowTypeOK /\ TimesOrdered /\ WindowPaid /\ EarningsKept /\ DenialsAreJustified

USE DEF issuing

-----------------------------------------------------------------------------
LEMMA Distribute ==
  ASSUME NEW a \in Int, NEW b \in Int, NEW c \in Int
  PROVE  (a + b) * c = a * c + b * c
BY SMT

LEMMA ProductIsNat ==
  ASSUME NEW a \in Nat, NEW b \in Nat
  PROVE  a * b \in Nat
BY SMT

LEMMA ProductMonotone ==
  ASSUME NEW a \in Nat, NEW b \in Nat, NEW c \in Nat, b <= c
  PROVE  a * b <= a * c
<1>1. PICK d \in Nat : c = b + d
  BY SMT
<1>2. a * c = a * b + a * d
  BY <1>1, SMT
<1>3. a * d \in Nat
  BY ProductIsNat
<1>4. a * b \in Nat
  BY ProductIsNat
<1>. QED  BY <1>2, <1>3, <1>4, SMT

(* Entry and Topped are what WindowTypeOK says they are, and Topped is clamped.  *)
LEMMA ToppedType ==
  ASSUME WindowTypeOK, TimesOrdered, NEW k \in Keys, NEW p \in Plans
  PROVE  /\ Entry(k, p) \in Bucket
         /\ Entry(k, p).last <= now
         /\ (now - Entry(k, p).last) * Refill[p] \in Nat
         /\ Topped(k, p) \in Nat
         /\ Topped(k, p) <= Capacity[p]
<1>1. Entry(k, p) \in Bucket /\ Entry(k, p).last <= now
  BY BucketAssumption DEF Entry, WindowTypeOK, TimesOrdered, Bucket
<1>2. now - Entry(k, p).last \in Nat
  BY <1>1 DEF WindowTypeOK, Bucket
<1>3. (now - Entry(k, p).last) * Refill[p] \in Nat
  BY <1>2, ProductIsNat, BucketAssumption
<1>. QED
  BY <1>1, <1>3, BucketAssumption DEF Topped, Least, Bucket

(* The same of what the next state holds.                                  *)
LEMMA HeldNext ==
  ASSUME WindowTypeOK', TimesOrdered', NEW k \in Keys
  PROVE  Held(k)' \in Nat /\ Held(k)' <= Capacity[plan'[k]]
<1>. DEFINE p == plan'[k]
            e == Entry(k, plan[k])'
<1>1. p \in Plans /\ Capacity[p] \in Nat
  BY BucketAssumption DEF WindowTypeOK
<1>2. e \in Bucket /\ e.last <= now'
  BY <1>1, BucketAssumption DEF Entry, WindowTypeOK, TimesOrdered, Bucket
<1>3. now' - e.last \in Nat
  BY <1>2 DEF WindowTypeOK, Bucket
<1>4. (now' - e.last) * Refill[p] \in Nat
  BY <1>1, <1>3, ProductIsNat, BucketAssumption
<1>5. Held(k)' = Least(e.tokens + (now' - e.last) * Refill[p], Capacity[p])
  BY DEF Held, Topped
<1>. QED  BY <1>1, <1>2, <1>4, <1>5 DEF Least, Bucket

(* The bucket of k right after a call under plan p, as seen at the time of *)
(* the call: nothing is credited twice.                                    *)
LEMMA AfterCall ==
  ASSUME WindowTypeOK, TimesOrdered, NEW k \in Keys, NEW p \in Plans,
         Spend(k, p), UNCHANGED now, plan' = [plan EXCEPT ![k] = p]
  PROVE  /\ bucket' \in [Keys -> Bucket \cup {NoBucket}]
         /\ bucket'[k] \in Bucket
         /\ bucket'[k] # NoBucket
         /\ bucket'[k].last = now
         /\ bucket'[k].tokens = IF Admits(k, p) THEN Topped(k, p) - Scale ELSE Topped(k, p)
         /\ Held(k)' = bucket'[k].tokens
         /\ \A j \in Keys : j # k => bucket'[j] = bucket[j] /\ Held(j)' = Held(j)
<1>. DEFINE left == IF Admits(k, p) THEN Topped(k, p) - Scale ELSE Topped(k, p)
<1>1. left \in Nat /\ left <= Capacity[p]
  BY ToppedType, BucketAssumption DEF Admits
<1>2. bucket' = [bucket EXCEPT ![k] = [tokens |-> left, last |-> now]]
  BY DEF Spend
<1>3. [tokens |-> left, last |-> now] \in Bucket
  BY <1>1 DEF Bucket, WindowTypeOK
<1>. HIDE DEF left
<1>4. bucket'[k] = [tokens |-> left, last |-> now]
  BY <1>2 DEF WindowTypeOK
<1>5. bucket' \in [Keys -> Bucket \cup {NoBucket}]
  BY <1>2, <1>3 DEF WindowTypeOK
<1>6. bucket'[k] # NoBucket
  BY <1>3, <1>4, BucketAssumption
<1>7. Held(k)' = left
  <2>1. plan'[k] = p
    BY DEF WindowTypeOK
  <2>2. Held(k)' = Least(left + (now - now) * Refill[p], Capacity[p])
    BY <1>4, <1>6, <2>1 DEF Held, Topped, Entry
  <2>3. (now - now) * Refill[p] = 0
    BY BucketAssumption DEF WindowTypeOK
  <2>. QED  BY <2>2, <2>3, <1>1, BucketAssumption DEF Least
<1>8. ASSUME NEW j \in Keys, j # k
      PROVE  bucket'[j] = bucket[j] /\ Held(j)' = Held(j)
  <2>1. bucket'[j] = bucket[j] /\ plan'[j] = plan[j]
    BY <1>2, <1>8 DEF WindowTypeOK
  <2>. QED  BY <2>1 DEF Held, Topped, Entry
<1>. QED  BY <1>3, <1>4, <1>5, <1>6, <1>7, <1>8 DEF left

-----------------------------------------------------------------------------
LEMMA CountType ==
  ASSUME WindowTypeOK, NEW k \in Keys, NEW p \in Plans, NEW n \in {0, 1}, Count(k, p, n)
  PROVE  /\ plan' \in [Keys -> Plans]
         /\ since' \in [Keys -> Nat] /\ count' \in [Keys -> Nat] /\ boots' \in [Keys -> Nat]
<1>1. plan' \in [Keys -> Plans]
  BY DEF Count, WindowTypeOK
<1>2. CASE plan[k] = p
  BY <1>1, <1>2 DEF Count, WindowTypeOK
<1>3. CASE plan[k] # p
  BY <1>1, <1>3 DEF Count, WindowTypeOK
<1>. QED  BY <1>2, <1>3

(* What the call of k leaves in the window of k, in its two cases.         *)
LEMMA CallWindow ==
  ASSUME WindowIInv, NEW k \in Keys, NEW p \in Plans, NEW n \in {0, 1},
         Spend(k, p), Count(k, p, n), UNCHANGED now,
         n = IF Admits(k, p) THEN 1 ELSE 0
  PROVE  /\ WindowPaid'
         /\ \A j \in Keys : since'[j] <= now
<1>. USE DEF WindowIInv
<1>1. plan' = [plan EXCEPT ![k] = p]
  BY DEF Count
<1>2. /\ Held(k)' = Topped(k, p) - n * Scale
      /\ \A j \in Keys : j # k => Held(j)' = Held(j)
  <2>1. n * Scale = IF Admits(k, p) THEN Scale ELSE 0
    BY BucketAssumption
  <2>2. Topped(k, p) \in Nat /\ Scale \in Nat
    BY ToppedType, BucketAssumption
  <2>3. /\ Held(k)' = bucket'[k].tokens
        /\ bucket'[k].tokens = IF Admits(k, p) THEN Topped(k, p) - Scale ELSE Topped(k, p)
        /\ \A j \in Keys : j # k => Held(j)' = Held(j)
    BY <1>1, AfterCall
  <2>. QED  BY <2>1, <2>2, <2>3
<1>3. Topped(k, p) \in Nat /\ Topped(k, p) <= Capacity[p]
  BY ToppedType
<1>4. CASE plan[k] = p
  <2>1. count' = [count EXCEPT ![k] = count[k] + n] /\ since' = since /\ boots' = boots
        /\ plan' = plan
    BY <1>4, <1>1 DEF Count, WindowTypeOK
  <2>2. count'[k] * Scale = count[k] * Scale + n * Scale
    BY <2>1, Distribute, BucketAssumption DEF WindowTypeOK
  <2>3. count'[k] * Scale + Held(k)' = count[k] * Scale + Held(k)
    BY <2>2, <1>2, <1>3, <1>4, BucketAssumption DEF Held, WindowTypeOK
  <2>4. \A j \in Keys : j # k => count'[j] = count[j]
    BY <2>1 DEF WindowTypeOK
  <2>. QED
    BY <2>1, <2>3, <2>4, <1>2 DEF WindowPaid, TimesOrdered
<1>5. CASE plan[k] # p
  <2>1. /\ count' = [count EXCEPT ![k] = n]
        /\ since' = [since EXCEPT ![k] = now]
        /\ boots' = [boots EXCEPT ![k] = 0]
    BY <1>5 DEF Count
  <2>2. count'[k] = n /\ since'[k] = now /\ boots'[k] = 0 /\ plan'[k] = p
    BY <2>1, <1>1 DEF WindowTypeOK
  <2>3. (boots'[k] + 1) * Capacity[p] + (now - since'[k]) * Refill[p] = Capacity[p]
    BY <2>2, BucketAssumption DEF WindowTypeOK
  <2>4. count'[k] * Scale + Held(k)' = Topped(k, p)
    BY <2>2, <1>2, <1>3, BucketAssumption
  <2>5. \A j \in Keys : j # k =>
          count'[j] = count[j] /\ since'[j] = since[j] /\ boots'[j] = boots[j] /\ plan'[j] = plan[j]
    BY <2>1, <1>1 DEF WindowTypeOK
  <2>. QED
    BY <2>2, <2>3, <2>4, <2>5, <1>2, <1>3 DEF WindowPaid, TimesOrdered, WindowTypeOK
<1>. QED  BY <1>4, <1>5

LEMMA GrantPreserves ==
  ASSUME WindowIInv, NEW k \in Keys, NEW p \in Plans, Grant(k, p)
  PROVE  WindowIInv'
<1>. USE DEF WindowIInv
<1>1. plan' = [plan EXCEPT ![k] = p] /\ UNCHANGED now /\ Spend(k, p)
  BY DEF Grant, Count
<1>2. /\ bucket' \in [Keys -> Bucket \cup {NoBucket}]
      /\ bucket'[k] \in Bucket /\ bucket'[k] # NoBucket /\ bucket'[k].last = now
      /\ \A j \in Keys : j # k => bucket'[j] = bucket[j]
  BY <1>1, AfterCall
<1>3. WindowPaid' /\ \A j \in Keys : since'[j] <= now
  BY CallWindow, 1 \in {0, 1} DEF Grant
<1>4. WindowTypeOK'
  BY <1>2, CountType, 1 \in {0, 1} DEF Grant, WindowTypeOK
<1>5. granted'[k] = now /\ denied' = denied /\ \A j \in Keys : j # k => granted'[j] = granted[j]
  BY DEF Grant, WindowTypeOK
<1>6. TimesOrdered'
  BY <1>1, <1>2, <1>3, <1>5 DEF TimesOrdered, WindowTypeOK
<1>7. EarningsKept'
  <2>1. (now - now) * LowRefill = 0
    BY WindowAssumption DEF WindowTypeOK
  <2>2. bucket'[k].tokens >= (bucket'[k].last - granted'[k]) * LowRefill
    BY <2>1, <1>2, <1>5 DEF Bucket
  <2>. QED  BY <2>2, <1>2, <1>5 DEF EarningsKept
<1>8. DenialsAreJustified'
  BY <1>5 DEF DenialsAreJustified, TimesOrdered, WindowTypeOK
<1>. QED  BY <1>3, <1>4, <1>6, <1>7, <1>8

(* A denied call finds the bucket short, and short means all the time      *)
(* since the grant has been credited.                                      *)
LEMMA DenyPreserves ==
  ASSUME WindowIInv, NEW k \in Keys, NEW p \in Plans, Deny(k, p)
  PROVE  WindowIInv'
<1>. USE DEF WindowIInv
<1>1. plan' = [plan EXCEPT ![k] = p] /\ UNCHANGED now /\ Spend(k, p) /\ ~Admits(k, p)
  BY DEF Deny, Count
<1>2. /\ bucket' \in [Keys -> Bucket \cup {NoBucket}]
      /\ bucket'[k] \in Bucket /\ bucket'[k] # NoBucket /\ bucket'[k].last = now
      /\ bucket'[k].tokens = Topped(k, p)
      /\ \A j \in Keys : j # k => bucket'[j] = bucket[j]
  BY <1>1, AfterCall
<1>3. WindowPaid' /\ \A j \in Keys : since'[j] <= now
  BY CallWindow, 0 \in {0, 1}, <1>1 DEF Deny
<1>4. WindowTypeOK'
  BY <1>2, CountType, 0 \in {0, 1} DEF Deny, WindowTypeOK
<1>5. denied'[k] = now /\ granted' = granted /\ \A j \in Keys : j # k => denied'[j] = denied[j]
  BY DEF Deny, WindowTypeOK
<1>6. TimesOrdered'
  BY <1>1, <1>2, <1>3, <1>5 DEF TimesOrdered, WindowTypeOK
<1>7. Topped(k, p) >= (now - granted[k]) * LowRefill
  <2>1. Topped(k, p) < Scale
    BY <1>1, ToppedType, BucketAssumption DEF Admits
  <2>2. Entry(k, p).tokens + (now - Entry(k, p).last) * Refill[p] = Topped(k, p)
    BY <2>1, BucketAssumption, ToppedType DEF Topped, Least, Bucket
  <2>3. Entry(k, p).tokens <= Topped(k, p)
    BY <2>2, ToppedType DEF Bucket
  <2>4. bucket[k] # NoBucket
    <3>1. Capacity[p] >= Scale /\ Capacity[p] \in Nat /\ Scale \in Nat
      BY BucketAssumption
    <3>2. Entry(k, p).tokens < Scale
      BY <2>1, <2>3, <3>1, ToppedType DEF Bucket
    <3>3. bucket[k] = NoBucket => Entry(k, p).tokens = Capacity[p]
      BY DEF Entry
    <3>. QED  BY <3>1, <3>2, <3>3
  <2>5. Entry(k, p) = bucket[k] /\ bucket[k] \in Bucket /\ bucket[k].last <= now
        /\ granted[k] <= bucket[k].last
    BY <2>4 DEF Entry, WindowTypeOK, TimesOrdered
  <2>6. bucket[k].tokens >= (bucket[k].last - granted[k]) * LowRefill
    BY <2>1, <2>3, <2>4, <2>5, BucketAssumption, ToppedType DEF EarningsKept, Bucket
  <2>7. (now - bucket[k].last) * LowRefill <= (now - bucket[k].last) * Refill[p]
    <3>1. now - bucket[k].last \in Nat
      BY <2>5 DEF WindowTypeOK, Bucket
    <3>. QED  BY <3>1, ProductMonotone, WindowAssumption, BucketAssumption
  <2>. DEFINE a == now - bucket[k].last
              b == bucket[k].last - granted[k]
  <2>8. a \in Int /\ b \in Int /\ now - granted[k] = a + b
    BY <2>5 DEF WindowTypeOK, Bucket
  <2>9. (now - granted[k]) * LowRefill = a * LowRefill + b * LowRefill
    BY <2>8, Distribute, WindowAssumption
  <2>10. a * LowRefill \in Int /\ b * LowRefill \in Int /\ a * Refill[p] \in Int
    BY <2>8, WindowAssumption, BucketAssumption, SMT
  <2>. QED
    BY <2>2, <2>5, <2>6, <2>7, <2>9, <2>10, ToppedType DEF Bucket
<1>8. EarningsKept'
  BY <1>2, <1>5, <1>7 DEF EarningsKept
<1>9. DenialsAreJustified'
  <2>1. (now - granted[k]) * LowRefill < Scale
    <3>1. Topped(k, p) < Scale
      BY <1>1, ToppedType, BucketAssumption DEF Admits
    <3>2. (now - granted[k]) * LowRefill \in Int
      BY WindowAssumption DEF WindowTypeOK
    <3>. QED  BY <3>1, <3>2, <1>7, ToppedType, BucketAssumption
  <2>. QED  BY <2>1, <1>5 DEF DenialsAreJustified
<1>. QED  BY <1>3, <1>4, <1>6, <1>8, <1>9

LEMMA PassPreserves ==
  ASSUME WindowIInv, PassWindow
  PROVE  WindowIInv'
<1>. USE DEF WindowIInv
<1>1. now' = now + 1 /\ UNCHANGED <<bucket, plan, since, count, boots, granted, denied>>
  BY DEF PassWindow, Tick, window
<1>2. WindowTypeOK' /\ TimesOrdered' /\ EarningsKept' /\ DenialsAreJustified'
  BY <1>1 DEF WindowTypeOK, TimesOrdered, EarningsKept, DenialsAreJustified, Bucket
<1>3. ASSUME NEW k \in Keys
      PROVE  count'[k] * Scale + Held(k)'
               <= (boots'[k] + 1) * Capacity[plan'[k]] + (now' - since'[k]) * Refill[plan'[k]]
  <2>. DEFINE p == plan[k]
              r == Refill[p]
              e == Entry(k, p)
  <2>1. p \in Plans /\ r \in Nat /\ Capacity[p] \in Nat
    BY BucketAssumption DEF WindowTypeOK
  <2>2. Held(k)' <= Held(k) + r /\ Held(k)' \in Nat /\ Held(k) \in Nat
    <3>1. Held(k) \in Nat /\ Held(k)' \in Nat /\ Held(k)' <= Capacity[p]
      BY <1>1, <1>2, <2>1, ToppedType, HeldNext DEF Held
    <3>2. CASE bucket[k] = NoBucket
      <4>1. Held(k) = Least(Capacity[p] + (now - now) * r, Capacity[p])
        BY <3>2 DEF Held, Topped, Entry
      <4>2. (now - now) * r = 0
        BY <2>1 DEF WindowTypeOK
      <4>3. Held(k) = Capacity[p]
        BY <4>1, <4>2, <2>1 DEF Least
      <4>. QED  BY <4>3, <3>1, <2>1
    <3>3. CASE bucket[k] # NoBucket
      <4>. DEFINE b == bucket[k]
      <4>1. b \in Bucket /\ b.last <= now
        BY <3>3 DEF WindowTypeOK, TimesOrdered
      <4>2. Held(k) = Least(b.tokens + (now - b.last) * r, Capacity[p])
        BY <3>3 DEF Held, Topped, Entry
      <4>3. Held(k)' = Least(b.tokens + (now' - b.last) * r, Capacity[p])
        BY <3>3, <1>1 DEF Held, Topped, Entry
      <4>4. (now' - b.last) * r = (now - b.last) * r + r
        <5>1. now - b.last \in Int /\ now' - b.last = (now - b.last) + 1
          BY <1>1, <4>1 DEF WindowTypeOK, Bucket
        <5>2. ((now - b.last) + 1) * r = (now - b.last) * r + 1 * r
          BY <5>1, <2>1, Distribute
        <5>. QED  BY <5>1, <5>2, <2>1
      <4>5. (now - b.last) * r \in Int /\ b.tokens \in Nat
        BY <4>1, <2>1 DEF WindowTypeOK, Bucket
      <4>. QED  BY <4>2, <4>3, <4>4, <4>5, <3>1, <2>1 DEF Least
    <3>. QED  BY <3>2, <3>3
  <2>3. (now' - since[k]) * r = (now - since[k]) * r + r
    <3>1. now - since[k] \in Int /\ now' - since[k] = (now - since[k]) + 1
      BY <1>1 DEF WindowTypeOK
    <3>2. ((now - since[k]) + 1) * r = (now - since[k]) * r + 1 * r
      BY <3>1, <2>1, Distribute
    <3>. QED  BY <3>1, <3>2, <2>1
  <2>4. /\ count[k] * Scale \in Int /\ (boots[k] + 1) * Capacity[p] \in Int
        /\ (now - since[k]) * r \in Int
    BY <2>1, BucketAssumption DEF WindowTypeOK
  <2>5. count[k] * Scale + Held(k) <= (boots[k] + 1) * Capacity[p] + (now - since[k]) * r
    BY DEF WindowPaid
  <2>. QED  BY <1>1, <2>1, <2>2, <2>3, <2>4, <2>5
<1>. QED  BY <1>2, <1>3 DEF WindowPaid

(* A restart hands out one more full burst, and the bound says so.         *)
LEMMA RestartPreserves ==
  ASSUME WindowIInv, RestartWindow
  PROVE  WindowIInv'
<1>. USE DEF WindowIInv
<1>1. /\ bucket' = [k \in Keys |-> NoBucket]
      /\ boots' = [k \in Keys |-> boots[k] + 1]
      /\ UNCHANGED <<now, plan, since, count, granted, denied>>
  BY DEF RestartWindow, Forget
<1>2. WindowTypeOK' /\ TimesOrdered' /\ EarningsKept' /\ DenialsAreJustified'
  BY <1>1 DEF WindowTypeOK, TimesOrdered, EarningsKept, DenialsAreJustified
<1>3. ASSUME NEW k \in Keys
      PROVE  count'[k] * Scale + Held(k)'
               <= (boots'[k] + 1) * Capacity[plan'[k]] + (now' - since'[k]) * Refill[plan'[k]]
  <2>. DEFINE c == Capacity[plan[k]]
  <2>1. c \in Nat /\ plan[k] \in Plans
    BY BucketAssumption DEF WindowTypeOK
  <2>2. Held(k) \in Nat
    BY <2>1, ToppedType DEF Held
  <2>3. Held(k)' \in Nat /\ Held(k)' <= c
    BY <1>1, <1>2, HeldNext
  <2>4. ((boots[k] + 1) + 1) * c = (boots[k] + 1) * c + 1 * c
    BY <2>1, Distribute DEF WindowTypeOK
  <2>5. /\ count[k] * Scale \in Int /\ (boots[k] + 1) * c \in Int
        /\ (now - since[k]) * Refill[plan[k]] \in Int
    BY <2>1, BucketAssumption DEF WindowTypeOK
  <2>6. count[k] * Scale + Held(k) <= (boots[k] + 1) * c + (now - since[k]) * Refill[plan[k]]
    BY DEF WindowPaid
  <2>7. boots'[k] = boots[k] + 1
    BY <1>1
  <2>. QED  BY <1>1, <2>1, <2>2, <2>3, <2>4, <2>5, <2>6, <2>7
<1>. QED  BY <1>2, <1>3 DEF WindowPaid

LEMMA OpenPreserves ==
  ASSUME WindowIInv, NEW k \in Keys, OpenWindow(k)
  PROVE  WindowIInv'
<1>. USE DEF WindowIInv
<1>1. /\ since' = [since EXCEPT ![k] = now]
      /\ count' = [count EXCEPT ![k] = 0]
      /\ boots' = [boots EXCEPT ![k] = 0]
      /\ UNCHANGED <<bucket, now, plan, granted, denied>>
  BY DEF OpenWindow
<1>2. WindowTypeOK' /\ TimesOrdered' /\ EarningsKept' /\ DenialsAreJustified'
  BY <1>1 DEF WindowTypeOK, TimesOrdered, EarningsKept, DenialsAreJustified
<1>3. \A j \in Keys : Held(j)' = Held(j)
  BY <1>1 DEF Held, Topped, Entry
<1>4. count'[k] * Scale + Held(k)
        <= (boots'[k] + 1) * Capacity[plan[k]] + (now - since'[k]) * Refill[plan[k]]
  <2>1. plan[k] \in Plans /\ Capacity[plan[k]] \in Nat /\ Refill[plan[k]] \in Nat
    BY BucketAssumption DEF WindowTypeOK
  <2>2. Held(k) \in Nat /\ Held(k) <= Capacity[plan[k]]
    BY <2>1, ToppedType DEF Held
  <2>3. count'[k] = 0 /\ boots'[k] = 0 /\ since'[k] = now
    BY <1>1 DEF WindowTypeOK
  <2>. QED  BY <2>1, <2>2, <2>3, BucketAssumption DEF WindowTypeOK
<1>5. WindowPaid'
  BY <1>1, <1>3, <1>4 DEF WindowPaid, WindowTypeOK
<1>. QED  BY <1>2, <1>5

LEMMA InitWindow == WindowInit => WindowIInv
<1>. SUFFICES ASSUME WindowInit PROVE WindowIInv
  OBVIOUS
<1>1. WindowTypeOK /\ TimesOrdered /\ EarningsKept /\ DenialsAreJustified
  BY DEF WindowInit, Zero, WindowTypeOK, TimesOrdered, EarningsKept, DenialsAreJustified
<1>2. ASSUME NEW k \in Keys
      PROVE  count[k] * Scale + Held(k)
               <= (boots[k] + 1) * Capacity[plan[k]] + (now - since[k]) * Refill[plan[k]]
  <2>1. plan[k] \in Plans /\ Capacity[plan[k]] \in Nat /\ Refill[plan[k]] \in Nat
    BY <1>1, BucketAssumption DEF WindowTypeOK
  <2>2. Held(k) \in Nat /\ Held(k) <= Capacity[plan[k]]
    BY <1>1, <2>1, ToppedType DEF Held
  <2>. QED  BY <2>1, <2>2, BucketAssumption DEF WindowInit, Zero
<1>. QED  BY <1>1, <1>2 DEF WindowIInv, WindowPaid

LEMMA NextWindow == WindowIInv /\ [WindowNext]_windowVars => WindowIInv'
<1>. SUFFICES ASSUME WindowIInv, [WindowNext]_windowVars PROVE WindowIInv'
  OBVIOUS
<1>1. ASSUME NEW k \in Keys, NEW p \in Plans, Grant(k, p) PROVE WindowIInv'
  BY <1>1, GrantPreserves
<1>2. ASSUME NEW k \in Keys, NEW p \in Plans, Deny(k, p) PROVE WindowIInv'
  BY <1>2, DenyPreserves
<1>3. ASSUME NEW k \in Keys, OpenWindow(k) PROVE WindowIInv'
  BY <1>3, OpenPreserves
<1>4. CASE PassWindow
  BY <1>4, PassPreserves
<1>5. CASE RestartWindow
  BY <1>5, RestartPreserves
<1>6. CASE UNCHANGED windowVars
  <2>1. UNCHANGED <<bucket, now, plan, since, count, boots, granted, denied>>
    BY <1>6 DEF windowVars, window
  <2>. QED
    BY <2>1 DEF WindowIInv, WindowTypeOK, TimesOrdered, WindowPaid, EarningsKept, DenialsAreJustified,
                Held, Topped, Entry
<1>. QED  BY <1>1, <1>2, <1>3, <1>4, <1>5, <1>6 DEF WindowNext

LEMMA WindowImplies == WindowIInv => WindowTypeOK /\ BurstBound /\ DenialsAreJustified
<1>. SUFFICES ASSUME WindowIInv, NEW k \in Keys
              PROVE  count[k] * Scale
                       <= (boots[k] + 1) * Capacity[plan[k]] + (now - since[k]) * Refill[plan[k]]
  BY DEF WindowIInv, BurstBound
<1>1. plan[k] \in Plans
  BY DEF WindowIInv, WindowTypeOK
<1>2. Held(k) \in Nat
  BY <1>1, ToppedType DEF Held, WindowIInv
<1>3. /\ count[k] * Scale \in Int
      /\ (boots[k] + 1) * Capacity[plan[k]] \in Int
      /\ (now - since[k]) * Refill[plan[k]] \in Int
  BY <1>1, BucketAssumption DEF WindowIInv, WindowTypeOK
<1>. QED  BY <1>2, <1>3 DEF WindowIInv, WindowPaid

-----------------------------------------------------------------------------
(* The state of the limiter is always well typed.                          *)
THEOREM WindowTypeCorrect == WindowSpec => []WindowTypeOK
BY InitWindow, NextWindow, WindowImplies, PTL DEF WindowSpec

(* RateLimiter::allow never lets a key of a plan exceed one burst plus the *)
(* refill in any interval, plus one burst per restart in it.               *)
THEOREM BurstBounded == WindowSpec => []BurstBound
BY InitWindow, NextWindow, WindowImplies, PTL DEF WindowSpec

(* RateLimiter::allow never denies a key that a whole token is due to,     *)
(* however often the key has been polling meanwhile.                       *)
THEOREM NoUnjustifiedDenial == WindowSpec => []DenialsAreJustified
BY InitWindow, NextWindow, WindowImplies, PTL DEF WindowSpec

-----------------------------------------------------------------------------
(* A request past verify is for a key with a row.                          *)
ServesIssuedKeys == pc \in InFlight => Issued(req.key)

(* Nothing is charged to a period that has not begun.                      *)
FutureUncharged ==
  \A k \in Keys, p \in Periods : p > Period => usage[k][p] = 0

(* Between the quota check and the charge, the room the check saw is still *)
(* there, in whatever period the charge will fall.                         *)
RoomToCharge == pc \in {"limit", "record"} => QuotaLeft(req.key)

(* A row carries a quota, and only a row can be revoked or answered for.   *)
RowsAreWhole ==
  \A k \in Keys :
    /\ IF Issued(k) THEN quota[k] > 0 ELSE quota[k] = 0
    /\ k \in revoked => Issued(k)
    /\ late[k] > 0 => Issued(k)

(* A key that has had its late answer is closed and out of the server.     *)
LateMeansClosed ==
  \A k \in Keys :
    late[k] > 0 => ~Usable(k) /\ ~(pc \in InFlight /\ req.key = k)

(* A customer without a key yet belongs to one process, which looked up    *)
(* what its plan grants, and to no key.                                    *)
MintingIsPrivate ==
  /\ minting[Server] # NoOwner => pc = "key"
  /\ \A p \in Procs : minting[p] # NoOwner =>
       /\ customer[minting[p]] \in Sold
       /\ granting[p] = PlanQuota[customer[minting[p]]]
       /\ \A q \in Procs : minting[q] = minting[p] => q = p

(* No bucket was stamped in the future.                                    *)
BucketsPast == \A k \in Keys : bucket[k] # NoBucket => bucket[k].last <= now

IInv ==
  /\ TypeOK /\ BucketsPast
  /\ ServesIssuedKeys /\ FutureUncharged /\ RoomToCharge /\ RowsAreWhole
  /\ LateMeansClosed /\ MintingIsPrivate
  /\ QuotaNeverOvercharged /\ ChargesAccounted /\ AtMostOneLateAnswer
  /\ KeysMatchTheirSale /\ OnlyIssuedKeysHaveBuckets

-----------------------------------------------------------------------------
(* Typing, first of the statements of the store, then of the processes.    *)

LEMMA PeriodType == TypeOK => Period \in Periods
BY StoreAssumption DEF TypeOK, Period

LEMMA InsertCustomerType ==
  ASSUME StoreTypeOK, NEW c \in Customers, NEW bought \in Sold, InsertCustomer(c, bought)
  PROVE  StoreTypeOK'
BY DEF StoreTypeOK, InsertCustomer

LEMMA InsertKeyType ==
  ASSUME StoreTypeOK, NEW k \in Keys, NEW c \in Customers, NEW q \in Nat,
         NEW e \in Expiries \cup {Never}, InsertKey(k, c, q, e)
  PROVE  StoreTypeOK'
BY StoreAssumption DEF StoreTypeOK, InsertKey

LEMMA RaiseAndCloseType ==
  ASSUME StoreTypeOK, NEW k \in Keys,
         \/ Activate(k) \/ Deactivate(k) \/ RevokeKey(k) \/ RaiseByHand(k)
         \/ \E e \in Expiries : ExpireByHand(k, e)
  PROVE  StoreTypeOK'
BY StoreAssumption
   DEF StoreTypeOK, Activate, Deactivate, RevokeKey, RaiseByHand, ExpireByHand

LEMMA CountUsageType ==
  ASSUME TypeOK, NEW k \in Keys, CountUsage(k)
  PROVE  StoreTypeOK'
<1>1. Period \in Periods
  BY PeriodType
<1>. QED  BY <1>1 DEF TypeOK, StoreTypeOK, CountUsage

LEMMA StampUseType ==
  ASSUME TypeOK, NEW k \in Keys, StampUse(k)
  PROVE  StoreTypeOK'
BY StoreAssumption DEF TypeOK, StoreTypeOK, StampUse

LEMMA SpendType ==
  ASSUME TypeOK, BucketsPast, NEW k \in Keys, NEW p \in Plans, Spend(k, p), UNCHANGED now
  PROVE  bucket' \in [Keys -> Bucket \cup {NoBucket}] /\ BucketsPast'
<1>1. now \in Nat
  BY BucketAssumption DEF TypeOK
<1>2. Entry(k, p) \in Bucket /\ Entry(k, p).last <= now
  BY <1>1, BucketAssumption DEF Entry, TypeOK, BucketsPast, Bucket
<1>3. (now - Entry(k, p).last) * Refill[p] \in Nat
  <2>1. now - Entry(k, p).last \in Nat /\ Refill[p] \in Nat
    BY <1>1, <1>2, BucketAssumption DEF Bucket
  <2>. QED  BY <2>1, ProductIsNat
<1>4. Topped(k, p) \in Nat
  BY <1>2, <1>3, BucketAssumption DEF Topped, Least, Bucket
<1>. DEFINE b == [tokens |-> IF Admits(k, p) THEN Topped(k, p) - Scale ELSE Topped(k, p),
                  last |-> now]
<1>5. b \in Bucket /\ b.last = now
  BY <1>1, <1>4, BucketAssumption DEF Admits, Bucket
<1>6. bucket' = [bucket EXCEPT ![k] = b]
  BY DEF Spend
<1>. HIDE DEF b
<1>7. bucket' \in [Keys -> Bucket \cup {NoBucket}]
  BY <1>5, <1>6 DEF TypeOK
<1>8. ASSUME NEW j \in Keys, bucket'[j] # NoBucket
      PROVE  bucket'[j].last <= now'
  <2>1. CASE j = k
    BY <2>1, <1>1, <1>5, <1>6 DEF TypeOK
  <2>2. CASE j # k
    BY <2>2, <1>6, <1>8 DEF TypeOK, BucketsPast
  <2>. QED  BY <2>1, <2>2
<1>. QED  BY <1>7, <1>8 DEF BucketsPast

LEMMA LimitsType == \A k \in Keys : LimitsFor(k) \in Plans
BY StoreAssumption DEF LimitsFor

(* The evaluation handler keeps its request exactly while it evaluates.    *)
LEMMA HandlerTypes ==
  ASSUME TypeOK, BucketsPast,
         \/ \E k \in Keys, genuine, point \in BOOLEAN : Receive(k, genuine, point)
         \/ ReadRow \/ ReadUsage \/ VerifyFails \/ Admit
  PROVE  TypeOK' /\ BucketsPast'
<1>. USE NoRequestAssumption
         DEF TypeOK, tables, control, ledger, Evaluating, InFlight, Billing, Idle, Refuse,
             Continue, StoreTypeOK
<1>1. ASSUME NEW k \in Keys, NEW genuine \in BOOLEAN, NEW point \in BOOLEAN,
             Receive(k, genuine, point)
      PROVE  TypeOK' /\ BucketsPast'
  <2>1. req' \in Request
    BY <1>1, PeriodType DEF Receive, Request
  <2>. QED  BY <1>1, <2>1 DEF Receive, BucketsPast
<1>2. CASE ReadRow
  BY <1>2 DEF ReadRow, BucketsPast
<1>3. CASE ReadUsage
  BY <1>3 DEF ReadUsage, BucketsPast
<1>4. CASE VerifyFails
  BY <1>4 DEF VerifyFails, BucketsPast
<1>5. CASE Admit
  <2>1. req.key \in Keys
    BY <1>5 DEF Admit, Request
  <2>2. bucket' \in [Keys -> Bucket \cup {NoBucket}] /\ BucketsPast'
    BY <1>5, <2>1, SpendType, LimitsType DEF Admit
  <2>. QED  BY <1>5, <2>2 DEF Admit
<1>. QED  BY <1>1, <1>2, <1>3, <1>4, <1>5

LEMMA BillingTypes ==
  ASSUME TypeOK, BucketsPast,
         Record \/ RecordFails \/ Stamp \/ StampFails \/ Reply \/ ReplyLost \/ Crash
  PROVE  TypeOK' /\ BucketsPast'
<1>. USE NoRequestAssumption
         DEF TypeOK, tables, control, ledger, Evaluating, InFlight, Billing, Idle, Refuse,
             Continue
<1>1. CASE Record
  <2>1. req.key \in Keys /\ req' \in Request
    BY <1>1, PeriodType DEF Record, Request
  <2>2. StoreTypeOK'
    BY <1>1, <2>1, CountUsageType DEF Record
  <2>. QED  BY <1>1, <2>1, <2>2 DEF Record, BucketsPast
<1>2. CASE RecordFails
  <2>1. req.key \in Keys /\ req' \in Request /\ Period \in Periods
    BY <1>2, PeriodType DEF RecordFails, Request
  <2>2. lost' \in [Keys -> [Periods -> Nat]]
    BY <1>2, <2>1 DEF RecordFails
  <2>. QED  BY <1>2, <2>1, <2>2 DEF RecordFails, BucketsPast, StoreTypeOK
<1>3. CASE Stamp
  <2>1. req.key \in Keys
    BY <1>3 DEF Stamp, Request
  <2>2. StoreTypeOK'
    BY <1>3, <2>1, StampUseType DEF Stamp
  <2>. QED  BY <1>3, <2>2 DEF Stamp, BucketsPast
<1>4. CASE StampFails
  BY <1>4 DEF StampFails, BucketsPast, StoreTypeOK
<1>5. CASE Reply
  BY <1>5 DEF Reply, BucketsPast, StoreTypeOK, Request
<1>6. CASE ReplyLost
  BY <1>6 DEF ReplyLost, Undelivered, BucketsPast, StoreTypeOK, Request
<1>7. CASE Crash
  BY <1>7 DEF Crash, Forget, Undelivered, BucketsPast, StoreTypeOK, Request, Procs
<1>. QED  BY <1>1, <1>2, <1>3, <1>4, <1>5, <1>6, <1>7

(* Between its two statements an issuer holds a customer on sale.          *)
LEMMA IssuingTypes ==
  ASSUME TypeOK, BucketsPast, MintingIsPrivate,
         \/ \E p \in Procs, c \in Customers, bought \in Sold : CreateCustomer(p, c, bought)
         \/ \E p \in Procs, k \in Keys : IssueKey(p, k)
         \/ \E p \in Procs : IssueFails(p)
  PROVE  TypeOK' /\ BucketsPast'
<1>. USE DEF TypeOK, ledger, Evaluating, InFlight, Billing, Idle
<1>1. ASSUME NEW p \in Procs, NEW c \in Customers, NEW bought \in Sold,
             CreateCustomer(p, c, bought)
      PROVE  TypeOK' /\ BucketsPast'
  <2>1. StoreTypeOK'
    BY <1>1, InsertCustomerType DEF CreateCustomer
  <2>2. minting' \in [Procs -> Customers \cup {NoOwner}] /\ granting' \in [Procs -> Nat]
    BY <1>1, StoreAssumption DEF CreateCustomer
  <2>. QED  BY <1>1, <2>1, <2>2 DEF CreateCustomer, MayIssue, BucketsPast
<1>2. ASSUME NEW p \in Procs, NEW k \in Keys,
             IssueKey(p, k)
      PROVE  TypeOK' /\ BucketsPast'
  <2>1. minting[p] \in Customers /\ customer[minting[p]] \in Sold
    BY <1>2 DEF IssueKey, MintingIsPrivate
  <2>2. granting[p] \in Nat
    BY <1>2
  <2>3. StoreTypeOK'
    BY <1>2, <2>1, <2>2, InsertKeyType DEF IssueKey
  <2>4. p = Server => pc = "key"
    BY <1>2 DEF IssueKey, MintingIsPrivate
  <2>. QED  BY <1>2, <2>3, <2>4 DEF IssueKey, DoneIssuing, BucketsPast
<1>3. ASSUME NEW p \in Procs, IssueFails(p)
      PROVE  TypeOK' /\ BucketsPast'
  <2>1. p = Server => pc = "key"
    BY <1>3 DEF IssueFails, MintingIsPrivate
  <2>. QED  BY <1>3, <2>1 DEF IssueFails, DoneIssuing, BucketsPast, tables, StoreTypeOK
<1>. QED  BY <1>1, <1>2, <1>3

(* What the control plane, by HTTP or from the CLI, does to one key.       *)
Control(k) ==
  \/ AdminActivate(k) \/ AdminClose(k)
  \/ CliActivate(k) \/ CliClose(k) \/ HandRaise(k)
  \/ \E e \in Expiries : HandExpire(k, e)

LEMMA ControlTypes ==
  ASSUME TypeOK, BucketsPast,
         (\E k \in Keys : Control(k)) \/ Restart \/ Pass
  PROVE  TypeOK' /\ BucketsPast'
<1>. USE DEF TypeOK, control, ledger, Evaluating, InFlight, Billing, Idle
<1>1. ASSUME NEW k \in Keys, Control(k)
      PROVE  TypeOK' /\ BucketsPast'
  <2>1. StoreTypeOK'
    <3>1. CASE \/ Activate(k) \/ Deactivate(k) \/ RevokeKey(k) \/ RaiseByHand(k)
               \/ \E e \in Expiries : ExpireByHand(k, e)
      BY <3>1, RaiseAndCloseType
    <3>. QED  BY <1>1, <3>1 DEF Control, AdminActivate, AdminClose, CliActivate,
                                     CliClose, HandRaise, HandExpire
  <2>2. UNCHANGED <<bucket, now, pc, req, issuing, served, undelivered, lost>>
    BY <1>1 DEF Control, AdminActivate, AdminClose, CliActivate,
                CliClose, HandRaise, HandExpire
  <2>3. late' \in [Keys -> Nat]
    BY <1>1 DEF Control, AdminActivate, AdminClose, CliActivate,
                CliClose, HandRaise, HandExpire, Renew
  <2>. QED  BY <2>1, <2>2, <2>3 DEF BucketsPast
<1>2. CASE Restart
  BY <1>2 DEF Restart, tables, StoreTypeOK, BucketsPast
<1>3. CASE Pass
  BY <1>3, BucketAssumption DEF Pass, Tick, tables, StoreTypeOK, BucketsPast, Bucket
<1>. QED  BY <1>1, <1>2, <1>3

LEMMA TypesKept ==
  ASSUME TypeOK, BucketsPast, MintingIsPrivate, Next
  PROVE  TypeOK' /\ BucketsPast'
BY HandlerTypes, BillingTypes, IssuingTypes, ControlTypes DEF Next, Handle, Control, Procs

-----------------------------------------------------------------------------
(* Which steps touch what. Every other step leaves it alone.               *)

MintsKey == \E p \in Procs, k \in Keys : IssueKey(p, k)
SellsKey == \E p \in Procs, c \in Customers, bought \in Sold : CreateCustomer(p, c, bought)
Controls == \E k \in Keys : Control(k)
Receives == \E k \in Keys, genuine, point \in BOOLEAN : Receive(k, genuine, point)
Evaluates ==
  \/ ReadRow \/ ReadUsage \/ VerifyFails \/ Admit
  \/ Record \/ RecordFails \/ Stamp \/ StampFails \/ Reply \/ ReplyLost

LEMMA StepKinds ==
  ASSUME Next
  PROVE  \/ Receives \/ Evaluates \/ MintsKey \/ SellsKey
         \/ (\E p \in Procs : IssueFails(p))
         \/ Controls \/ Crash \/ Restart \/ Pass
BY DEF Next, Handle, Receives, Evaluates, MintsKey, SellsKey, Controls, Control, Procs

LEMMA ControlFrame ==
  ASSUME Controls
  PROVE  UNCHANGED <<bucket, now, pc, req, issuing, served, undelivered, lost,
                     customer, owner, quota, usage>>
BY DEF Controls, Control, AdminActivate, AdminClose, CliActivate, CliClose,
       HandRaise, HandExpire, Activate, Deactivate, RevokeKey, RaiseByHand, ExpireByHand,
       control, ledger, tables

LEMMA ControlLate ==
  ASSUME NEW k \in Keys, Control(k), late \in [Keys -> Nat]
  PROVE  \A j \in Keys : late'[j] = late[j] \/ late'[j] = 0
<1>1. late' = late \/ late' = [late EXCEPT ![k] = 0]
  BY DEF Control, AdminActivate, AdminClose, CliActivate, CliClose,
     HandRaise, HandExpire, Renew, ledger
<1>. QED  BY <1>1

LEMMA SellFrame ==
  ASSUME SellsKey
  PROVE  UNCHANGED <<bucket, now, req, ledger, owner, active, revoked, quota, expires,
                     lastUsed, usage>>
BY DEF SellsKey, CreateCustomer, InsertCustomer

LEMMA IssueFailsFrame ==
  ASSUME NEW p \in Procs, IssueFails(p)
  PROVE  UNCHANGED <<bucket, now, req, ledger, tables>>
BY DEF IssueFails

LEMMA EvaluateFrame ==
  ASSUME Evaluates
  PROVE  /\ UNCHANGED <<now, issuing, customer, owner, active, revoked, quota, expires>>
         /\ Record \/ UNCHANGED usage
         /\ Reply \/ UNCHANGED late
         /\ pc \in Evaluating /\ pc' \in InFlight \cup {"idle"}
BY DEF Evaluates, ReadRow, ReadUsage, VerifyFails, Admit, Record, RecordFails, Stamp, StampFails,
       Reply, ReplyLost, CountUsage, StampUse, tables, ledger, Continue, Refuse, Evaluating,
       InFlight, Billing

LEMMA MintFrame ==
  ASSUME MintsKey
  PROVE  UNCHANGED <<bucket, now, req, ledger, customer, revoked, lastUsed, usage>>
BY DEF MintsKey, IssueKey, InsertKey

LEMMA ServerFrame ==
  ASSUME Receives \/ Crash \/ Restart
  PROVE  /\ UNCHANGED <<now, tables, served, lost, late>>
         /\ pc' \in {"row", "idle", "down"}
BY DEF Receives, Receive, Crash, Restart, ledger

-----------------------------------------------------------------------------
(* The conjuncts of the inductive invariant, one at a time.                *)

LEMMA ServesIssuedKeysKept ==
  ASSUME IInv, Next
  PROVE  ServesIssuedKeys'
<1>. USE DEF IInv, ServesIssuedKeys, InFlight, Billing, Issued
<1>1. CASE Receives \/ Crash \/ Restart
  BY <1>1, ServerFrame DEF Evaluating
<1>2. CASE Evaluates
  <2>1. UNCHANGED owner
    BY <1>2, EvaluateFrame
  <2>2. CASE ReadRow
    BY <2>1, <2>2 DEF ReadRow, Continue, Refuse, Usable
  <2>3. ASSUME ~ReadRow, pc' \in InFlight
        PROVE  pc \in InFlight /\ req'.key = req.key
    BY <1>2, <2>3 DEF Evaluates, ReadUsage, VerifyFails, Admit, Record, RecordFails, Stamp,
       StampFails, Reply, ReplyLost, Continue, Refuse, TypeOK, Evaluating, Request
  <2>. QED  BY <2>1, <2>2, <2>3
<1>3. CASE MintsKey
  BY <1>3, StoreAssumption DEF MintsKey, IssueKey, InsertKey, DoneIssuing, TypeOK, StoreTypeOK,
     Evaluating, Request, MintingIsPrivate
<1>4. CASE SellsKey
  BY <1>4, SellFrame DEF SellsKey, CreateCustomer
<1>5. CASE \E p \in Procs : IssueFails(p)
  BY <1>5, IssueFailsFrame DEF IssueFails, DoneIssuing, tables
<1>6. CASE Controls
  BY <1>6, ControlFrame
<1>7. CASE Pass
  BY <1>7 DEF Pass, control, tables
<1>. QED  BY StepKinds, <1>1, <1>2, <1>3, <1>4, <1>5, <1>6, <1>7

(* The clock only moves to a later or the same billing period.             *)
LEMMA PeriodAdvances ==
  ASSUME TypeOK, TypeOK', Pass
  PROVE  Period \in Nat /\ Period' \in Nat /\ Period <= Period'
<1>1. now \in 0..MaxTime /\ now' \in 0..MaxTime /\ now <= now'
  BY BucketAssumption DEF TypeOK, Pass, Tick
<1>. QED  BY <1>1, StoreAssumption DEF Period

LEMMA FutureUnchargedKept ==
  ASSUME IInv, TypeOK', Next
  PROVE  FutureUncharged'
<1>. USE DEF IInv, FutureUncharged
<1>1. CASE Pass
  <2>1. UNCHANGED usage
    BY <1>1 DEF Pass, tables
  <2>2. Period \in Nat /\ Period' \in Nat /\ Period <= Period'
    BY <1>1, PeriodAdvances
  <2>3. ASSUME NEW k \in Keys, NEW p \in Periods, p > Period'
        PROVE  usage'[k][p] = 0
    <3>1. p \in Nat /\ p > Period
      BY <2>2, <2>3, StoreAssumption
    <3>. QED  BY <2>1, <3>1
  <2>. QED  BY <2>3
<1>2. CASE Record
  <2>1. Period \in Periods /\ Period' = Period /\ req.key \in Keys
    BY <1>2, PeriodType DEF Record, Period, TypeOK, Evaluating, InFlight, Billing, Request
  <2>2. usage \in [Keys -> [Periods -> Nat]]
    BY DEF TypeOK, StoreTypeOK
  <2>3. usage' = [usage EXCEPT ![req.key][Period] = @ + 1]
    BY <1>2 DEF Record, CountUsage
  <2>4. ASSUME NEW k \in Keys, NEW p \in Periods, p > Period
        PROVE  usage'[k][p] = usage[k][p]
    <3>1. p # Period
      BY <2>1, <2>4, StoreAssumption
    <3>. QED  BY <2>1, <2>2, <2>3, <3>1
  <2>. QED  BY <2>1, <2>4
<1>3. CASE UNCHANGED <<usage, now>>
  BY <1>3 DEF Period
<1>. QED
  BY <1>1, <1>2, <1>3, StepKinds, ServerFrame, EvaluateFrame, MintFrame, SellFrame,
     IssueFailsFrame, ControlFrame DEF tables

LEMMA RowsAreWholeKept ==
  ASSUME IInv, TypeOK', Next
  PROVE  RowsAreWhole'
<1>. USE DEF IInv, RowsAreWhole, Issued
<1>1. CASE MintsKey
  <2>1. PICK p \in Procs, k \in Keys : IssueKey(p, k)
    BY <1>1 DEF MintsKey
  <2>2. minting[p] \in Customers /\ granting[p] \in Nat \ {0}
    <3>1. /\ minting[p] \in Customers /\ customer[minting[p]] \in Sold
          /\ granting[p] = PlanQuota[customer[minting[p]]]
      BY <2>1 DEF IssueKey, MintingIsPrivate, TypeOK
    <3>. QED  BY <3>1, StoreAssumption
  <2>. QED
    BY <2>1, <2>2, StoreAssumption DEF IssueKey, InsertKey, TypeOK, StoreTypeOK, ledger
<1>2. CASE Controls
  <2>1. UNCHANGED <<owner, quota>>
    BY <1>2, ControlFrame
  <2>2. \A k \in Keys : k \in revoked' => Issued(k)
    BY <1>2 DEF Controls, Control, AdminActivate, AdminClose, CliActivate,
       CliClose, HandRaise, HandExpire, Activate, Deactivate, RevokeKey, RaiseByHand,
       ExpireByHand, tables
  <2>3. \A k \in Keys : late'[k] = late[k] \/ late'[k] = 0
    BY <1>2, ControlLate DEF Controls, TypeOK
  <2>. QED  BY <2>1, <2>2, <2>3
<1>3. CASE Reply
  <2>1. Issued(req.key) /\ req.key \in Keys
    BY <1>3 DEF Reply, ServesIssuedKeys, InFlight, Billing, TypeOK, Evaluating, Request
  <2>. QED  BY <1>3, <2>1 DEF Reply, tables, TypeOK
<1>4. CASE UNCHANGED <<owner, quota, revoked, late>>
  BY <1>4
<1>. QED
  BY <1>1, <1>2, <1>3, <1>4, StepKinds, ServerFrame, EvaluateFrame, SellFrame,
     IssueFailsFrame DEF tables, ledger, Pass

(* The charge falls in the period of its own instant: if that is not the   *)
(* period the quota was checked in, the new one is still uncharged.        *)
LEMMA RoomToChargeKept ==
  ASSUME IInv, TypeOK', Next
  PROVE  RoomToCharge'
<1>. USE DEF IInv, RoomToCharge
<1>. SUFFICES ASSUME pc' \in {"limit", "record"}
              PROVE  QuotaLeft(req.key)'
  OBVIOUS
<1>1. CASE Evaluates
  <2>1. UNCHANGED <<now, quota>> /\ UNCHANGED usage
    BY <1>1, EvaluateFrame DEF Record
  <2>2. UNCHANGED req /\ QuotaLeft(req.key)
    BY <1>1 DEF Evaluates, ReadRow, ReadUsage, VerifyFails, Admit, Record, RecordFails, Stamp,
       StampFails, Reply, ReplyLost, Continue, Refuse
  <2>. QED  BY <2>1, <2>2 DEF QuotaLeft, Period
<1>2. CASE MintsKey
  <2>1. PICK p \in Procs, k \in Keys : IssueKey(p, k)
    BY <1>2 DEF MintsKey
  <2>2. pc' = pc /\ Issued(req.key) /\ ~Issued(k) /\ UNCHANGED <<req, now, usage>>
    BY <2>1 DEF IssueKey, DoneIssuing, InsertKey, ServesIssuedKeys, InFlight
  <2>3. quota'[req.key] = quota[req.key]
    BY <2>1, <2>2 DEF IssueKey, InsertKey, TypeOK, StoreTypeOK, Request, Evaluating, InFlight
  <2>. QED  BY <2>2, <2>3 DEF QuotaLeft, Period
<1>3. CASE Pass
  <2>1. UNCHANGED <<pc, req, usage, quota>>
    BY <1>3 DEF Pass, tables, control
  <2>2. Period \in Periods /\ Period' \in Periods
    BY StoreAssumption DEF TypeOK, Period
  <2>3. Period' = Period \/ Period' > Period
    BY <1>3, PeriodAdvances
  <2>4. req.key \in Keys /\ Issued(req.key)
    BY <2>1 DEF ServesIssuedKeys, TypeOK, Request, Evaluating, InFlight
  <2>5. CASE Period' = Period
    BY <2>1, <2>5 DEF QuotaLeft
  <2>6. CASE Period' > Period
    <3>1. usage[req.key][Period'] = 0 /\ quota[req.key] > 0
      BY <2>2, <2>4, <2>6 DEF FutureUncharged, RowsAreWhole
    <3>. QED  BY <2>1, <3>1 DEF QuotaLeft
  <2>. QED  BY <2>3, <2>5, <2>6
<1>4. CASE Controls
  BY <1>4, ControlFrame DEF QuotaLeft, Period
<1>5. CASE SellsKey
  <2>1. UNCHANGED <<req, now, usage, quota, pc>>
    BY <1>5, SellFrame DEF SellsKey, CreateCustomer
  <2>. QED  BY <2>1 DEF QuotaLeft, Period
<1>6. CASE \E p \in Procs : IssueFails(p)
  <2>1. UNCHANGED <<req, now, usage, quota, pc>>
    BY <1>6, IssueFailsFrame DEF IssueFails, DoneIssuing, tables
  <2>. QED  BY <2>1 DEF QuotaLeft, Period
<1>. QED
  BY StepKinds, ServerFrame, <1>1, <1>2, <1>3, <1>4, <1>5, <1>6

LEMMA QuotaNeverOverchargedKept ==
  ASSUME IInv, TypeOK', Next
  PROVE  QuotaNeverOvercharged'
<1>. USE DEF IInv, QuotaNeverOvercharged
<1>1. CASE Record
  <2>1. req.key \in Keys /\ Period \in Periods /\ usage[req.key][Period] < quota[req.key]
    BY <1>1, PeriodType DEF Record, TypeOK, Evaluating, InFlight, Billing, Request,
       RoomToCharge, QuotaLeft
  <2>2. usage' = [usage EXCEPT ![req.key][Period] = @ + 1] /\ UNCHANGED quota
    BY <1>1 DEF Record, CountUsage
  <2>3. usage \in [Keys -> [Periods -> Nat]] /\ quota \in [Keys -> Nat]
    BY DEF TypeOK, StoreTypeOK
  <2>4. ASSUME NEW k \in Keys, NEW p \in Periods
        PROVE  usage'[k][p] <= quota[k]
    <3>1. CASE k = req.key /\ p = Period
      BY <2>1, <2>2, <2>3, <3>1
    <3>2. CASE ~(k = req.key /\ p = Period)
      BY <2>1, <2>2, <2>3, <3>2
    <3>. QED  BY <3>1, <3>2
  <2>. QED  BY <2>2, <2>4
<1>2. CASE MintsKey
  <2>1. PICK p \in Procs, k \in Keys : IssueKey(p, k)
    BY <1>2 DEF MintsKey
  <2>2. UNCHANGED usage /\ quota' \in [Keys -> Nat] /\ quota[k] = 0
    BY <1>2, <2>1, MintFrame DEF TypeOK, StoreTypeOK, RowsAreWhole, IssueKey, InsertKey
  <2>3. \A j \in Keys : j # k => quota'[j] = quota[j]
    BY <2>1 DEF IssueKey, InsertKey, TypeOK, StoreTypeOK
  <2>4. usage \in [Keys -> [Periods -> Nat]] /\ quota \in [Keys -> Nat]
    BY DEF TypeOK, StoreTypeOK
  <2>5. \A j \in Keys : quota[j] \in Nat /\ quota'[j] \in Nat /\ quota[j] <= quota'[j]
    BY <2>2, <2>3, <2>4
  <2>. SUFFICES ASSUME NEW j \in Keys, NEW t \in Periods
                PROVE  usage[j][t] <= quota'[j]
    BY <2>2
  <2>6. usage[j][t] \in Nat /\ usage[j][t] <= quota[j]
    BY <2>4
  <2>. QED  BY <2>5, <2>6
<1>3. CASE UNCHANGED <<usage, quota>>
  BY <1>3
<1>. QED
  BY <1>1, <1>2, <1>3, StepKinds, ServerFrame, EvaluateFrame, SellFrame, IssueFailsFrame,
     ControlFrame DEF tables, Pass

(* Time, closing a key and raising another one open nothing.               *)
LEMMA LateMeansClosedKept ==
  ASSUME IInv, TypeOK', Next
  PROVE  LateMeansClosed'
<1>. USE DEF IInv
<1>. SUFFICES ASSUME NEW k \in Keys, late'[k] > 0
              PROVE  ~Usable(k)' /\ ~(pc' \in InFlight /\ req'.key = k)
  BY DEF LateMeansClosed
<1>1. late[k] > 0 => ~Usable(k) /\ ~(pc \in InFlight /\ req.key = k)
  BY DEF LateMeansClosed
<1>2. CASE Receives \/ Crash \/ Restart
  BY <1>1, <1>2, ServerFrame DEF tables, Usable, Issued, Expired, InFlight, Billing
<1>3. CASE Evaluates
  <2>1. Usable(k)' = Usable(k)
    BY <1>3, EvaluateFrame DEF Usable, Issued, Expired
  <2>2. CASE Reply
    BY <1>1, <2>1, <2>2 DEF Reply, Refuse, InFlight, Billing, TypeOK, Evaluating, Request
  <2>3. CASE ~Reply
    <3>1. UNCHANGED late
      BY <1>3, <2>3, EvaluateFrame
    <3>2. ASSUME pc' \in InFlight, req'.key = k, ~ReadRow
          PROVE  pc \in InFlight /\ req.key = k
      BY <1>3, <3>2 DEF Evaluates, ReadUsage, VerifyFails, Admit, Record, RecordFails, Stamp,
         StampFails, Reply, ReplyLost, Continue, Refuse, TypeOK, Request, Evaluating, InFlight,
         Billing
    <3>3. CASE ReadRow
      BY <1>1, <2>1, <3>1, <3>3 DEF ReadRow, Continue, Refuse, InFlight, Billing
    <3>. QED  BY <1>1, <2>1, <3>1, <3>2, <3>3
  <2>. QED  BY <2>2, <2>3
<1>4. CASE MintsKey
  <2>1. PICK p \in Procs, j \in Keys : IssueKey(p, j)
    BY <1>4 DEF MintsKey
  <2>2. late[k] > 0 /\ Issued(k) /\ k # j
    BY <1>4, <2>1, MintFrame DEF RowsAreWhole, IssueKey, InsertKey, ledger
  <2>3. ~Usable(k)'
    BY <1>1, <2>1, <2>2 DEF IssueKey, InsertKey, Usable, Issued, Expired, TypeOK, StoreTypeOK
  <2>4. UNCHANGED req /\ (pc' = pc \/ pc' = "idle")
    BY <2>1 DEF IssueKey, DoneIssuing
  <2>. QED  BY <1>1, <2>2, <2>3, <2>4 DEF InFlight, Billing
<1>5. CASE SellsKey
  BY <1>1, <1>5, SellFrame DEF SellsKey, CreateCustomer, Usable, Issued, Expired, ledger,
     InFlight, Billing
<1>6. CASE \E p \in Procs : IssueFails(p)
  BY <1>1, <1>6, IssueFailsFrame DEF IssueFails, DoneIssuing, Usable, Issued, Expired, tables,
     ledger, InFlight, Billing
<1>7. CASE Controls
  <2>1. PICK j \in Keys : Control(j)
    BY <1>7 DEF Controls
  <2>2. UNCHANGED <<pc, req, now, owner>>
    BY <1>7, <2>1, ControlFrame DEF Control, AdminActivate, AdminClose,
       CliActivate, CliClose, HandRaise, HandExpire, Activate, Deactivate, RevokeKey,
       RaiseByHand, ExpireByHand, tables
  <2>3. late[k] > 0
    <3>1. late \in [Keys -> Nat]
      BY DEF TypeOK
    <3>2. late'[k] = late[k] \/ late'[k] = 0
      BY <2>1, <3>1, ControlLate
    <3>. QED  BY <3>2
  <2>4. ~Usable(k)'
    <3>1. CASE k = j /\ Renew(j)
      BY <2>3, <3>1 DEF Renew, TypeOK
    <3>2. CASE k # j \/ ~Renew(j)
      <4>1. k \in active' => k \in active
        BY <2>1, <3>2 DEF Control, AdminActivate, AdminClose, CliActivate,
           CliClose, HandRaise, HandExpire, Activate, Deactivate, RevokeKey, RaiseByHand,
           ExpireByHand, tables
      <4>2. k \in revoked => k \in revoked'
        BY <2>1 DEF Control, AdminActivate, AdminClose, CliActivate,
           CliClose, HandRaise, HandExpire, Activate, Deactivate, RevokeKey, RaiseByHand,
           ExpireByHand, tables
      <4>3. expires'[k] = expires[k]
        <5>1. expires' = expires \/ (k # j /\ \E e \in Expiries : ExpireByHand(j, e))
          BY <2>1, <3>2 DEF Control, AdminActivate, AdminClose, CliActivate,
             CliClose, HandRaise, HandExpire, Activate, Deactivate, RevokeKey, RaiseByHand, tables
        <5>. QED  BY <5>1 DEF ExpireByHand, TypeOK, StoreTypeOK
      <4>. QED  BY <1>1, <2>2, <2>3, <4>1, <4>2, <4>3 DEF Usable, Issued, Expired
    <3>. QED  BY <3>1, <3>2
  <2>. QED  BY <1>1, <2>2, <2>3, <2>4
<1>8. CASE Pass
  <2>1. UNCHANGED <<tables, pc, req, late>>
    BY <1>8 DEF Pass, control, ledger
  <2>2. Expired(k) => Expired(k)'
    BY <1>8, <2>1, StoreAssumption, BucketAssumption DEF Expired, Pass, Tick, tables, TypeOK,
       StoreTypeOK
  <2>. QED  BY <1>1, <2>1, <2>2 DEF Usable, Issued, tables
<1>. QED  BY StepKinds, <1>2, <1>3, <1>4, <1>5, <1>6, <1>7, <1>8

LEMMA AtMostOneLateAnswerKept ==
  ASSUME IInv, TypeOK', Next
  PROVE  AtMostOneLateAnswer'
<1>. USE DEF IInv, AtMostOneLateAnswer
<1>1. CASE Reply
  <2>1. pc \in InFlight /\ req.key \in Keys
    BY <1>1 DEF Reply, InFlight, Billing, TypeOK, Evaluating, Request
  <2>2. late[req.key] = 0
    BY <2>1 DEF LateMeansClosed, TypeOK
  <2>. QED  BY <1>1, <2>1, <2>2 DEF Reply, TypeOK
<1>2. CASE Controls
  <2>1. \A k \in Keys : late'[k] = late[k] \/ late'[k] = 0
    BY <1>2, ControlLate DEF Controls, TypeOK
  <2>. QED  BY <2>1
<1>3. CASE UNCHANGED late
  BY <1>3
<1>. QED
  BY <1>1, <1>2, <1>3, StepKinds, ServerFrame, EvaluateFrame, MintFrame, SellFrame,
     IssueFailsFrame DEF ledger, Pass

(* The two sides of the account move together.                             *)
LEMMA ChargesAccountedKept ==
  ASSUME IInv, TypeOK', Next
  PROVE  ChargesAccounted'
<1>. USE DEF IInv
<1>. SUFFICES ASSUME NEW k \in Keys, NEW p \in Periods
              PROVE  usage'[k][p] + lost'[k][p]
                       = served'[k][p] + undelivered'[k][p] + BeingBilled(k, p)'
  BY DEF ChargesAccounted
<1>1. usage[k][p] + lost[k][p] = served[k][p] + undelivered[k][p] + BeingBilled(k, p)
  BY DEF ChargesAccounted
<1>2. /\ usage \in [Keys -> [Periods -> Nat]] /\ lost \in [Keys -> [Periods -> Nat]]
      /\ served \in [Keys -> [Periods -> Nat]] /\ undelivered \in [Keys -> [Periods -> Nat]]
  BY DEF TypeOK, StoreTypeOK
<1>3. pc \in Evaluating =>
        req.key \in Keys /\ req.period \in Periods /\ Period \in Periods
  BY PeriodType DEF TypeOK, Request
<1>4. CASE Record
  <2>1. /\ usage' = [usage EXCEPT ![req.key][Period] = @ + 1]
        /\ UNCHANGED <<lost, served, undelivered>> /\ pc = "record" /\ pc' = "stamp"
    BY <1>4 DEF Record, CountUsage, ledger
  <2>2. req'.key = req.key /\ req'.period = Period
    BY <1>4, <2>1 DEF Record, TypeOK, Request, Evaluating, InFlight
  <2>3. BeingBilled(k, p) = 0 /\ BeingBilled(k, p)' = IF req.key = k /\ Period = p THEN 1 ELSE 0
    BY <2>1, <2>2 DEF BeingBilled, Billing
  <2>4. usage'[k][p] = usage[k][p] + (IF req.key = k /\ Period = p THEN 1 ELSE 0)
    BY <1>2, <2>1 DEF Evaluating, InFlight
  <2>. QED  BY <1>1, <1>2, <2>1, <2>3, <2>4
<1>5. CASE RecordFails
  <2>1. /\ lost' = [lost EXCEPT ![req.key][Period] = @ + 1]
        /\ UNCHANGED <<usage, served, undelivered>> /\ pc = "record" /\ pc' = "reply"
    BY <1>5 DEF RecordFails, tables
  <2>2. req'.key = req.key /\ req'.period = Period
    BY <1>5, <2>1 DEF RecordFails, TypeOK, Request, Evaluating, InFlight
  <2>3. BeingBilled(k, p) = 0 /\ BeingBilled(k, p)' = IF req.key = k /\ Period = p THEN 1 ELSE 0
    BY <2>1, <2>2 DEF BeingBilled, Billing
  <2>4. lost'[k][p] = lost[k][p] + (IF req.key = k /\ Period = p THEN 1 ELSE 0)
    BY <1>2, <2>1
  <2>. QED  BY <1>1, <1>2, <2>1, <2>3, <2>4
<1>6. CASE Stamp \/ StampFails
  BY <1>1, <1>6 DEF Stamp, StampFails, StampUse, tables, ledger, Continue, BeingBilled, Billing
<1>. DEFINE one == IF req.key = k /\ req.period = p THEN 1 ELSE 0
<1>7. CASE Reply
  <2>1. /\ served' = [served EXCEPT ![req.key][req.period] = @ + 1]
        /\ UNCHANGED <<usage, lost, undelivered>> /\ pc = "reply" /\ pc' = "idle"
    BY <1>7 DEF Reply, Refuse, tables
  <2>2. BeingBilled(k, p) = one /\ BeingBilled(k, p)' = 0
    BY <2>1 DEF BeingBilled, Billing
  <2>3. served'[k][p] = served[k][p] + one
    BY <1>2, <2>1
  <2>. QED  BY <1>1, <1>2, <2>1, <2>2, <2>3
<1>8. CASE ReplyLost \/ (Crash /\ pc \in Billing)
  <2>1. /\ undelivered' = [undelivered EXCEPT ![req.key][req.period] = @ + 1]
        /\ UNCHANGED <<usage, lost, served>> /\ pc \in Billing /\ pc' \in Idle
    BY <1>8 DEF ReplyLost, Crash, Refuse, Undelivered, tables, Billing, Idle
  <2>2. BeingBilled(k, p) = one /\ BeingBilled(k, p)' = 0
    BY <2>1 DEF BeingBilled, Billing, Idle
  <2>3. undelivered'[k][p] = undelivered[k][p] + one
    BY <1>2, <2>1
  <2>. QED  BY <1>1, <1>2, <2>1, <2>2, <2>3
<1>9. ASSUME UNCHANGED <<usage, lost, served, undelivered>>,
             (pc \in Billing \/ pc' \in Billing) => UNCHANGED <<pc, req>>
      PROVE  usage'[k][p] + lost'[k][p]
               = served'[k][p] + undelivered'[k][p] + BeingBilled(k, p)'
  BY <1>1, <1>9 DEF BeingBilled
<1>10. CASE ReadRow \/ ReadUsage \/ VerifyFails \/ Admit
  BY <1>9, <1>10 DEF ReadRow, ReadUsage, VerifyFails, Admit, Continue, Refuse, tables, ledger,
     Billing
<1>11. CASE Receives \/ Restart \/ (Crash /\ pc \notin Billing)
  BY <1>9, <1>11 DEF Receives, Receive, Restart, Crash, tables, ledger, Billing
<1>12. CASE MintsKey \/ SellsKey \/ (\E q \in Procs : IssueFails(q))
  BY <1>9, <1>12, MintFrame, SellFrame, IssueFailsFrame
     DEF MintsKey, SellsKey, IssueKey, CreateCustomer, IssueFails, DoneIssuing, MayIssue,
         MintingIsPrivate, ledger, tables, Billing
<1>13. CASE Controls \/ Pass
  BY <1>9, <1>13, ControlFrame DEF Pass, tables, ledger, control
<1>. QED
  BY StepKinds, <1>4, <1>5, <1>6, <1>7, <1>8, <1>10, <1>11, <1>12, <1>13 DEF Evaluates

(* A new customer is nobody's: it had no row, so no process was minting it *)
(* and no key belonged to it.                                              *)
LEMMA MintingIsPrivateKept ==
  ASSUME IInv, TypeOK', Next
  PROVE  MintingIsPrivate'
<1>. USE DEF IInv, MintingIsPrivate
<1>1. /\ minting \in [Procs -> Customers \cup {NoOwner}] /\ granting \in [Procs -> Nat]
      /\ Server \in Procs
  BY DEF TypeOK, Procs
<1>2. CASE Receives \/ Evaluates \/ Restart \/ Pass \/ Controls
  <2>1. UNCHANGED <<issuing, customer>>
    BY <1>2, EvaluateFrame, ServerFrame, ControlFrame
       DEF Receives, Receive, Restart, Pass, tables, control
  <2>2. pc = "key" => pc' = "key"
    BY <1>2, EvaluateFrame, ControlFrame
       DEF Receives, Receive, Restart, Pass, control, Evaluating, InFlight, Billing
  <2>. QED  BY <2>1, <2>2
<1>3. CASE SellsKey
  <2>1. PICK p \in Procs, c \in Customers, bought \in Sold : CreateCustomer(p, c, bought)
    BY <1>3 DEF SellsKey
  <2>2. /\ customer[c] = NoPlan /\ minting[p] = NoOwner
        /\ customer' = [customer EXCEPT ![c] = bought]
        /\ minting' = [minting EXCEPT ![p] = c]
        /\ granting' = [granting EXCEPT ![p] = PlanQuota[bought]]
        /\ pc' = IF p = Server THEN "key" ELSE pc
    BY <2>1 DEF CreateCustomer, InsertCustomer
  <2>3. customer \in [Customers -> Sold \cup {NoPlan}]
    BY DEF TypeOK, StoreTypeOK
  <2>4. \A q \in Procs : minting[q] # c
    BY <2>2, StoreAssumption
  <2>. QED  BY <1>1, <2>2, <2>3, <2>4
<1>4. CASE MintsKey \/ (\E p \in Procs : IssueFails(p))
  <2>1. PICK p \in Procs : DoneIssuing(p)
    BY <1>4 DEF MintsKey, IssueKey, IssueFails
  <2>2. UNCHANGED customer
    BY <1>4, MintFrame, IssueFailsFrame DEF tables
  <2>. QED  BY <1>1, <2>1, <2>2 DEF DoneIssuing
<1>5. CASE Crash
  BY <1>1, <1>5 DEF Crash, tables
<1>. QED  BY StepKinds, <1>2, <1>3, <1>4, <1>5

LEMMA KeysMatchTheirSaleKept ==
  ASSUME IInv, TypeOK', Next
  PROVE  KeysMatchTheirSale'
<1>. USE DEF IInv, KeysMatchTheirSale, Issued
<1>1. /\ minting \in [Procs -> Customers \cup {NoOwner}] /\ Server \in Procs
      /\ owner \in [Keys -> Customers \cup {NoOwner}] /\ quota \in [Keys -> Nat]
      /\ customer \in [Customers -> Sold \cup {NoPlan}]
  BY DEF TypeOK, StoreTypeOK, Procs
<1>2. CASE Receives \/ Evaluates \/ Restart \/ Pass \/ Controls
  BY <1>2, EvaluateFrame, ServerFrame, ControlFrame
     DEF Receives, Receive, Restart, Pass, tables, control
<1>3. CASE SellsKey
  <2>1. PICK p \in Procs, c \in Customers, bought \in Sold : CreateCustomer(p, c, bought)
    BY <1>3 DEF SellsKey
  <2>2. /\ customer[c] = NoPlan /\ UNCHANGED <<owner, quota>>
        /\ customer' = [customer EXCEPT ![c] = bought]
        /\ minting' = [minting EXCEPT ![p] = c]
    BY <2>1 DEF CreateCustomer, InsertCustomer
  <2>3. \A k \in Keys : owner[k] # c
    BY <2>2, StoreAssumption
  <2>. QED  BY <1>1, <2>2, <2>3
<1>4. CASE MintsKey
  <2>1. PICK p \in Procs, k \in Keys : IssueKey(p, k)
    BY <1>4 DEF MintsKey
  <2>. DEFINE c == minting[p]
  <2>2. /\ c \in Customers /\ customer[c] \in Sold /\ UNCHANGED customer
        /\ owner' = [owner EXCEPT ![k] = c]
        /\ quota' = [quota EXCEPT ![k] = PlanQuota[customer[c]]]
        /\ minting' = [minting EXCEPT ![p] = NoOwner]
    <3>1. c # NoOwner /\ customer[c] \in Sold /\ granting[p] = PlanQuota[customer[c]]
      BY <2>1 DEF IssueKey, MintingIsPrivate
    <3>. QED  BY <1>1, <2>1, <3>1 DEF IssueKey, InsertKey, DoneIssuing
  <2>3. \A q \in Procs : q # p => minting[q] # c
    BY <2>2, StoreAssumption DEF MintingIsPrivate
  <2>4. \A j \in Keys : owner[j] # c
    BY <2>2, StoreAssumption
  <2>5. ASSUME NEW j \in Keys, owner'[j] # NoOwner
        PROVE  /\ customer'[owner'[j]] \in Sold /\ quota'[j] = PlanQuota[customer'[owner'[j]]]
               /\ \A i \in Keys : owner'[i] = owner'[j] => i = j
               /\ \A q \in Procs : minting'[q] # owner'[j]
    <3>1. CASE j = k
      BY <1>1, <2>2, <2>3, <2>4, <3>1, StoreAssumption
    <3>2. CASE j # k
      BY <1>1, <2>2, <2>4, <2>5, <3>2, StoreAssumption
    <3>. QED  BY <3>1, <3>2
  <2>. QED  BY <2>5
<1>5. CASE \E p \in Procs : IssueFails(p)
  BY <1>1, <1>5 DEF IssueFails, DoneIssuing, tables
<1>6. CASE Crash
  BY <1>1, <1>6 DEF Crash, tables
<1>. QED  BY StepKinds, <1>2, <1>3, <1>4, <1>5, <1>6

LEMMA OnlyIssuedKeysHaveBucketsKept ==
  ASSUME IInv, TypeOK', Next
  PROVE  OnlyIssuedKeysHaveBuckets'
<1>. USE DEF IInv, OnlyIssuedKeysHaveBuckets
<1>1. CASE Admit
  <2>1. Issued(req.key) /\ UNCHANGED owner
    BY <1>1 DEF Admit, ServesIssuedKeys, InFlight, tables
  <2>2. \A k \in Keys : k # req.key => bucket'[k] = bucket[k]
    BY <1>1 DEF Admit, Spend, TypeOK
  <2>. QED  BY <2>1, <2>2 DEF Issued
<1>2. CASE MintsKey
  <2>1. \A k \in Keys : Issued(k) => Issued(k)'
    BY <1>2 DEF MintsKey, IssueKey, InsertKey, Issued, TypeOK, StoreTypeOK
  <2>. QED  BY <1>2, <2>1, MintFrame
<1>3. CASE Crash
  BY <1>3 DEF Crash, Forget
<1>4. CASE Evaluates /\ ~Admit
  <2>1. UNCHANGED bucket
    BY <1>4 DEF Evaluates, ReadRow, ReadUsage, VerifyFails, Record, RecordFails, Stamp,
       StampFails, Reply, ReplyLost
  <2>. QED  BY <1>4, <2>1, EvaluateFrame DEF Issued
<1>5. CASE UNCHANGED <<bucket, owner>>
  BY <1>5 DEF Issued
<1>. QED
  BY <1>1, <1>2, <1>3, <1>4, <1>5, StepKinds, SellFrame, IssueFailsFrame, ControlFrame
     DEF tables, Receives, Receive, Restart, Pass, Tick

-----------------------------------------------------------------------------
LEMMA InitIInv == Init => IInv
<1>. SUFFICES ASSUME Init PROVE IInv
  OBVIOUS
<1>. USE DEF Init, StoreInit, NoneCounted, Issued
<1>1. TypeOK
  BY BucketAssumption, NoRequestAssumption, StoreAssumption
     DEF TypeOK, StoreTypeOK, Evaluating, InFlight, Billing, Idle
<1>2. BucketsPast /\ OnlyIssuedKeysHaveBuckets
  BY DEF BucketsPast, OnlyIssuedKeysHaveBuckets
<1>3. ServesIssuedKeys /\ FutureUncharged /\ RoomToCharge
  BY DEF ServesIssuedKeys, FutureUncharged, RoomToCharge, InFlight, Billing
<1>4. RowsAreWhole /\ LateMeansClosed /\ AtMostOneLateAnswer
  BY DEF RowsAreWhole, LateMeansClosed, AtMostOneLateAnswer
<1>5. MintingIsPrivate /\ KeysMatchTheirSale
  BY DEF MintingIsPrivate, KeysMatchTheirSale, Procs
<1>6. QuotaNeverOvercharged /\ ChargesAccounted
  BY DEF QuotaNeverOvercharged, ChargesAccounted, BeingBilled, Billing
<1>. QED  BY <1>1, <1>2, <1>3, <1>4, <1>5, <1>6 DEF IInv

LEMMA NextIInv == IInv /\ [Next]_vars => IInv'
<1>. SUFFICES ASSUME IInv, [Next]_vars PROVE IInv'
  OBVIOUS
<1>1. CASE Next
  <2>1. TypeOK' /\ BucketsPast'
    BY <1>1, TypesKept DEF IInv
  <2>. QED
    BY <1>1, <2>1, ServesIssuedKeysKept, FutureUnchargedKept, RoomToChargeKept,
       RowsAreWholeKept, LateMeansClosedKept, MintingIsPrivateKept, QuotaNeverOverchargedKept,
       ChargesAccountedKept, AtMostOneLateAnswerKept, KeysMatchTheirSaleKept,
       OnlyIssuedKeysHaveBucketsKept DEF IInv
<1>2. CASE UNCHANGED vars
  BY <1>2 DEF vars, tables, control, ledger, IInv, TypeOK, StoreTypeOK, BucketsPast,
     ServesIssuedKeys, FutureUncharged, RoomToCharge, QuotaLeft, Period, RowsAreWhole,
     LateMeansClosed, Usable, Issued, Expired, MintingIsPrivate, QuotaNeverOvercharged,
     ChargesAccounted, BeingBilled, AtMostOneLateAnswer, KeysMatchTheirSale,
     OnlyIssuedKeysHaveBuckets
<1>. QED  BY <1>1, <1>2

LEMMA Invariance == Spec => []IInv
BY InitIInv, NextIInv, PTL DEF Spec

(* Every variable keeps its type.                                          *)
THEOREM TypeCorrect == Spec => []TypeOK
<1>1. IInv => TypeOK
  BY DEF IInv
<1>. QED  BY <1>1, Invariance, PTL

(* No key is charged beyond its quota in any billing period, although the  *)
(* check, the charge and the turn of the period are separate steps.        *)
THEOREM NeverOvercharged == Spec => []QuotaNeverOvercharged
<1>1. IInv => QuotaNeverOvercharged
  BY DEF IInv
<1>. QED  BY <1>1, Invariance, PTL

(* Charges and answers balance, key by key and period by period.           *)
THEOREM AccountsBalance == Spec => []ChargesAccounted
<1>1. IInv => ChargesAccounted
  BY DEF IInv
<1>. QED  BY <1>1, Invariance, PTL

(* A key that stops being usable has at most one answer still to come.     *)
THEOREM OneLateAnswer == Spec => []AtMostOneLateAnswer
<1>1. IInv => AtMostOneLateAnswer
  BY DEF IInv
<1>. QED  BY <1>1, Invariance, PTL

(* What a key grants is what its own customer bought.                      *)
THEOREM SalesMatch == Spec => []KeysMatchTheirSale
<1>1. IInv => KeysMatchTheirSale
  BY DEF IInv
<1>. QED  BY <1>1, Invariance, PTL

(* The limiter remembers only keys that were issued.                       *)
THEOREM BucketsOfIssuedKeys == Spec => []OnlyIssuedKeysHaveBuckets
<1>1. IInv => OnlyIssuedKeysHaveBuckets
  BY DEF IInv
<1>. QED  BY <1>1, Invariance, PTL

-----------------------------------------------------------------------------
(* The tables implement the abstract ledger of keys.                       *)

Quotas == {PlanQuota[p] : p \in Sold}
StatusOf(k) ==
  IF k \in revoked THEN "revoked" ELSE IF Issued(k) THEN "issued" ELSE "absent"

LEMMA LedgerInit == Init => Ledger!Init
BY DEF Init, StoreInit, Ledger!Init, Issued

LEMMA LedgerIssue ==
  ASSUME IInv, MintsKey
  PROVE  Ledger!Next
<1>1. PICK p \in Procs, k \in Keys : IssueKey(p, k)
  BY DEF MintsKey
<1>. DEFINE q == granting[p]
<1>2. minting[p] \in Customers /\ q \in Quotas
  BY <1>1 DEF IssueKey, Quotas, IInv, MintingIsPrivate, TypeOK
<1>3. /\ owner' = [owner EXCEPT ![k] = minting[p]] /\ quota' = [quota EXCEPT ![k] = q]
      /\ UNCHANGED <<revoked, usage>> /\ ~Issued(k)
  BY <1>1 DEF IssueKey, InsertKey
<1>4. k \notin revoked
  BY <1>3 DEF IInv, RowsAreWhole
<1>5. owner \in [Keys -> Customers \cup {NoOwner}]
  BY DEF IInv, TypeOK, StoreTypeOK
<1>6. [j \in Keys |-> StatusOf(j)]' = [[j \in Keys |-> StatusOf(j)] EXCEPT ![k] = "issued"]
  BY <1>2, <1>3, <1>4, <1>5, StoreAssumption DEF StatusOf, Issued
<1>. QED  BY <1>2, <1>3, <1>4, <1>6 DEF Ledger!Next, Ledger!Issue, StatusOf, Quotas

LEMMA LedgerCharge ==
  ASSUME IInv, Record
  PROVE  Ledger!Next
<1>1. req.key \in Keys /\ Period \in Periods
  BY PeriodType DEF Record, IInv, TypeOK, Evaluating, InFlight, Billing, Request
<1>2. Issued(req.key) /\ QuotaLeft(req.key)
  BY DEF Record, IInv, ServesIssuedKeys, RoomToCharge, InFlight
<1>3. /\ usage' = [usage EXCEPT ![req.key][Period] = @ + 1]
      /\ UNCHANGED <<owner, revoked, quota>>
  BY DEF Record, CountUsage
<1>4. [j \in Keys |-> StatusOf(j)]' = [j \in Keys |-> StatusOf(j)]
  BY <1>3 DEF StatusOf, Issued
<1>5. Ledger!Charge(req.key, Period)
  BY <1>1, <1>2, <1>3, <1>4 DEF Ledger!Charge, StatusOf, QuotaLeft
<1>. QED  BY <1>1, <1>5 DEF Ledger!Next

LEMMA LedgerControl ==
  ASSUME IInv, Controls
  PROVE  [Ledger!Next]_<<[j \in Keys |-> StatusOf(j)], quota, usage>>
<1>1. UNCHANGED <<owner, quota, usage>>
  BY ControlFrame
<1>2. PICK k \in Keys : Control(k)
  BY DEF Controls
<1>3. revoked' = revoked \/ (Issued(k) /\ revoked' = revoked \cup {k})
  BY <1>2 DEF Control, AdminActivate, AdminClose, CliActivate, CliClose,
     HandRaise, HandExpire, Activate, Deactivate, RevokeKey, RaiseByHand, ExpireByHand, tables
<1>4. CASE revoked' = revoked
  BY <1>1, <1>4 DEF StatusOf, Issued
<1>5. CASE Issued(k) /\ k \notin revoked /\ revoked' = revoked \cup {k}
  <2>1. [j \in Keys |-> StatusOf(j)]' = [[j \in Keys |-> StatusOf(j)] EXCEPT ![k] = "revoked"]
    BY <1>1, <1>5 DEF StatusOf, Issued
  <2>. QED  BY <1>1, <1>5, <2>1 DEF Ledger!Next, Ledger!Revoke, StatusOf
<1>. QED  BY <1>3, <1>4, <1>5

LEMMA LedgerStep ==
  ASSUME IInv, [Next]_vars
  PROVE  [Ledger!Next]_Ledger!vars
<1>1. CASE MintsKey
  BY <1>1, LedgerIssue
<1>2. CASE Record
  BY <1>2, LedgerCharge
<1>3. CASE Controls
  BY <1>3, LedgerControl DEF Ledger!vars, StatusOf
<1>4. CASE UNCHANGED <<owner, revoked, quota, usage>>
  BY <1>4 DEF Ledger!vars, Issued
<1>5. CASE UNCHANGED vars
  BY <1>4, <1>5 DEF vars, tables
<1>. QED
  BY <1>1, <1>2, <1>3, <1>4, <1>5, StepKinds, ServerFrame, EvaluateFrame, SellFrame,
     IssueFailsFrame DEF tables, Pass

(* Whatever the processes do and whatever fails, a key is issued once,     *)
(* charged within its quota, and revoked for good.                         *)
THEOREM ImplementsLedger == Spec => LedgerSpec
BY LedgerInit, LedgerStep, Invariance, PTL DEF Spec, LedgerSpec, Ledger!Spec

-----------------------------------------------------------------------------
(* The billing period of a moment. What the calendar's assumption says of  *)
(* one cycle of four hundred years is carried over to all of them.         *)

(* A set of numbers that has 0, and with each number the next, has all.    *)
LEMMA LeastOfNaturals ==
  ASSUME NEW T \in SUBSET Nat, T # {}
  PROVE  \E m \in T : \A k \in T : m <= k
<1>. DEFINE R == {p \in Nat \X Nat : p[1] < p[2]}
<1>1. IsWellFoundedOn(R, Nat)
  BY NatLessThanWellFounded DEF OpToRel
<1>2. \E m \in T : \A k \in T : ~ (<<k, m>> \in R)
  <2>. HIDE DEF R
  <2>. QED  BY <1>1, WFMin
<1>3. PICK m \in T : \A k \in T : ~ (<<k, m>> \in R)
  BY <1>2
<1>4. ASSUME NEW k \in T PROVE m <= k
  <2>1. <<k, m>> \in Nat \X Nat /\ <<k, m>>[1] = k /\ <<k, m>>[2] = m
    OBVIOUS
  <2>2. ~ (k < m)
    BY <1>3, <2>1
  <2>. QED  BY <2>2
<1>. QED  BY <1>4

LEMMA Induction ==
  ASSUME NEW T \in SUBSET Nat, 0 \in T, \A n \in T : n + 1 \in T
  PROVE  T = Nat
<1>. DEFINE C == Nat \ T
<1>. SUFFICES ASSUME C # {} PROVE FALSE
  OBVIOUS
<1>1. PICK m \in C : \A k \in C : m <= k
  BY LeastOfNaturals
<1>2. m # 0 /\ m - 1 \in Nat /\ m - 1 \notin C
  BY <1>1
<1>. QED  BY <1>1, <1>2

(* The month of a day, as period_of numbers it.                            *)
Month(z) == 100 * civil_from_days(z).year + civil_from_days(z).month

LEMMA EraOfDays == Era \in Nat /\ Era = 146097 /\ Era > 0
BY DEF Era

LEMMA DatesOfEra ==
  ASSUME NEW doe \in Nat
  PROVE  \E year, month, day \in Int : civil_of_era(doe) = Date(year, month, day)
<1>. DEFINE yoe == (doe - doe \div 1460 + doe \div 36524 - doe \div 146096) \div 365
            doy == doe - (365 * yoe + yoe \div 4 - yoe \div 100)
            mp == (5 * doy + 2) \div 153
            month == IF mp < 10 THEN mp + 3 ELSE mp - 9
            year == yoe + (IF month <= 2 THEN 1 ELSE 0)
            day == doy - (153 * mp + 2) \div 5 + 1
<1>1. civil_of_era(doe) = Date(year, month, day)
  BY DEF civil_of_era
<1>2. yoe \in Int
  OBVIOUS
<1>. HIDE DEF yoe
<1>3. doy \in Int
  BY <1>2
<1>. HIDE DEF doy
<1>4. mp \in Int
  BY <1>3
<1>. HIDE DEF mp
<1>5. month \in Int /\ day \in Int
  BY <1>3, <1>4
<1>. HIDE DEF month, day
<1>6. year \in Int
  BY <1>2, <1>5
<1>. HIDE DEF year
<1>. QED  BY <1>1, <1>5, <1>6

(* Four centuries later it is the same day of the same month.              *)
LEMMA FourCenturiesOn ==
  ASSUME NEW z \in Nat, NEW q \in Nat
  PROVE  \E year, month, day \in Int :
           /\ civil_from_days(z) = Date(year, month, day)
           /\ civil_from_days(z + Era * q) = Date(year + 400 * q, month, day)
<1>. DEFINE a == z + 719468
            b == (z + Era * q) + 719468
            doe == a % Era
            era == a \div Era
<1>1. doe \in Nat /\ era \in Nat /\ b % Era = doe /\ b \div Era = era + q
  BY SMT, EraOfDays
<1>2. /\ civil_from_days(z) =
           [civil_of_era(doe) EXCEPT !.year = civil_of_era(doe).year + 400 * era]
      /\ civil_from_days(z + Era * q) =
           [civil_of_era(doe) EXCEPT !.year = civil_of_era(doe).year + 400 * (era + q)]
  BY <1>1 DEF civil_from_days
<1>. HIDE DEF a, b, doe, era
<1>3. PICK year \in Int, month \in Int, day \in Int :
        civil_of_era(doe) = Date(year, month, day)
  BY <1>1, DatesOfEra
<1>4. /\ civil_from_days(z) = Date(year + 400 * era, month, day)
      /\ civil_from_days(z + Era * q) = Date(year + 400 * (era + q), month, day)
  BY <1>2, <1>3 DEF Date
<1>5. year + 400 * era \in Int /\ year + 400 * (era + q) = (year + 400 * era) + 400 * q
  BY <1>1
<1>. QED  BY <1>3, <1>4, <1>5

LEMMA DatesOfDays ==
  ASSUME NEW z \in Nat
  PROVE  /\ civil_from_days(z).year \in Int
         /\ civil_from_days(z).month \in Int
<1>1. PICK year \in Int, month \in Int, day \in Int :
        civil_from_days(z) = Date(year, month, day)
  BY 0 \in Nat, FourCenturiesOn
<1>. QED  BY <1>1 DEF Date

(* In the first four centuries each month is one of twelve, and the next   *)
(* day is not of an earlier one.                                           *)
LEMMA MonthsFollow ==
  ASSUME NEW z \in Nat, z <= Era
  PROVE  civil_from_days(z).month \in 1..12 /\ Month(z) <= Month(z + 1)
<1>. DEFINE In(d) == d.month \in 1..12
            T == {n \in Nat : n <= Era => In(civil_from_days(n))}
<1>1. ASSUME NEW n \in Nat, n <= Era
      PROVE  civil_from_days(n + 1) = NextDay(civil_from_days(n))
  <2>1. Era \in Int
    BY EraOfDays
  <2>2. n \in 0..Era
    BY <1>1, <2>1
  <2>. QED  BY <2>2, CalendarFollows
<1>2. ASSUME NEW d, d.year \in Int, d.month \in 1..12
      PROVE  /\ NextDay(d).month \in 1..12
             /\ 100 * d.year + d.month <= 100 * NextDay(d).year + NextDay(d).month
  BY <1>2 DEF NextDay, Date
<1>3. \A n \in Nat : civil_from_days(n).year \in Int
  BY DatesOfDays
<1>4. 0 \in T
  BY CalendarFollows DEF Date
<1>5. ASSUME NEW n \in T PROVE n + 1 \in T
  <2>1. n \in Nat /\ (n <= Era => In(civil_from_days(n)))
    OBVIOUS
  <2>2. n + 1 \in T <=> (n + 1 <= Era => In(civil_from_days(n + 1)))
    BY <2>1
  <2>. HIDE DEF In, T
  <2>. SUFFICES ASSUME n + 1 <= Era PROVE In(civil_from_days(n + 1))
    BY <2>2
  <2>3. n <= Era
    <3>1. Era \in Int
      BY EraOfDays
    <3>. QED  BY <2>1, <3>1
  <2>4. In(civil_from_days(n))
    BY <2>1, <2>3
  <2>. QED  BY <1>1, <1>2, <1>3, <2>1, <2>3, <2>4 DEF In
<1>6. T = Nat
  <2>1. T \in SUBSET Nat
    OBVIOUS
  <2>. HIDE DEF T
  <2>. QED  BY <1>4, <1>5, <2>1, Induction
<1>7. In(civil_from_days(z))
  <2>1. z \in T
    BY <1>6
  <2>. HIDE DEF In
  <2>. QED  BY <2>1
<1>8. civil_from_days(z + 1) = NextDay(civil_from_days(z)) /\ civil_from_days(z).year \in Int
  BY <1>1, <1>3
<1>. QED  BY <1>2, <1>7, <1>8 DEF Month

LEMMA MonthsRunForward ==
  ASSUME NEW z \in Nat
  PROVE  Month(z) \in Int /\ Month(z) <= Month(z + 1)
<1>. DEFINE q == z \div Era
            r == z % Era
<1>1. q \in Nat /\ r \in Nat /\ r < Era /\ z = r + Era * q
  BY SMT, EraOfDays
<1>. HIDE DEF q, r
<1>2. r + 1 \in Nat /\ r <= Era /\ z + 1 = (r + 1) + Era * q
  <2>1. Era \in Nat
    BY EraOfDays
  <2>2. Era * q \in Int
    BY <1>1, <2>1
  <2>. QED  BY <1>1, <2>1, <2>2
<1>3. ASSUME NEW n \in Nat
      PROVE  Month(n) \in Int /\ Month(n + Era * q) = Month(n) + 40000 * q
  <2>. q \in Nat
    BY <1>1
  <2>1. PICK year \in Int, month \in Int, day \in Int :
          /\ civil_from_days(n) = Date(year, month, day)
          /\ civil_from_days(n + Era * q) = Date(year + 400 * q, month, day)
    BY FourCenturiesOn
  <2>2. /\ Month(n) = 100 * year + month
        /\ Month(n + Era * q) = 100 * (year + 400 * q) + month
    BY <2>1 DEF Month, Date
  <2>3. /\ 100 * year + month \in Int
        /\ 100 * (year + 400 * q) + month = (100 * year + month) + 40000 * q
    BY <1>1
  <2>. QED  BY <2>2, <2>3
<1>4. Month(r) <= Month(r + 1)
  BY <1>1, <1>2, MonthsFollow
<1>5. /\ Month(r) \in Int /\ Month(r + 1) \in Int
      /\ Month(z) = Month(r) + 40000 * q /\ Month(z + 1) = Month(r + 1) + 40000 * q
  BY <1>1, <1>2, <1>3
<1>. QED  BY <1>1, <1>4, <1>5

(* The billing period of a moment is not before that of an earlier moment, *)
(* in any year (store.rs period_of): what StoreAssumption asks of PeriodOf.*)
THEOREM PeriodsNeverGoBack ==
  \A s, t \in Nat : s <= t => period_of(s) <= period_of(t)
<1>. DEFINE T == {n \in Nat : \A z \in Nat : Month(z) <= Month(z + n)}
<1>1. 0 \in T
  <2>1. \A z \in Nat : z + 0 = z
    OBVIOUS
  <2>. QED  BY <2>1, MonthsRunForward
<1>2. ASSUME NEW n \in T PROVE n + 1 \in T
  <2>. SUFFICES ASSUME NEW z \in Nat PROVE Month(z) <= Month(z + (n + 1))
    OBVIOUS
  <2>1. n \in Nat /\ Month(z) <= Month(z + n)
    OBVIOUS
  <2>2. z + n \in Nat /\ z + (n + 1) = (z + n) + 1 /\ z + (n + 1) \in Nat
    BY <2>1
  <2>3. /\ Month(z + n) <= Month(z + (n + 1)) /\ Month(z) \in Int
        /\ Month(z + n) \in Int /\ Month(z + (n + 1)) \in Int
    BY <2>2, MonthsRunForward
  <2>. QED  BY <2>1, <2>3
<1>3. T = Nat
  <2>1. T \in SUBSET Nat
    OBVIOUS
  <2>. HIDE DEF T
  <2>. QED  BY <1>1, <1>2, <2>1, Induction
<1>. SUFFICES ASSUME NEW s \in Nat, NEW t \in Nat, s <= t
              PROVE  period_of(s) <= period_of(t)
  OBVIOUS
<1>. DEFINE a == s \div 86400
            b == t \div 86400
<1>4. a \in Nat /\ b \in Nat /\ a <= b
  OBVIOUS
<1>5. period_of(s) = Month(a) /\ period_of(t) = Month(b)
  BY DEF period_of, Month
<1>. HIDE DEF a, b
<1>6. b - a \in Nat /\ a + (b - a) = b
  BY <1>4
<1>. QED  BY <1>3, <1>4, <1>5, <1>6
=============================================================================
