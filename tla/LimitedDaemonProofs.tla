------------------------ MODULE LimitedDaemonProofs ------------------------
(***************************************************************************)
(* Proofs about the limiter of queries per address and the daemon around   *)
(* it, for every finite set of addresses, every pool of workers and every  *)
(* window, allowance and table size. The first part is about NetLimit      *)
(* alone. In the second the pool of workers takes nothing from it, and     *)
(* what the pool evaluates lags behind what was admitted by at most one    *)
(* request for each worker.                                                *)
(***************************************************************************)
EXTENDS LimitedDaemon, FiniteSetTheorems, TLAPS

Positive == Nat \ {0}

(* An entry is not younger than the address's latest admission.            *)
TimeOrder ==
  \A i \in Ips :
    /\ since[i] <= now
    /\ last[i] <= now
    /\ hits[i] # NoEntry => hits[i].at <= last[i]

(* Allowances begun before the entry of i have paid for n windows.         *)
PaidUpTo(i, t, free) ==
  \A n \in Positive : t - since[i] <= n * Window => count[i] <= free + n * MaxPerWindow

(* How an entry of an address accounts for what its interval counted.      *)
Accounted(i, e) ==
  IF e = NoEntry THEN PaidUpTo(i, now, 0)
  ELSE /\ e.at < since[i] => count[i] <= e.used
       /\ e.at > since[i] => count[i] >= e.used
       /\ e.at >= since[i] => PaidUpTo(i, e.at, e.used)

EntryAccounts == \A i \in Ips : Accounted(i, hits[i])

IInv == TypeOK /\ TimeOrder /\ EntryAccounts /\ MemoryBounded /\ DenialExplained

-----------------------------------------------------------------------------
LEMMA ProductIsNat ==
  ASSUME NEW a \in Nat, NEW b \in Nat
  PROVE  a * b \in Nat
BY SMT

LEMMA OneLess ==
  ASSUME NEW n \in Positive, NEW a \in Nat
  PROVE  /\ n - 1 \in Nat
         /\ n * a = (n - 1) * a + a
         /\ (n - 1) * a \in Nat
         /\ n = 1 => n * a = a
<1>1. n - 1 \in Nat
  BY SMT DEF Positive
<1>2. n * a = (n - 1) * a + a
  BY <1>1, SMT DEF Positive
<1>. QED  BY <1>1, <1>2, ProductIsNat, SMT DEF Positive

LEMMA OneMore ==
  ASSUME NEW n \in Nat, NEW a \in Nat
  PROVE  (n + 1) * a = n * a + a /\ n * a \in Nat
BY ProductIsNat, SMT

(* An address without a live entry has only whole allowances behind it.    *)
LEMMA FreshPaid ==
  ASSUME IInv, NEW i \in Ips, Fresh(i)
  PROVE  PaidUpTo(i, now, 0)
<1>1. CASE hits[i] = NoEntry
  BY <1>1 DEF IInv, EntryAccounts, Accounted
<1>2. CASE hits[i] # NoEntry
  <2>. DEFINE e == hits[i]
  <2>1. /\ e \in Entry /\ e.used \in Nat /\ e.at \in Nat /\ e.used <= MaxPerWindow
        /\ now \in Nat /\ since[i] \in Nat /\ count[i] \in Nat
        /\ MaxPerWindow \in Nat /\ Window \in Nat
    BY <1>2, NetLimitAssumption DEF IInv, TypeOK, Entry
  <2>2. now - e.at > Window
    BY <1>2 DEF Fresh, Expired
  <2>3. /\ e.at < since[i] => count[i] <= e.used
        /\ e.at >= since[i] => PaidUpTo(i, e.at, e.used)
    BY <1>2 DEF IInv, EntryAccounts, Accounted
  <2>4. SUFFICES ASSUME NEW n \in Positive, now - since[i] <= n * Window
                 PROVE  count[i] <= n * MaxPerWindow
    BY <2>1, ProductIsNat DEF PaidUpTo, Positive
  <2>5. /\ n - 1 \in Nat
        /\ n * Window = (n - 1) * Window + Window
        /\ n * MaxPerWindow = (n - 1) * MaxPerWindow + MaxPerWindow
        /\ (n - 1) * Window \in Nat /\ (n - 1) * MaxPerWindow \in Nat
        /\ n = 1 => n * Window = Window
    BY <2>1, OneLess
  <2>6. CASE e.at < since[i]
    BY <2>1, <2>3, <2>5, <2>6
  <2>7. CASE e.at >= since[i]
    <3>1. e.at - since[i] < (n - 1) * Window
      BY <2>1, <2>2, <2>4, <2>5
    <3>2. n - 1 \in Positive
      BY <2>1, <2>2, <2>4, <2>5, <2>7 DEF Positive
    <3>3. count[i] <= e.used + (n - 1) * MaxPerWindow
      BY <2>1, <2>3, <2>5, <2>7, <3>1, <3>2 DEF PaidUpTo
    <3>. QED  BY <2>1, <2>5, <3>3
  <2>. QED  BY <2>1, <2>6, <2>7
<1>. QED  BY <1>1, <1>2

(* The purge drops nothing but entries that are over.                      *)
LEMMA PurgeKeeps ==
  ASSUME IInv
  PROVE  /\ Purged \in [Ips -> Entry \cup {NoEntry}]
         /\ \A i \in Ips : Purged[i] = hits[i] \/ (Purged[i] = NoEntry /\ Fresh(i))
         /\ Tracked(Purged) \subseteq Tracked(hits)
         /\ IsFiniteSet(Tracked(hits)) /\ IsFiniteSet(Tracked(Purged))
         /\ Cardinality(Tracked(hits)) \in Nat
         /\ Cardinality(Tracked(Purged)) \in Nat
         /\ Cardinality(Tracked(Purged)) <= Cardinality(Tracked(hits))
         /\ Cardinality(Tracked(hits)) <= MaxTracked
<1>1. Purged \in [Ips -> Entry \cup {NoEntry}]
  BY DEF IInv, TypeOK, Purged
<1>2. \A i \in Ips : Purged[i] = hits[i] \/ (Purged[i] = NoEntry /\ Fresh(i))
  BY DEF Purged, Fresh
<1>3. Tracked(Purged) \subseteq Tracked(hits)
  BY <1>2 DEF Tracked
<1>4. IsFiniteSet(Tracked(hits))
  BY FS_Subset, NetLimitAssumption DEF Tracked
<1>. QED
  BY <1>1, <1>2, <1>3, <1>4, FS_Subset, FS_CardinalityType DEF IInv, MemoryBounded

(* Dropping entries that are over leaves the accounts in order.            *)
LEMMA PurgeAccounts ==
  ASSUME IInv, NEW i \in Ips
  PROVE  Accounted(i, Purged[i])
<1>1. CASE Purged[i] = NoEntry
  <2>1. Fresh(i)
    BY <1>1, PurgeKeeps DEF Fresh
  <2>. QED  BY <1>1, <2>1, FreshPaid DEF Accounted
<1>2. CASE Purged[i] # NoEntry
  BY <1>2, PurgeKeeps DEF IInv, EntryAccounts, Accounted
<1>. QED  BY <1>1, <1>2

LEMMA NoneIsNoEntry == NoEntry \notin Entry
BY NetLimitAssumption DEF Entry

-----------------------------------------------------------------------------
LEMMA InitIInv == Init => IInv
<1>. SUFFICES ASSUME Init PROVE IInv
  OBVIOUS
<1>1. TypeOK /\ TimeOrder
  BY DEF Init, TypeOK, TimeOrder
<1>2. EntryAccounts
  <2>1. \A n \in Positive : n * MaxPerWindow \in Nat
    BY ProductIsNat, NetLimitAssumption DEF Positive
  <2>2. SUFFICES ASSUME NEW i \in Ips PROVE PaidUpTo(i, now, 0)
    BY DEF Init, EntryAccounts, Accounted
  <2>3. count[i] = 0
    BY DEF Init
  <2>4. \A n \in Positive : 0 <= 0 + n * MaxPerWindow
    BY <2>1
  <2>. QED  BY <2>3, <2>4 DEF PaidUpTo
<1>3. Tracked(hits) = {}
  BY DEF Init, Tracked
<1>4. MemoryBounded
  BY <1>3, FS_EmptySet, NetLimitAssumption DEF MemoryBounded
<1>5. DenialExplained
  BY DEF Init, DenialExplained
<1>. QED  BY <1>1, <1>2, <1>4, <1>5 DEF IInv

(* Admitting i leaves IInv.                                                *)
LEMMA AdmitStep ==
  ASSUME IInv, NEW i \in Ips, Admit(i)
  PROVE  IInv'
<1>. DEFINE e == [used |-> Used(i) + 1, at |-> Start(i)]
<1>1. /\ ~NoRoom(i) /\ Used(i) < MaxPerWindow
      /\ hits' = [Purged EXCEPT ![i] = e]
      /\ count' = [count EXCEPT ![i] = @ + 1]
      /\ last' = [last EXCEPT ![i] = now]
      /\ now' = now /\ since' = since /\ denied' = denied
  BY DEF Admit, Admits
<1>2. /\ now \in Nat /\ MaxPerWindow \in Nat /\ Window \in Nat
      /\ since \in [Ips -> Nat] /\ count \in [Ips -> Nat]
      /\ last \in [Ips -> Nat \cup {-1}] /\ denied \in SUBSET Ips
      /\ hits \in [Ips -> Entry \cup {NoEntry}]
  BY NetLimitAssumption DEF IInv, TypeOK
<1>3. /\ Used(i) \in Nat /\ Start(i) \in Nat /\ Start(i) <= now
      /\ e \in Entry /\ e # NoEntry
  <2>1. CASE Fresh(i)
    BY <1>1, <1>2, <2>1, NoneIsNoEntry DEF Used, Start, Entry
  <2>2. CASE ~Fresh(i)
    <3>1. hits[i] \in Entry /\ hits[i] # NoEntry
      BY <1>2, <2>2 DEF Fresh
    <3>2. hits[i].at <= now
      BY <1>2, <3>1 DEF IInv, TimeOrder, Entry
    <3>. QED  BY <1>1, <1>2, <2>2, <3>1, <3>2, NoneIsNoEntry DEF Used, Start, Entry
  <2>. QED  BY <2>1, <2>2
<1>4. TypeOK'
  BY <1>1, <1>2, <1>3, PurgeKeeps DEF TypeOK
<1>5. TimeOrder'
  BY <1>1, <1>2, <1>3, PurgeKeeps DEF IInv, TimeOrder, Entry
<1>6. EntryAccounts'
  <2>. SUFFICES ASSUME NEW j \in Ips PROVE Accounted(j, hits[j])'
    BY DEF EntryAccounts
  <2>1. CASE j # i
    <3>1. Accounted(j, Purged[j])
      BY PurgeAccounts
    <3>2. /\ hits'[j] = Purged[j] /\ count'[j] = count[j]
      BY <1>1, <1>2, <2>1, PurgeKeeps
    <3>. QED  BY <1>1, <3>1, <3>2 DEF Accounted, PaidUpTo
  <2>2. CASE j = i
    <3>1. /\ hits'[i] = e /\ count'[i] = count[i] + 1 /\ since'[i] = since[i]
          /\ e.used = Used(i) + 1 /\ e.at = Start(i)
          /\ since[i] \in Nat /\ count[i] \in Nat /\ since[i] <= now
      BY <1>1, <1>2, PurgeKeeps DEF IInv, TimeOrder
    <3>2. CASE Fresh(i)
      <4>1. PaidUpTo(i, now, 0) /\ Used(i) = 0 /\ Start(i) = now
        BY <3>2, FreshPaid DEF Used, Start
      <4>2. ASSUME NEW n \in Positive, now - since[i] <= n * Window
            PROVE  count[i] + 1 <= 1 + n * MaxPerWindow
        <5>1. count[i] <= 0 + n * MaxPerWindow
          BY <4>1, <4>2 DEF PaidUpTo
        <5>2. n * MaxPerWindow \in Nat
          BY <1>2, ProductIsNat DEF Positive
        <5>. QED  BY <3>1, <5>1, <5>2
      <4>3. hits'[i].at = now /\ hits'[i].used = 1 /\ hits'[i] # NoEntry
        BY <1>3, <3>1, <4>1
      <4>4. PaidUpTo(i, hits[i].at, hits[i].used)'
        BY <1>1, <3>1, <4>2, <4>3 DEF PaidUpTo
      <4>. QED  BY <1>1, <1>2, <2>2, <3>1, <4>3, <4>4 DEF Accounted
    <3>3. CASE ~Fresh(i)
      <4>1. /\ hits[i] # NoEntry /\ hits[i] \in Entry
            /\ Used(i) = hits[i].used /\ Start(i) = hits[i].at
        BY <1>2, <3>3 DEF Used, Start, Fresh
      <4>2. Accounted(i, hits[i])
        BY DEF IInv, EntryAccounts
      <4>3. ASSUME Start(i) >= since[i], NEW n \in Positive,
                   Start(i) - since[i] <= n * Window
            PROVE  count[i] + 1 <= (Used(i) + 1) + n * MaxPerWindow
        <5>1. count[i] <= Used(i) + n * MaxPerWindow
          BY <4>1, <4>2, <4>3 DEF Accounted, PaidUpTo
        <5>2. n * MaxPerWindow \in Nat
          BY <1>2, ProductIsNat DEF Positive
        <5>. QED  BY <1>3, <3>1, <5>1, <5>2
      <4>4. /\ hits'[i].at = Start(i) /\ hits'[i].used = Used(i) + 1
            /\ hits'[i] # NoEntry
        BY <1>3, <3>1
      <4>5. hits'[i].at >= since'[i] => PaidUpTo(i, hits[i].at, hits[i].used)'
        BY <1>1, <3>1, <4>3, <4>4 DEF PaidUpTo
      <4>. QED  BY <1>1, <1>2, <1>3, <2>2, <3>1, <4>1, <4>2, <4>4, <4>5 DEF Accounted
    <3>. QED  BY <3>2, <3>3
  <2>. QED  BY <2>1, <2>2
<1>7. MemoryBounded'
  <2>. DEFINE T == Tracked(Purged)
              S == {k \in Ips : hits'[k] # NoEntry}
  <2>1. S = T \cup {i}
    BY <1>1, <1>3, PurgeKeeps DEF Tracked
  <2>2. /\ IsFiniteSet(T) /\ Cardinality(T) \in Nat /\ Cardinality(T) <= MaxTracked
        /\ IsFiniteSet(S) /\ Cardinality(S) \in Nat
        /\ Cardinality(S) = IF i \in T THEN Cardinality(T) ELSE Cardinality(T) + 1
    <3>1. IsFiniteSet(T) /\ Cardinality(T) \in Nat
      BY PurgeKeeps
    <3>2. Cardinality(T) <= MaxTracked
      BY PurgeKeeps, NetLimitAssumption
    <3>3. /\ IsFiniteSet(T \cup {i})
          /\ Cardinality(T \cup {i}) = IF i \in T THEN Cardinality(T) ELSE Cardinality(T) + 1
      BY <3>1, FS_AddElement
    <3>. HIDE DEF T, S
    <3>. QED  BY <2>1, <3>1, <3>2, <3>3, FS_CardinalityType
  <2>3. i \in T \/ Cardinality(T) < MaxTracked
    <3>1. Purged[i] # NoEntry => i \in T
      BY DEF Tracked
    <3>2. ~Full(Purged) => Cardinality(T) < MaxTracked
      BY <2>2, NetLimitAssumption DEF Full
    <3>. QED  BY <1>1, <3>1, <3>2 DEF NoRoom
  <2>4. Cardinality(S) <= MaxTracked
    BY <2>2, <2>3, NetLimitAssumption
  <2>. QED  BY <2>4 DEF MemoryBounded, Tracked
<1>8. DenialExplained'
  <2>. SUFFICES ASSUME NEW j \in denied, now - since[j] > Window
                PROVE  (HadItsShare(j) \/ CrowdedOut(j))'
    BY <1>1 DEF DenialExplained
  <2>1. HadItsShare(j) \/ CrowdedOut(j)
    BY DEF IInv, DenialExplained
  <2>2. ASSUME HadItsShare(j) PROVE HadItsShare(j)'
    BY <1>1, <1>2, <2>2 DEF HadItsShare
  <2>3. ASSUME CrowdedOut(j) PROVE CrowdedOut(j)'
    <3>. DEFINE S == {k \in Ips \ {j} : last[k] >= 0 /\ now - last[k] <= Window}
                T == {k \in Ips \ {j} : last'[k] >= 0 /\ now - last'[k] <= Window}
    <3>1. S \subseteq T /\ T \subseteq Ips
      BY <1>1, <1>2
    <3>2. /\ IsFiniteSet(T)
          /\ Cardinality(S) \in Nat /\ Cardinality(T) \in Nat
          /\ Cardinality(S) <= Cardinality(T)
      BY <3>1, FS_Subset, FS_CardinalityType, NetLimitAssumption
    <3>3. Cardinality(S) >= MaxTracked
      BY <2>3 DEF CrowdedOut
    <3>4. Cardinality(T) >= MaxTracked
      BY <3>2, <3>3, NetLimitAssumption
    <3>. QED  BY <1>1, <3>4 DEF CrowdedOut
  <2>. QED  BY <2>1, <2>2, <2>3
<1>. QED  BY <1>4, <1>5, <1>6, <1>7, <1>8 DEF IInv

(* Denying i leaves IInv.                                                  *)
LEMMA DenyStep ==
  ASSUME IInv, NEW i \in Ips, Deny(i)
  PROVE  IInv'
<1>1. /\ NoRoom(i) \/ ~(Used(i) < MaxPerWindow)
      /\ hits' = Purged /\ denied' = denied \cup {i}
      /\ now' = now /\ since' = since /\ count' = count /\ last' = last
  BY DEF Deny, Admits
<1>2. /\ now \in Nat /\ MaxPerWindow \in Nat \ {0} /\ Window \in Nat
      /\ since \in [Ips -> Nat] /\ count \in [Ips -> Nat]
      /\ last \in [Ips -> Nat \cup {-1}] /\ denied \in SUBSET Ips
      /\ hits \in [Ips -> Entry \cup {NoEntry}]
  BY NetLimitAssumption DEF IInv, TypeOK
<1>3. TypeOK'
  BY <1>1, <1>2, PurgeKeeps DEF TypeOK
<1>4. TimeOrder'
  BY <1>1, PurgeKeeps DEF IInv, TimeOrder
<1>5. EntryAccounts'
  <2>. SUFFICES ASSUME NEW j \in Ips PROVE Accounted(j, hits[j])'
    BY DEF EntryAccounts
  <2>1. Accounted(j, Purged[j])
    BY PurgeAccounts
  <2>. QED  BY <1>1, <2>1 DEF Accounted, PaidUpTo
<1>6. MemoryBounded'
  <2>1. {k \in Ips : hits'[k] # NoEntry} = Tracked(Purged)
    BY <1>1 DEF Tracked
  <2>2. Cardinality({k \in Ips : hits'[k] # NoEntry}) <= MaxTracked
    BY <2>1, PurgeKeeps, NetLimitAssumption
  <2>. QED  BY <2>2 DEF MemoryBounded, Tracked
<1>7. DenialExplained'
  <2>1. ASSUME now - since[i] > Window PROVE HadItsShare(i) \/ CrowdedOut(i)
    <3>1. CASE NoRoom(i)
      <4>. DEFINE T == Tracked(Purged)
                  C == {j \in Ips \ {i} : last[j] >= 0 /\ now - last[j] <= Window}
      <4>1. Purged[i] = NoEntry /\ Cardinality(T) >= MaxTracked
        BY <3>1 DEF NoRoom, Full
      <4>2. Full(hits)
        BY <4>1, PurgeKeeps, NetLimitAssumption DEF Full
      <4>3. ASSUME NEW j \in T PROVE j \in C
        <5>1. /\ j \in Ips /\ Purged[j] # NoEntry /\ j # i
              /\ hits[j] \in Entry /\ hits[j] # NoEntry
          BY <1>2, <4>1, <4>3, PurgeKeeps DEF Tracked
        <5>2. ~Expired(hits[j])
          BY <4>2, <5>1 DEF Purged
        <5>3. hits[j].at <= last[j] /\ hits[j].at \in Nat /\ last[j] \in Int
          BY <1>2, <5>1 DEF IInv, TimeOrder, Entry
        <5>. QED  BY <1>2, <5>1, <5>2, <5>3 DEF Expired
      <4>4. /\ IsFiniteSet(C) /\ Cardinality(C) \in Nat
            /\ Cardinality(T) <= Cardinality(C)
        <5>1. T \subseteq C /\ C \subseteq Ips
          BY <4>3
        <5>. QED  BY <5>1, FS_Subset, FS_CardinalityType, NetLimitAssumption
      <4>5. Cardinality(C) >= MaxTracked
        BY <4>1, <4>4, PurgeKeeps, NetLimitAssumption
      <4>. QED  BY <4>5 DEF CrowdedOut
    <3>2. CASE ~(Used(i) < MaxPerWindow)
      <4>1. /\ ~Fresh(i) /\ hits[i].used >= MaxPerWindow /\ ~Expired(hits[i])
            /\ hits[i] # NoEntry /\ hits[i] \in Entry
        <5>1. ~Fresh(i)
          BY <1>2, <3>2 DEF Used
        <5>2. hits[i] # NoEntry /\ hits[i] \in Entry /\ ~Expired(hits[i])
          BY <1>2, <5>1 DEF Fresh
        <5>. QED  BY <1>2, <3>2, <5>1, <5>2 DEF Used, Entry
      <4>2. hits[i].at > since[i]
        BY <1>2, <2>1, <4>1 DEF Expired, Entry
      <4>3. count[i] >= hits[i].used
        BY <4>1, <4>2 DEF IInv, EntryAccounts, Accounted
      <4>. QED  BY <1>2, <4>1, <4>3 DEF HadItsShare, Entry
    <3>. QED  BY <1>1, <3>1, <3>2
  <2>2. \A j \in denied : now - since[j] > Window => HadItsShare(j) \/ CrowdedOut(j)
    BY DEF IInv, DenialExplained
  <2>. QED  BY <1>1, <2>1, <2>2 DEF DenialExplained, HadItsShare, CrowdedOut
<1>. QED  BY <1>3, <1>4, <1>5, <1>6, <1>7 DEF IInv

(* The clock leaves IInv: no interval gets shorter.                        *)
LEMMA TickStep ==
  ASSUME IInv, Tick
  PROVE  IInv'
<1>1. /\ now' = now + 1 /\ denied' = {} /\ hits' = hits
      /\ since' = since /\ count' = count /\ last' = last
  BY DEF Tick
<1>2. TypeOK'
  BY <1>1 DEF IInv, TypeOK
<1>3. TimeOrder'
  BY <1>1 DEF IInv, TypeOK, TimeOrder
<1>4. EntryAccounts'
  <2>. SUFFICES ASSUME NEW j \in Ips PROVE Accounted(j, hits[j])'
    BY DEF EntryAccounts
  <2>1. Accounted(j, hits[j])
    BY DEF IInv, EntryAccounts
  <2>2. now \in Nat /\ since[j] \in Nat /\ Window \in Nat
    BY NetLimitAssumption DEF IInv, TypeOK
  <2>3. \A n \in Positive : n * Window \in Nat
    BY <2>2, ProductIsNat DEF Positive
  <2>4. PaidUpTo(j, now, 0) => PaidUpTo(j, now, 0)'
    BY <1>1, <2>2, <2>3 DEF PaidUpTo
  <2>. QED  BY <1>1, <2>1, <2>4 DEF Accounted, PaidUpTo
<1>5. MemoryBounded' /\ DenialExplained'
  BY <1>1 DEF IInv, MemoryBounded, DenialExplained, Tracked
<1>. QED  BY <1>2, <1>3, <1>4, <1>5 DEF IInv

(* A new interval leaves IInv.                                             *)
LEMMA ObserveStep ==
  ASSUME IInv, NEW i \in Ips, Observe(i)
  PROVE  IInv'
<1>1. /\ since' = [since EXCEPT ![i] = now] /\ count' = [count EXCEPT ![i] = 0]
      /\ denied' = denied \ {i} /\ hits' = hits /\ now' = now /\ last' = last
  BY DEF Observe
<1>2. TypeOK'
  BY <1>1 DEF IInv, TypeOK
<1>3. TimeOrder'
  BY <1>1 DEF IInv, TypeOK, TimeOrder
<1>4. EntryAccounts'
  <2>. SUFFICES ASSUME NEW j \in Ips PROVE Accounted(j, hits[j])'
    BY DEF EntryAccounts
  <2>1. Accounted(j, hits[j])
    BY DEF IInv, EntryAccounts
  <2>2. CASE j # i
    <3>1. since'[j] = since[j] /\ count'[j] = count[j]
      BY <1>1, <2>2 DEF IInv, TypeOK
    <3>. QED  BY <1>1, <2>1, <3>1 DEF Accounted, PaidUpTo
  <2>3. CASE j = i
    <3>1. since'[i] = now /\ count'[i] = 0 /\ hits'[i] = hits[i] /\ now \in Nat
      BY <1>1 DEF IInv, TypeOK
    <3>2. \A n \in Positive : n * MaxPerWindow \in Nat
      BY ProductIsNat, NetLimitAssumption DEF Positive
    <3>3. CASE hits[i] = NoEntry
      BY <1>1, <2>3, <3>1, <3>2, <3>3 DEF Accounted, PaidUpTo
    <3>4. CASE hits[i] # NoEntry
      <4>1. /\ hits[i].used \in Nat /\ hits[i].at \in Nat /\ hits[i].at <= now
        BY <3>4, NetLimitAssumption DEF IInv, TypeOK, TimeOrder, Entry
      <4>2. \A n \in Positive : 0 <= hits[i].used + n * MaxPerWindow
        BY <3>2, <4>1
      <4>3. PaidUpTo(i, hits[i].at, hits[i].used)'
        BY <1>1, <3>1, <4>2 DEF PaidUpTo
      <4>. QED  BY <1>1, <2>3, <3>1, <3>4, <4>1, <4>3 DEF Accounted
    <3>. QED  BY <3>3, <3>4
  <2>. QED  BY <2>2, <2>3
<1>5. MemoryBounded'
  BY <1>1 DEF IInv, MemoryBounded, Tracked
<1>6. DenialExplained'
  <2>1. \A j \in denied' : /\ j \in denied /\ j # i /\ j \in Ips
                           /\ since'[j] = since[j] /\ count'[j] = count[j]
    BY <1>1 DEF IInv, TypeOK
  <2>. QED  BY <1>1, <2>1 DEF IInv, DenialExplained, HadItsShare, CrowdedOut
<1>. QED  BY <1>2, <1>3, <1>4, <1>5, <1>6 DEF IInv

LEMMA StepIInv == IInv /\ [Next]_vars => IInv'
<1>. SUFFICES ASSUME IInv, [Next]_vars PROVE IInv'
  OBVIOUS
<1>1. ASSUME NEW i \in Ips, Admit(i) PROVE IInv'
  BY <1>1, AdmitStep
<1>2. ASSUME NEW i \in Ips, Deny(i) PROVE IInv'
  BY <1>2, DenyStep
<1>3. ASSUME NEW i \in Ips, Observe(i) PROVE IInv'
  BY <1>3, ObserveStep
<1>4. CASE Tick
  BY <1>4, TickStep
<1>5. CASE UNCHANGED vars
  BY <1>5 DEF vars, observers, IInv, TypeOK, TimeOrder, EntryAccounts, Accounted,
              PaidUpTo, MemoryBounded, Tracked, DenialExplained, HadItsShare, CrowdedOut
<1>. QED  BY <1>1, <1>2, <1>3, <1>4, <1>5 DEF Next

LEMMA SpecIInv == Spec => []IInv
BY InitIInv, StepIInv, PTL DEF Spec

(* Every entry stays within the accounts of its window.                    *)
LEMMA IInvIntervals == IInv => IntervalBound
<1>. SUFFICES ASSUME IInv, NEW i \in Ips, NEW n \in 1..(MaxTime + 1),
                     now - since[i] <= n * Window
              PROVE  count[i] <= (n + 1) * MaxPerWindow
  BY DEF IntervalBound
<1>1. /\ n \in Positive /\ n \in Nat /\ MaxPerWindow \in Nat /\ Window \in Nat
      /\ now \in Nat /\ since[i] \in Nat /\ count[i] \in Nat
  BY NetLimitAssumption DEF IInv, TypeOK, Positive
<1>2. /\ (n + 1) * MaxPerWindow = n * MaxPerWindow + MaxPerWindow
      /\ n * MaxPerWindow \in Nat /\ n * Window \in Nat
  BY <1>1, OneMore
<1>3. Accounted(i, hits[i])
  BY DEF IInv, EntryAccounts
<1>4. CASE hits[i] = NoEntry
  <2>1. count[i] <= 0 + n * MaxPerWindow
    BY <1>1, <1>3, <1>4 DEF Accounted, PaidUpTo
  <2>. QED  BY <1>1, <1>2, <2>1
<1>5. CASE hits[i] # NoEntry
  <2>1. /\ hits[i].used \in Nat /\ hits[i].used <= MaxPerWindow
        /\ hits[i].at \in Nat /\ hits[i].at <= now
    BY <1>5, NetLimitAssumption DEF IInv, TypeOK, TimeOrder, Entry
  <2>2. CASE hits[i].at < since[i]
    BY <1>1, <1>2, <1>3, <1>5, <2>1, <2>2 DEF Accounted
  <2>3. CASE hits[i].at >= since[i]
    <3>1. hits[i].at - since[i] <= n * Window
      BY <1>1, <1>2, <2>1
    <3>2. count[i] <= hits[i].used + n * MaxPerWindow
      BY <1>1, <1>3, <1>5, <2>3, <3>1 DEF Accounted, PaidUpTo
    <3>. QED  BY <1>1, <1>2, <2>1, <3>2
  <2>. QED  BY <1>1, <2>1, <2>2, <2>3
<1>. QED  BY <1>4, <1>5

-----------------------------------------------------------------------------
(* The state always has its type: an entry never counts more than one      *)
(* allowance (RateLimiter::allow_at).                                      *)
THEOREM TypeCorrect == Spec => []TypeOK
BY SpecIInv, PTL DEF IInv

(* An interval no longer than n windows admits at most n + 1 allowances,   *)
(* for every interval, window, allowance and table size.                   *)
THEOREM IntervalsBounded == Spec => []IntervalBound
<1>1. IInv => IntervalBound
  BY IInvIntervals
<1>. QED  BY <1>1, SpecIInv, PTL

(* The table never outgrows its ceiling (hits.len() <= max_tracked).       *)
THEOREM TableBounded == Spec => []MemoryBounded
BY SpecIInv, PTL DEF IInv

(* No query is denied without recent service that explains it.             *)
THEOREM DenialsExplained == Spec => []DenialExplained
BY SpecIInv, PTL DEF IInv

-----------------------------------------------------------------------------
(* The daemon around the limiter.                                          *)

(* The workers that read a request of the address, admitted already.       *)
Reading(i) == {w \in Workers : job[w] # Free /\ job[w].ip = i /\ job[w].allowed}

(* What was evaluated or may still be was admitted in the interval, or was *)
(* in a worker's hands when it began.                                      *)
Owed == \A i \in Ips :
          evaluated[i] + Cardinality(Reading(i)) <= count[i] + Cardinality(Workers)

DaemonInv == DaemonTypeOK /\ Owed

-----------------------------------------------------------------------------
(* The workers that read for an address are some of the workers.           *)
LEMMA ReadingFinite ==
  ASSUME NEW i \in Ips
  PROVE  /\ IsFiniteSet(Reading(i))
         /\ Cardinality(Reading(i)) \in Nat /\ Cardinality(Workers) \in Nat
         /\ Cardinality(Reading(i)) <= Cardinality(Workers)
<1>1. Reading(i) \in SUBSET Workers
  BY DEF Reading
<1>. QED  BY <1>1, FS_Subset, FS_CardinalityType, PoolAssumption

(* A worker that drops its request no longer reads for anybody.            *)
LEMMA Released ==
  ASSUME DaemonTypeOK, NEW w \in Workers, job[w] # Free,
         job' = [job EXCEPT ![w] = Free], NEW i \in Ips
  PROVE  Reading(i)' = Reading(i) \ {w}
BY PoolAssumption DEF DaemonTypeOK, Reading, Job

(* A worker that was free and is given a request reads for its address, if *)
(* it was allowed, and for no other.                                       *)
LEMMA Taken ==
  ASSUME DaemonTypeOK, NEW w \in Workers, job[w] = Free, NEW j \in Ips,
         NEW a \in BOOLEAN,
         job' = [job EXCEPT ![w] = [ip |-> j, allowed |-> a]], NEW i \in Ips
  PROVE  Reading(i)' = IF a /\ i = j THEN Reading(i) \cup {w} ELSE Reading(i)
<1>1. [ip |-> j, allowed |-> a] \in Job
  BY DEF Job
<1>2. [ip |-> j, allowed |-> a] # Free
  BY <1>1, PoolAssumption
<1>3. \A v \in Workers : job'[v] = IF v = w THEN [ip |-> j, allowed |-> a] ELSE job[v]
  BY DEF DaemonTypeOK
<1>4. w \notin Reading(i)
  BY DEF Reading
<1>. QED  BY <1>2, <1>3, <1>4 DEF Reading

LEMMA InitDaemonInv == DaemonInit => DaemonInv
<1>. SUFFICES ASSUME DaemonInit PROVE DaemonInv
  OBVIOUS
<1>1. DaemonTypeOK
  BY DEF DaemonInit, DaemonTypeOK
<1>2. Owed
  <2>. SUFFICES ASSUME NEW i \in Ips
       PROVE  evaluated[i] + Cardinality(Reading(i)) <= count[i] + Cardinality(Workers)
    BY DEF Owed
  <2>1. evaluated[i] = 0 /\ count[i] = 0
    BY DEF DaemonInit, Init
  <2>. QED  BY <2>1, ReadingFinite
<1>. QED  BY <1>1, <1>2 DEF DaemonInv

(* Asking the limiter: an admitted request is counted before it is read.   *)
LEMMA ServeStep ==
  ASSUME TypeOK, DaemonInv, NEW w \in Workers, NEW i \in Ips, Serve(w, i)
  PROVE  DaemonInv'
<1>1. PICK a \in BOOLEAN :
        /\ job' = [job EXCEPT ![w] = [ip |-> i, allowed |-> a]]
        /\ a => count' = [count EXCEPT ![i] = @ + 1]
        /\ ~a => count' = count
  BY DEF Serve, Admit, Deny
<1>2. DaemonTypeOK'
  BY <1>1 DEF DaemonInv, DaemonTypeOK, Serve, Job
<1>3. ASSUME NEW j \in Ips
      PROVE  (evaluated[j] + Cardinality(Reading(j)) <= count[j] + Cardinality(Workers))'
  <2>1. evaluated'[j] = evaluated[j] /\ evaluated[j] \in Nat
    BY DEF Serve, DaemonInv, DaemonTypeOK
  <2>2. Reading(j)' = IF a /\ j = i THEN Reading(j) \cup {w} ELSE Reading(j)
    BY <1>1, Taken DEF DaemonInv, Serve
  <2>3. w \notin Reading(j)
    BY DEF Serve, Reading
  <2>4. Cardinality(Reading(j)') = Cardinality(Reading(j)) + (IF a /\ j = i THEN 1 ELSE 0)
    <3>1. IsFiniteSet(Reading(j)) /\ Cardinality(Reading(j)) \in Nat
      BY ReadingFinite
    <3>2. Cardinality(Reading(j) \cup {w}) = Cardinality(Reading(j)) + 1
      BY <2>3, <3>1, FS_AddElement
    <3>. QED  BY <2>2, <3>1, <3>2
  <2>5. count'[j] = count[j] + (IF a /\ j = i THEN 1 ELSE 0) /\ count[j] \in Nat
    BY <1>1 DEF TypeOK
  <2>6. evaluated[j] + Cardinality(Reading(j)) <= count[j] + Cardinality(Workers)
    BY DEF DaemonInv, Owed
  <2>. QED  BY <2>1, <2>4, <2>5, <2>6, ReadingFinite
<1>. QED  BY <1>2, <1>3 DEF DaemonInv, Owed

(* A worker lets its request go, evaluated or not.                         *)
LEMMA ReleaseStep ==
  ASSUME TypeOK, DaemonInv, NEW w \in Workers, Answer(w) \/ Abandon(w)
  PROVE  DaemonInv'
<1>1. /\ job[w] # Free /\ job[w] \in Job
      /\ job' = [job EXCEPT ![w] = Free] /\ count' = count
  BY DEF Answer, Abandon, DaemonInv, DaemonTypeOK, vars, observers
<1>2. PICK b \in BOOLEAN :
        /\ b => job[w].allowed
        /\ evaluated' = IF b THEN [evaluated EXCEPT ![job[w].ip] = @ + 1] ELSE evaluated
  BY <1>1 DEF Answer, Abandon, Granted, Job
<1>3. DaemonTypeOK'
  BY <1>1, <1>2 DEF DaemonInv, DaemonTypeOK, Job
<1>4. ASSUME NEW j \in Ips
      PROVE  (evaluated[j] + Cardinality(Reading(j)) <= count[j] + Cardinality(Workers))'
  <2>1. evaluated[j] \in Nat
    BY DEF DaemonInv, DaemonTypeOK
  <2>2. evaluated'[j] = evaluated[j] + (IF b /\ job[w].ip = j THEN 1 ELSE 0)
    BY <1>2, <2>1 DEF DaemonInv, DaemonTypeOK
  <2>3. Reading(j)' = Reading(j) \ {w}
    BY <1>1, Released DEF DaemonInv
  <2>4. b /\ job[w].ip = j => w \in Reading(j)
    BY <1>1, <1>2 DEF Reading
  <2>5. /\ Cardinality(Reading(j) \ {w}) \in Nat
        /\ Cardinality(Reading(j) \ {w}) <= Cardinality(Reading(j))
        /\ w \in Reading(j) =>
             Cardinality(Reading(j) \ {w}) = Cardinality(Reading(j)) - 1
    <3>1. IsFiniteSet(Reading(j)) /\ Cardinality(Reading(j)) \in Nat
      BY ReadingFinite
    <3>2. IsFiniteSet(Reading(j) \ {w})
      BY <3>1, FS_RemoveElement
    <3>3. Cardinality(Reading(j) \ {w}) = IF w \in Reading(j)
            THEN Cardinality(Reading(j)) - 1 ELSE Cardinality(Reading(j))
      BY <3>1, FS_RemoveElement
    <3>. QED  BY <3>1, <3>2, <3>3, FS_CardinalityType
  <2>6. count'[j] = count[j] /\ count[j] + Cardinality(Workers) \in Int
    <3>1. count[j] \in Nat
      BY DEF TypeOK
    <3>. QED  BY <1>1, <3>1, ReadingFinite
  <2>7. evaluated[j] + Cardinality(Reading(j)) <= count[j] + Cardinality(Workers)
    BY DEF DaemonInv, Owed
  <2>8. Cardinality(Reading(j)) \in Nat
    BY ReadingFinite
  <2>9. CASE b /\ job[w].ip = j
    BY <2>1, <2>2, <2>3, <2>4, <2>5, <2>6, <2>7, <2>8, <2>9
  <2>10. CASE ~(b /\ job[w].ip = j)
    BY <2>1, <2>2, <2>3, <2>5, <2>6, <2>7, <2>8, <2>10
  <2>. QED  BY <2>9, <2>10
<1>. QED  BY <1>3, <1>4 DEF DaemonInv, Owed

(* A new interval begins with the requests being read still to come: they  *)
(* are at most one for each worker.                                        *)
LEMMA ObserveAllStep ==
  ASSUME TypeOK, DaemonInv, NEW i \in Ips, ObserveAll(i)
  PROVE  DaemonInv'
<1>1. DaemonTypeOK'
  BY DEF DaemonInv, DaemonTypeOK, ObserveAll
<1>2. ASSUME NEW j \in Ips
      PROVE  (evaluated[j] + Cardinality(Reading(j)) <= count[j] + Cardinality(Workers))'
  <2>1. Reading(j)' = Reading(j)
    BY DEF ObserveAll, Reading
  <2>2. CASE j = i
    <3>1. evaluated'[j] = 0 /\ count'[j] = 0
      BY <2>2 DEF ObserveAll, Observe, TypeOK, DaemonInv, DaemonTypeOK
    <3>. QED  BY <2>1, <3>1, ReadingFinite
  <2>3. CASE j # i
    <3>1. evaluated'[j] = evaluated[j] /\ count'[j] = count[j]
      BY <2>3 DEF ObserveAll, Observe, TypeOK, DaemonInv, DaemonTypeOK
    <3>. QED  BY <2>1, <3>1 DEF DaemonInv, Owed
  <2>. QED  BY <2>2, <2>3
<1>. QED  BY <1>1, <1>2 DEF DaemonInv, Owed

LEMMA UnchangedStep ==
  ASSUME DaemonInv, UNCHANGED <<count, job, evaluated>>
  PROVE  DaemonInv'
BY DEF DaemonInv, DaemonTypeOK, Owed, Reading

LEMMA StepDaemonInv == TypeOK /\ DaemonInv /\ [DaemonNext]_daemonVars => DaemonInv'
<1>. SUFFICES ASSUME TypeOK, DaemonInv, [DaemonNext]_daemonVars PROVE DaemonInv'
  OBVIOUS
<1>1. ASSUME NEW w \in Workers, NEW i \in Ips, Serve(w, i) PROVE DaemonInv'
  BY <1>1, ServeStep
<1>2. ASSUME NEW w \in Workers, Answer(w) \/ Abandon(w) PROVE DaemonInv'
  BY <1>2, ReleaseStep
<1>3. ASSUME NEW i \in Ips, ObserveAll(i) PROVE DaemonInv'
  BY <1>3, ObserveAllStep
<1>4. CASE TickAll
  BY <1>4, UnchangedStep DEF TickAll, Tick
<1>5. CASE UNCHANGED daemonVars
  BY <1>5, UnchangedStep DEF daemonVars, vars, observers
<1>. QED  BY <1>1, <1>2, <1>3, <1>4, <1>5 DEF DaemonNext

-----------------------------------------------------------------------------
(* The workers use the limiter only through allow: its behaviour in the    *)
(* daemon is the one NetLimit allows, so every theorem about it above      *)
(* holds in the daemon.                                                    *)
THEOREM DaemonUsesLimiter == DaemonSpec => Spec
<1>1. DaemonInit => Init
  BY DEF DaemonInit
<1>2. [DaemonNext]_daemonVars => [Next]_vars
  <2>. SUFFICES ASSUME [DaemonNext]_daemonVars PROVE [Next]_vars
    OBVIOUS
  <2>1. ASSUME NEW w \in Workers, Answer(w) \/ Abandon(w) PROVE UNCHANGED vars
    BY <2>1 DEF Answer, Abandon
  <2>2. ASSUME NEW w \in Workers, NEW i \in Ips, Serve(w, i) PROVE Next
    BY <2>2 DEF Serve, Next
  <2>3. ASSUME NEW i \in Ips, ObserveAll(i) PROVE Next
    BY <2>3 DEF ObserveAll, Next
  <2>4. CASE TickAll
    BY <2>4 DEF TickAll, Next
  <2>5. CASE UNCHANGED daemonVars
    BY <2>5 DEF daemonVars
  <2>. QED  BY <2>1, <2>2, <2>3, <2>4, <2>5 DEF DaemonNext
<1>. QED  BY <1>1, <1>2, PTL DEF DaemonSpec, Spec

(* However long a client takes over its request after it was admitted, an  *)
(* interval of n windows evaluates at most n + 1 allowances and one        *)
(* request for each worker (serve and handle_connection_verified).         *)
THEOREM EvaluationsAreBounded == DaemonSpec => []EvaluationsBounded
<1>1. DaemonSpec => []TypeOK /\ []IntervalBound
  BY DaemonUsesLimiter, TypeCorrect, IntervalsBounded, PTL
<1>2. DaemonSpec => []DaemonInv
  BY <1>1, InitDaemonInv, StepDaemonInv, PTL DEF DaemonSpec
<1>3. TypeOK /\ IntervalBound /\ DaemonInv => EvaluationsBounded
  <2>. SUFFICES ASSUME TypeOK, IntervalBound, DaemonInv,
                       NEW i \in Ips, NEW n \in 1..(MaxTime + 1),
                       now - since[i] <= n * Window
       PROVE  evaluated[i] <= (n + 1) * MaxPerWindow + Cardinality(Workers)
    BY DEF EvaluationsBounded
  <2>1. count[i] <= (n + 1) * MaxPerWindow
    BY DEF IntervalBound
  <2>2. evaluated[i] + Cardinality(Reading(i)) <= count[i] + Cardinality(Workers)
    BY DEF DaemonInv, Owed
  <2>3. evaluated[i] \in Nat /\ count[i] \in Nat
    BY DEF DaemonInv, DaemonTypeOK, TypeOK
  <2>4. (n + 1) * MaxPerWindow \in Nat
    BY ProductIsNat, NetLimitAssumption
  <2>. HIDE DEF Reading
  <2>. QED  BY <2>1, <2>2, <2>3, <2>4, ReadingFinite
<1>. QED  BY <1>1, <1>2, <1>3, PTL
=============================================================================
