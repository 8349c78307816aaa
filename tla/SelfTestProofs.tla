--------------------------- MODULE SelfTestProofs ---------------------------
(***************************************************************************)
(* Proofs about the self-test and the randomness it and the operations     *)
(* draw, for any threads, buffers, machines and limits.                    *)
(***************************************************************************)
EXTENDS SelfTest, SequenceTheorems, WellFoundedInduction, TLAPS

(* The checks that were passed so far are none of those the machine fails; *)
(* a report is made once, and a good one only of a machine that fails none.*)
ChecksSoFar ==
  /\ running # Nobody => verdict = "none"
  /\ running # Nobody /\ ~failed => \A i \in 1..(check - 1) : Checks[i].name \notin broken
  /\ verdict = "pass" => broken = {}

(* Whatever is in a thread's hands, or was returned, was tested.           *)
AllHealthy(buffers) == \A i \in 1..Len(buffers) : Healthy(buffers[i])

HealthyDraws ==
  \A t \in Threads : AllHealthy(drawn[t]) /\ AllHealthy(result[t].buffers)

IInv == TypeOK /\ NothingBeforeThePass /\ ChecksSoFar /\ HealthyDraws

-----------------------------------------------------------------------------
(* A set of numbers that has 0, and with each number the next, has all.    *)
LEMMA LeastOfNaturals ==
  ASSUME NEW T \in SUBSET Nat, T # {}
  PROVE  \E m \in T : \A k \in T : m <= k
<1>. DEFINE R == {p \in Nat \X Nat : p[1] < p[2]}
<1>1. IsWellFoundedOn(R, Nat)
  BY NatLessThanWellFounded DEF OpToRel
<1>2. \E m \in T : \A k \in T : ~ (<<k, m>> \in R)
  <2>. HIDE DEF R
  <2>. QED  BY <1>1, WFMin
<1>3. PICK m \in T : \A k \in T : ~ (<<k, m>> \in R)
  BY <1>2
<1>4. ASSUME NEW k \in T PROVE m <= k
  <2>1. <<k, m>> \in Nat \X Nat /\ <<k, m>>[1] = k /\ <<k, m>>[2] = m
    OBVIOUS
  <2>2. ~ (k < m)
    BY <1>3, <2>1
  <2>. QED  BY <2>2
<1>. QED  BY <1>4

LEMMA Induction ==
  ASSUME NEW T \in SUBSET Nat, 0 \in T, \A n \in T : n + 1 \in T
  PROVE  T = Nat
<1>. DEFINE C == Nat \ T
<1>. SUFFICES ASSUME C # {} PROVE FALSE
  OBVIOUS
<1>1. PICK m \in C : \A k \in C : m <= k
  BY LeastOfNaturals
<1>2. m # 0 /\ m - 1 \in Nat /\ m - 1 \notin C
  BY <1>1
<1>. QED  BY <1>1, <1>2

(* One step of the count of Streak.                                        *)
Counts(m, f, n) ==
  \A i \in 1..n : f[i] = IF i > 1 /\ m[i] = m[i - 1] THEN f[i - 1] + 1 ELSE 1

(* The count is well defined.                                              *)
LEMMA CountExists ==
  ASSUME NEW m, NEW n \in Nat
  PROVE  \E f \in [1..n -> Nat] : Counts(m, f, n)
<1>. DEFINE T == {k \in Nat : \E f \in [1..k -> Nat] : Counts(m, f, k)}
<1>1. 0 \in T
  <2>1. [i \in 1..0 |-> 0] \in [1..0 -> Nat] /\ Counts(m, [i \in 1..0 |-> 0], 0)
    BY DEF Counts
  <2>. QED  BY <2>1
<1>2. ASSUME NEW k \in T PROVE k + 1 \in T
  <2>1. PICK f \in [1..k -> Nat] : Counts(m, f, k)
    OBVIOUS
  <2>. DEFINE g == [i \in 1..(k + 1) |->
                     IF i <= k THEN f[i]
                     ELSE IF i > 1 /\ m[i] = m[i - 1] THEN f[i - 1] + 1 ELSE 1]
  <2>2. g \in [1..(k + 1) -> Nat]
    OBVIOUS
  <2>3. ASSUME NEW i \in 1..(k + 1)
        PROVE  g[i] = IF i > 1 /\ m[i] = m[i - 1] THEN g[i - 1] + 1 ELSE 1
    <3>1. i > 1 => i - 1 \in 1..k /\ g[i - 1] = f[i - 1]
      OBVIOUS
    <3>2. CASE i <= k
      <4>1. i \in 1..k /\ g[i] = f[i]
        BY <3>2
      <4>2. f[i] = IF i > 1 /\ m[i] = m[i - 1] THEN f[i - 1] + 1 ELSE 1
        BY <2>1, <4>1 DEF Counts
      <4>. QED  BY <3>1, <4>1, <4>2
    <3>3. CASE ~(i <= k)
      <4>1. g[i] = IF i > 1 /\ m[i] = m[i - 1] THEN f[i - 1] + 1 ELSE 1
        BY <3>3
      <4>. QED  BY <3>1, <4>1
    <3>. QED  BY <3>2, <3>3
  <2>4. Counts(m, g, k + 1)
    BY <2>3 DEF Counts
  <2>5. k + 1 \in Nat
    OBVIOUS
  <2>. QED  BY <2>2, <2>4, <2>5
<1>3. T = Nat
  <2>. HIDE DEF T
  <2>1. T \in SUBSET Nat
    BY DEF T
  <2>. QED  BY <1>1, <1>2, <2>1, Induction
<1>. QED  BY <1>3

LEMMA StreakCounts ==
  ASSUME NEW m \in Seq(Nat)
  PROVE  Counts(m, Streak(m), Len(m))
<1>. DEFINE n == Len(m)
            Onward(f) == [i \in 1..n |-> IF i > 1 /\ m[i] = m[i - 1] THEN f[i - 1] + 1 ELSE 1]
<1>1. n \in Nat
  BY LenProperties
<1>2. PICK f \in [1..n -> Nat] : Counts(m, f, n)
  BY <1>1, CountExists
<1>3. f = Onward(f)
  BY <1>2 DEF Counts
<1>4. Streak(m) = CHOOSE g : g = Onward(g)
  BY DEF Streak
<1>5. Streak(m) = Onward(Streak(m))
  <2>. HIDE DEF Onward
  <2>. QED  BY <1>3, <1>4
<1>. QED  BY <1>5 DEF Counts

LEMMA StreakType ==
  ASSUME NEW m \in Seq(Nat), NEW i \in 1..Len(m)
  PROVE  Streak(m)[i] \in Nat /\ Streak(m)[i] >= 1
<1>. DEFINE s == Streak(m)
            T == {k \in Nat : k + 1 <= Len(m) => s[k + 1] \in Nat /\ s[k + 1] >= 1}
<1>1. Len(m) \in Nat /\ Counts(m, s, Len(m))
  BY LenProperties, StreakCounts
<1>. HIDE DEF s
<1>2. 0 \in T
  BY <1>1 DEF Counts
<1>3. ASSUME NEW k \in T PROVE k + 1 \in T
  <2>. SUFFICES ASSUME (k + 1) + 1 <= Len(m)
                PROVE  s[(k + 1) + 1] \in Nat /\ s[(k + 1) + 1] >= 1
    OBVIOUS
  <2>1. s[k + 1] \in Nat
    BY <1>1
  <2>2. (k + 1) + 1 \in 1..Len(m) /\ ((k + 1) + 1) - 1 = k + 1
    BY <1>1
  <2>. QED  BY <1>1, <2>1, <2>2 DEF Counts
<1>4. T = Nat
  <2>1. T \in SUBSET Nat
    OBVIOUS
  <2>. HIDE DEF T
  <2>. QED  BY <1>2, <1>3, <2>1, Induction
<1>5. i - 1 \in Nat /\ (i - 1) + 1 = i /\ i <= Len(m)
  BY <1>1
<1>6. i - 1 \in T
  <2>. HIDE DEF T
  <2>. QED  BY <1>4, <1>5
<1>7. s[(i - 1) + 1] \in Nat /\ s[(i - 1) + 1] >= 1
  BY <1>5, <1>6
<1>. QED  BY <1>5, <1>7 DEF s

(* The test finds every run of equal bytes that is long enough, wherever   *)
(* it begins (aleatorio.rs).                                               *)
THEOREM HealthyNeverStuck ==
  ASSUME NEW m \in Seq(Nat), Healthy(m)
  PROVE  ~ Stuck(m)
<1>. SUFFICES ASSUME NEW i \in 1..(Len(m) + 1 - Repetition),
                     \A j \in i..(i + Repetition - 1) : m[j] = m[i]
              PROVE  FALSE
  BY DEF Stuck
<1>. DEFINE s == Streak(m)
            T == {k \in Nat : k < Repetition => s[i + k] >= k + 1}
<1>. USE EntropyAssumption
<1>1. Len(m) \in Nat /\ Counts(m, s, Len(m)) /\ \A j \in 1..Len(m) : s[j] \in Nat /\ s[j] >= 1
  BY LenProperties, StreakCounts, StreakType
<1>. HIDE DEF s
<1>2. 0 \in T
  BY <1>1
<1>3. ASSUME NEW k \in T PROVE k + 1 \in T
  <2>. SUFFICES ASSUME k + 1 < Repetition
                PROVE  s[i + (k + 1)] >= (k + 1) + 1
    OBVIOUS
  <2>1. s[i + k] >= k + 1
    OBVIOUS
  <2>2. /\ i + k \in 1..Len(m) /\ i + (k + 1) \in 1..Len(m)
        /\ i + (k + 1) > 1 /\ (i + (k + 1)) - 1 = i + k
        /\ i + k \in i..(i + Repetition - 1) /\ i + (k + 1) \in i..(i + Repetition - 1)
    BY <1>1
  <2>3. m[i + (k + 1)] = m[i + k]
    BY <2>2
  <2>4. s[i + (k + 1)] = s[i + k] + 1
    BY <1>1, <2>2, <2>3 DEF Counts
  <2>. QED  BY <1>1, <2>1, <2>2, <2>4
<1>4. T = Nat
  <2>1. T \in SUBSET Nat
    OBVIOUS
  <2>. HIDE DEF T
  <2>. QED  BY <1>2, <1>3, <2>1, Induction
<1>5. Repetition - 1 \in T
  <2>. HIDE DEF T
  <2>. QED  BY <1>4
<1>6. s[i + (Repetition - 1)] >= (Repetition - 1) + 1
  BY <1>5
<1>7. i + (Repetition - 1) \in 1..Len(m)
  BY <1>1
<1>8. s[i + (Repetition - 1)] < Repetition
  BY <1>7 DEF Healthy, s
<1>9. s[i + (Repetition - 1)] \in Nat
  BY <1>1, <1>7
<1>. QED  BY <1>6, <1>8, <1>9

-----------------------------------------------------------------------------
(* Every check of the list draws three buffers at most.                    *)
Names == {"hkdf", "argon2id", "subkey", "seal", "open", "tampered", "other_aad",
          "kem_pair", "kem_other_key", "sign_pair", "sign_forged", "sign_other",
          "rng", "ct_eq"}

Listed == [name : Names, draws : 0..3, expects : BOOLEAN]

LEMMA Joined ==
  ASSUME NEW S, NEW a \in Seq(S), NEW b \in Seq(S)
  PROVE  /\ a \o b \in Seq(S) /\ Len(a \o b) \in Nat
         /\ Len(a \o b) >= Len(a)
<1>1. a \o b \in Seq(S) /\ Len(a \o b) = Len(a) + Len(b)
  BY ConcatProperties
<1>2. Len(a) \in Nat /\ Len(b) \in Nat
  BY LenProperties
<1>. QED  BY <1>1, <1>2

LEMMA ChecksType ==
  /\ Checks \in Seq(Listed) /\ Len(Checks) \in Nat /\ Len(Checks) >= 1
  /\ \A i \in 1..Len(Checks) : Checks[i].draws \in 0..3 /\ Checks[i].expects \in BOOLEAN
<1>1. KnownAnswers \in Seq(Listed) /\ Len(KnownAnswers) = 7
  BY DEF KnownAnswers, Check, Listed, Names
<1>2. KemChecks \in Seq(Listed)
  BY DEF KemChecks, Check, Listed, Names
<1>3. SignChecks \in Seq(Listed)
  BY DEF SignChecks, Check, Listed, Names
<1>4. << Check("rng", 2, FALSE), Check("ct_eq", 0, FALSE) >> \in Seq(Listed)
  BY DEF Check, Listed, Names
<1>5. Checks \in Seq(Listed) /\ Len(Checks) >= 1 /\ Len(Checks) \in Nat
  <2>. DEFINE early == KnownAnswers \o KemChecks
              first == early \o SignChecks
              last == << Check("rng", 2, FALSE), Check("ct_eq", 0, FALSE) >>
  <2>1. Checks = first \o last
    BY DEF Checks
  <2>2. last \in Seq(Listed)
    BY <1>4
  <2>3. early \in Seq(Listed) /\ Len(early) \in Nat /\ Len(early) >= Len(KnownAnswers)
    BY <1>1, <1>2, Joined
  <2>. HIDE DEF early, last
  <2>4. first \in Seq(Listed) /\ Len(first) \in Nat /\ Len(first) >= Len(early)
    BY <1>3, <2>3, Joined
  <2>. HIDE DEF first
  <2>5. first \o last \in Seq(Listed) /\ Len(first \o last) \in Nat /\ Len(first \o last) >= Len(first)
    BY <2>2, <2>4, Joined
  <2>6. Len(KnownAnswers) = 7
    BY <1>1
  <2>. QED  BY <2>1, <2>3, <2>4, <2>5, <2>6
<1>6. ASSUME NEW i \in 1..Len(Checks)
      PROVE  Checks[i].draws \in 0..3 /\ Checks[i].expects \in BOOLEAN
  <2>1. Checks[i] \in Listed
    BY <1>5, ElementOfSeq
  <2>. QED  BY <2>1 DEF Listed
<1>. QED  BY <1>5, <1>6
-----------------------------------------------------------------------------
LEMMA Initially == Init => IInv
<1>. SUFFICES ASSUME Init PROVE IInv
  OBVIOUS
<1>1. TypeOK
  <2>1. Decode \in Operations
    BY DEF Operations
  <2>2. 1 \in 1..(Len(Checks) + 1)
    BY ChecksType
  <2>3. <<>> \in Seq(Buffers) /\ Len(<<>>) = 0
    BY EmptySeq
  <2>4. 0 \in 0..(Attempts - 1)
    BY EntropyAssumption
  <2>5. Result("none", <<>>) \in [end : {"none", "done", "error", "panicked"},
                                  buffers : Seq(Buffers)]
    BY <2>3 DEF Result
  <2>6. \A t \in Threads : Len(drawn[t]) <= 3 /\ (pc[t] = "test" <=> running = t)
    BY <2>3, SelfTestAssumption DEF Init
  <2>. QED  BY <2>1, <2>2, <2>3, <2>4, <2>5, <2>6 DEF Init, TypeOK
<1>2. NothingBeforeThePass /\ ChecksSoFar
  BY DEF Init, NothingBeforeThePass, ChecksSoFar
<1>3. HealthyDraws
  BY DEF Init, HealthyDraws, AllHealthy, Result
<1>. QED  BY <1>1, <1>2, <1>3 DEF IInv

(* What a thread draws for asks for three buffers at most.                 *)
LEMMA CurrentType ==
  ASSUME TypeOK, NEW t \in Threads, pc[t] = "work" \/ check <= Len(Checks)
  PROVE  Current(t).draws \in 0..3 /\ Current(t).expects \in BOOLEAN
<1>1. CASE pc[t] = "test"
  <2>1. check \in 1..Len(Checks)
    BY <1>1, ChecksType DEF TypeOK
  <2>. QED  BY <1>1, <2>1, ChecksType DEF Current
<1>2. CASE pc[t] # "test"
  <2>1. op[t] \in Operations
    BY DEF TypeOK
  <2>2. \A o \in Operations : o.draws \in 0..3
    BY DEF Operations, KemKeypair, SignKeypair, Encode, Decode, Check
  <2>3. \A o \in Operations : o.expects \in BOOLEAN
    <3>1. \A o \in Operations : o.expects = TRUE \/ o.expects = FALSE
      BY DEF Operations, KemKeypair, SignKeypair, Encode, Decode, Check
    <3>. QED  BY <3>1
  <2>. QED  BY <1>2, <2>1, <2>2, <2>3 DEF Current
<1>. QED  BY <1>1, <1>2

LEMMA CallStep ==
  ASSUME IInv, NEW t \in Threads, NEW o \in Operations, Call(t, o)
  PROVE  IInv'
<1>1. TypeOK'
  BY DEF IInv, TypeOK, Call
<1>2. NothingBeforeThePass' /\ ChecksSoFar'
  BY DEF IInv, TypeOK, Call, NothingBeforeThePass, ChecksSoFar
<1>3. HealthyDraws'
  BY DEF IInv, Call, HealthyDraws
<1>. QED  BY <1>1, <1>2, <1>3 DEF IInv

LEMMA ProceedStep ==
  ASSUME IInv, NEW t \in Threads, Proceed(t)
  PROVE  IInv'
<1>1. TypeOK'
  BY DEF IInv, TypeOK, Proceed
<1>2. NothingBeforeThePass' /\ ChecksSoFar'
  <2>1. broken = {} /\ broken' = {} /\ verdict' = "pass"
    BY DEF IInv, Proceed, ChecksSoFar
  <2>. QED  BY <2>1 DEF IInv, TypeOK, Proceed, NothingBeforeThePass, ChecksSoFar
<1>3. HealthyDraws'
  BY DEF IInv, Proceed, HealthyDraws
<1>. QED  BY <1>1, <1>2, <1>3 DEF IInv

LEMMA BeginStep ==
  ASSUME IInv, NEW t \in Threads, Begin(t)
  PROVE  IInv'
<1>1. TypeOK'
  <2>1. 1 \in 1..(Len(Checks) + 1)
    BY ChecksType
  <2>2. \A u \in Threads : Len(drawn'[u]) <= 3
    BY DEF IInv, TypeOK, Begin
  <2>3. ASSUME NEW u \in Threads PROVE pc'[u] = "test" <=> running' = u
    <3>1. pc[u] # "test"
      BY SelfTestAssumption DEF IInv, TypeOK, Begin
    <3>2. pc'[u] = IF u = t THEN "test" ELSE pc[u]
      BY DEF IInv, TypeOK, Begin
    <3>. QED  BY <3>1, <3>2 DEF Begin
  <2>. QED  BY <2>1, <2>2, <2>3 DEF IInv, TypeOK, Begin
<1>2. NothingBeforeThePass' /\ ChecksSoFar'
  BY DEF IInv, TypeOK, Begin, NothingBeforeThePass, ChecksSoFar
<1>3. HealthyDraws'
  BY DEF IInv, Begin, HealthyDraws
<1>. QED  BY <1>1, <1>2, <1>3 DEF IInv

(* A call that returns leaves get_or_init, if it was inside.               *)
LEMMA ReturnStep ==
  ASSUME IInv, NEW t \in Threads,
         NEW end \in {"none", "done", "error", "panicked"}, NEW buffers \in Seq(Buffers),
         AllHealthy(buffers), Return(t, Result(end, buffers)),
         running' = IF running = t THEN Nobody ELSE running,
         UNCHANGED <<verdict, check, failed>>
  PROVE  IInv'
<1>1. TypeOK'
  <2>1. Result(end, buffers) \in [end : {"none", "done", "error", "panicked"},
                                  buffers : Seq(Buffers)]
    BY DEF Result
  <2>2. <<>> \in Seq(Buffers) /\ Len(<<>>) = 0
    BY EmptySeq
  <2>3. 0 \in 0..(Attempts - 1)
    BY EntropyAssumption
  <2>. QED  BY <2>1, <2>2, <2>3, SelfTestAssumption DEF IInv, TypeOK, Return
<1>2. NothingBeforeThePass' /\ ChecksSoFar'
  BY DEF IInv, TypeOK, Return, NothingBeforeThePass, ChecksSoFar
<1>3. HealthyDraws'
  <2>1. AllHealthy(<<>>)
    BY DEF AllHealthy
  <2>2. AllHealthy(Result(end, buffers).buffers)
    BY DEF Result
  <2>3. ASSUME NEW u \in Threads
        PROVE  AllHealthy(drawn'[u]) /\ AllHealthy(result'[u].buffers)
    BY <2>1, <2>2 DEF IInv, TypeOK, Return, HealthyDraws
  <2>. QED  BY <2>3 DEF HealthyDraws, AllHealthy
<1>. QED  BY <1>1, <1>2, <1>3 DEF IInv

(* A check that went well is one the machine does not fail.                *)
LEMMA CheckedStep ==
  ASSUME IInv, NEW t \in Threads, NEW ok \in BOOLEAN,
         pc[t] = "test", check <= Len(Checks), Checked(t, ok),
         ok => Checks[check].name \notin broken
  PROVE  IInv'
<1>1. TypeOK'
  <2>1. check + 1 \in 1..(Len(Checks) + 1)
    BY ChecksType DEF IInv, TypeOK
  <2>2. <<>> \in Seq(Buffers) /\ Len(<<>>) = 0
    BY EmptySeq
  <2>3. 0 \in 0..(Attempts - 1)
    BY EntropyAssumption
  <2>4. (failed \/ ~ok) \in BOOLEAN
    OBVIOUS
  <2>. QED  BY <2>1, <2>2, <2>3, <2>4 DEF IInv, TypeOK, Checked
<1>2. NothingBeforeThePass'
  BY DEF IInv, Checked, NothingBeforeThePass
<1>3. ChecksSoFar'
  <2>1. ASSUME running # Nobody, ~failed, ok, NEW i \in 1..((check + 1) - 1)
        PROVE  Checks[i].name \notin broken
    <3>1. check \in Int
      BY ChecksType DEF IInv, TypeOK
    <3>2. i = check \/ i \in 1..(check - 1)
      BY <3>1
    <3>. QED  BY <2>1, <3>2 DEF IInv, ChecksSoFar
  <2>. QED  BY <2>1 DEF IInv, Checked, ChecksSoFar
<1>4. HealthyDraws'
  <2>1. AllHealthy(<<>>)
    BY DEF AllHealthy
  <2>2. ASSUME NEW u \in Threads
        PROVE  AllHealthy(drawn'[u]) /\ AllHealthy(result'[u].buffers)
    BY <2>1 DEF IInv, TypeOK, Checked, HealthyDraws
  <2>. QED  BY <2>2 DEF HealthyDraws, AllHealthy
<1>. QED  BY <1>1, <1>2, <1>3, <1>4 DEF IInv

(* Without randomness the check fails or the call ends.                    *)
LEMMA NotDrawnStep ==
  ASSUME IInv, NEW t \in Threads, Drawing(t), NotDrawn(t)
  PROVE  IInv'
<1>1. pc[t] = "test" => check <= Len(Checks)
  BY DEF Drawing
<1>2. CASE pc[t] = "test" /\ ~Current(t).expects
  <2>1. Checked(t, FALSE)
    BY <1>2 DEF NotDrawn
  <2>. QED  BY <1>1, <1>2, <2>1, CheckedStep
<1>3. CASE ~(pc[t] = "test" /\ ~Current(t).expects)
  <2>1. PICK end \in {"error", "panicked"} : Return(t, Result(end, <<>>))
    BY <1>3 DEF NotDrawn
  <2>2. <<>> \in Seq(Buffers) /\ AllHealthy(<<>>)
    BY EmptySeq DEF AllHealthy
  <2>3. /\ running' = IF running = t THEN Nobody ELSE running
        /\ UNCHANGED <<verdict, check, failed>>
    BY <1>3 DEF NotDrawn
  <2>. QED  BY <2>1, <2>2, <2>3, ReturnStep
<1>. QED  BY <1>2, <1>3

LEMMA DeliverStep ==
  ASSUME IInv, NEW t \in Threads, Deliver(t)
  PROVE  IInv'
<1>1. PICK b \in Buffers : IF Healthy(b) THEN Drawn(t, b) ELSE NotDrawn(t)
  BY DEF Deliver
<1>2. Drawing(t)
  BY DEF Deliver
<1>3. CASE ~Healthy(b)
  BY <1>1, <1>2, <1>3, NotDrawnStep
<1>4. CASE Healthy(b)
  <2>1. Drawn(t, b)
    BY <1>1, <1>4
  <2>2. drawn[t] \in Seq(Buffers) /\ Len(drawn[t]) < 3 /\ Len(drawn[t]) \in Nat
    <3>1. Current(t).draws \in 0..3
      BY <1>2, CurrentType DEF IInv, Drawing
    <3>2. drawn[t] \in Seq(Buffers) /\ Len(drawn[t]) \in Nat
      BY LenProperties DEF IInv, TypeOK
    <3>. QED  BY <1>2, <3>1, <3>2 DEF Drawing
  <2>3. /\ Append(drawn[t], b) \in Seq(Buffers)
        /\ Len(Append(drawn[t], b)) = Len(drawn[t]) + 1
        /\ \A i \in 1..Len(drawn[t]) : Append(drawn[t], b)[i] = drawn[t][i]
        /\ Append(drawn[t], b)[Len(drawn[t]) + 1] = b
    BY <2>2, AppendProperties
  <2>4. drawn' = [drawn EXCEPT ![t] = Append(drawn[t], b)]
    BY <2>1 DEF Drawn
  <2>5. TypeOK'
    <3>1. 0 \in 0..(Attempts - 1)
      BY EntropyAssumption
    <3>2. Len(Append(drawn[t], b)) <= 3
      BY <2>2, <2>3
    <3>3. \A u \in Threads : Len(drawn'[u]) <= 3
      BY <2>4, <3>2 DEF IInv, TypeOK
    <3>4. drawn' \in [Threads -> Seq(Buffers)]
      BY <2>3, <2>4 DEF IInv, TypeOK
    <3>. QED  BY <2>1, <3>1, <3>3, <3>4 DEF IInv, TypeOK, Drawn
  <2>6. NothingBeforeThePass' /\ ChecksSoFar'
    BY <2>1 DEF IInv, Drawn, NothingBeforeThePass, ChecksSoFar
  <2>7. HealthyDraws'
    <3>1. AllHealthy(Append(drawn[t], b))
      <4>1. AllHealthy(drawn[t])
        BY DEF IInv, HealthyDraws
      <4>2. ASSUME NEW i \in 1..(Len(drawn[t]) + 1)
            PROVE  Healthy(Append(drawn[t], b)[i])
        <5>1. CASE i \in 1..Len(drawn[t])
          BY <2>3, <4>1, <5>1 DEF AllHealthy
        <5>2. CASE i = Len(drawn[t]) + 1
          BY <1>4, <2>3, <5>2
        <5>. QED  BY <2>2, <5>1, <5>2
      <4>. QED  BY <2>3, <4>2 DEF AllHealthy
    <3>2. ASSUME NEW u \in Threads
          PROVE  AllHealthy(drawn'[u]) /\ AllHealthy(result'[u].buffers)
      BY <2>1, <2>4, <3>1 DEF IInv, TypeOK, Drawn, HealthyDraws
    <3>. QED  BY <3>2 DEF HealthyDraws, AllHealthy
  <2>. QED  BY <2>5, <2>6, <2>7 DEF IInv
<1>. QED  BY <1>3, <1>4

LEMMA BusyStep ==
  ASSUME IInv, NEW t \in Threads, Busy(t)
  PROVE  IInv'
<1>1. CASE ~WorthRetrying(tries[t])
  <2>1. Drawing(t) /\ NotDrawn(t)
    BY <1>1 DEF Busy
  <2>. QED  BY <2>1, NotDrawnStep
<1>2. CASE WorthRetrying(tries[t])
  <2>1. tries[t] + 1 \in 0..(Attempts - 1)
    BY <1>2, EntropyAssumption DEF WorthRetrying, IInv, TypeOK
  <2>2. /\ tries' = [tries EXCEPT ![t] = @ + 1]
        /\ UNCHANGED <<broken, verdict, running, pc, op, check, failed, drawn, result>>
    BY <1>2 DEF Busy
  <2>3. TypeOK'
    BY <2>1, <2>2 DEF IInv, TypeOK
  <2>4. NothingBeforeThePass' /\ ChecksSoFar' /\ HealthyDraws'
    BY <2>2 DEF IInv, NothingBeforeThePass, ChecksSoFar, HealthyDraws
  <2>. QED  BY <2>3, <2>4 DEF IInv
<1>. QED  BY <1>1, <1>2

LEMMA ConcludeStep ==
  ASSUME IInv, NEW t \in Threads, Conclude(t)
  PROVE  IInv'
<1>1. PICK ok \in BOOLEAN : Checked(t, ok) /\ (ok => Checks[check].name \notin broken)
  BY DEF Conclude
<1>2. pc[t] = "test" /\ check <= Len(Checks)
  BY DEF Conclude
<1>. QED  BY <1>1, <1>2, CheckedStep

(* A good report is made of a machine that fails none of the checks.       *)
LEMMA ReportStep ==
  ASSUME IInv, NEW t \in Threads, Report(t)
  PROVE  IInv'
<1>1. running = t /\ verdict = "none" /\ Nobody \notin Threads
  BY SelfTestAssumption DEF IInv, TypeOK, Report, ChecksSoFar
<1>2. ~failed => broken = {}
  <2>. SUFFICES ASSUME ~failed, NEW name \in broken PROVE FALSE
    OBVIOUS
  <2>1. PICK i \in 1..Len(Checks) : name = Checks[i].name
    BY SelfTestAssumption DEF IInv, TypeOK
  <2>2. i \in 1..(check - 1)
    BY ChecksType DEF IInv, TypeOK, Report
  <2>. QED  BY <1>1, <2>1, <2>2 DEF IInv, ChecksSoFar
<1>3. TypeOK'
  <2>1. ASSUME NEW u \in Threads PROVE pc'[u] = "test" <=> running' = u
    BY <1>1 DEF IInv, TypeOK, Report
  <2>. QED  BY <2>1 DEF IInv, TypeOK, Report
<1>4. NothingBeforeThePass'
  BY <1>1 DEF IInv, TypeOK, Report, NothingBeforeThePass
<1>5. ChecksSoFar'
  BY <1>2 DEF IInv, Report, ChecksSoFar
<1>6. HealthyDraws'
  BY DEF IInv, Report, HealthyDraws
<1>. QED  BY <1>3, <1>4, <1>5, <1>6 DEF IInv

LEMMA DoneStep ==
  ASSUME IInv, NEW t \in Threads, Done(t)
  PROVE  IInv'
<1>1. Return(t, Result("done", drawn[t])) /\ UNCHANGED <<verdict, running, check, failed>>
  BY DEF Done
<1>2. running # t
  BY DEF IInv, TypeOK, Done
<1>3. drawn[t] \in Seq(Buffers) /\ AllHealthy(drawn[t])
  BY DEF IInv, TypeOK, HealthyDraws
<1>. QED  BY <1>1, <1>2, <1>3, ReturnStep

LEMMA AbortStep ==
  ASSUME IInv, NEW t \in Threads, Abort(t)
  PROVE  IInv'
<1>1. Return(t, Result("panicked", <<>>)) /\ UNCHANGED <<verdict, running, check, failed>>
  BY DEF Abort
<1>2. running # t
  BY DEF IInv, TypeOK, Abort
<1>3. <<>> \in Seq(Buffers) /\ AllHealthy(<<>>)
  BY EmptySeq DEF AllHealthy
<1>. QED  BY <1>1, <1>2, <1>3, ReturnStep

LEMMA Inductive == IInv /\ [Next]_vars => IInv'
<1>. SUFFICES ASSUME IInv, [Next]_vars PROVE IInv'
  OBVIOUS
<1>1. CASE UNCHANGED vars
  <2>1. TypeOK'
    BY <1>1 DEF IInv, TypeOK, vars
  <2>2. NothingBeforeThePass' /\ ChecksSoFar' /\ HealthyDraws'
    BY <1>1 DEF IInv, NothingBeforeThePass, ChecksSoFar, HealthyDraws, vars
  <2>. QED  BY <2>1, <2>2 DEF IInv
<1>2. ASSUME NEW t \in Threads, Step(t) PROVE IInv'
  <2>1. CASE Refuse(t)
    BY <2>1, NotDrawnStep DEF Refuse
  <2>. QED  BY <1>2, <2>1, ProceedStep, AbortStep, BeginStep, DeliverStep, BusyStep,
                ConcludeStep, ReportStep, DoneStep DEF Step
<1>3. ASSUME NEW t \in Threads, NEW o \in Operations, Call(t, o) PROVE IInv'
  BY <1>3, CallStep
<1>. QED  BY <1>1, <1>2, <1>3 DEF Next

LEMMA Invariant == Spec => []IInv
BY Initially, Inductive, PTL DEF Spec

-----------------------------------------------------------------------------
(* Everything keeps to its kind, and one thread at a time runs the checks  *)
(* (OnceLock in selftest.rs).                                              *)
THEOREM TypeCorrect == Spec => []TypeOK
<1>1. IInv => TypeOK
  BY DEF IInv
<1>. QED  BY <1>1, Invariant, PTL

(* No operation works before the checks have passed, nor on a machine that *)
(* fails one of them (ensure in selftest.rs).                              *)
THEOREM NoWorkBeforeThePass == Spec => []NothingBeforeThePass
<1>1. IInv => NothingBeforeThePass
  BY DEF IInv
<1>. QED  BY <1>1, Invariant, PTL

(* No operation ends with a stuck buffer, whenever the source went bad     *)
(* (aleatorio.rs).                                                         *)
THEOREM NoStuckBytes == Spec => []NothingMadeOfStuckBytes
<1>1. ASSUME IInv PROVE NothingMadeOfStuckBytes
  <2>. SUFFICES ASSUME NEW t \in Threads, NEW i \in 1..Len(result[t].buffers)
                PROVE  ~Stuck(result[t].buffers[i])
    BY DEF NothingMadeOfStuckBytes
  <2>1. Healthy(result[t].buffers[i])
    BY <1>1 DEF IInv, HealthyDraws, AllHealthy
  <2>2. result[t].buffers \in Seq(Buffers)
    BY <1>1 DEF IInv, TypeOK
  <2>3. result[t].buffers[i] \in Seq(Nat)
    BY <2>2, ElementOfSeq, EntropyAssumption
  <2>. QED  BY <2>1, <2>3, HealthyNeverStuck
<1>. QED  BY <1>1, Invariant, PTL
=============================================================================
