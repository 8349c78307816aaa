-------------------------- MODULE OprfDaemonProofs --------------------------
(***************************************************************************)
(* Proofs about the pool of the network daemon, for any clients and        *)
(* workers, lengths of request and reply, and timeout.                     *)
(***************************************************************************)
EXTENDS OprfDaemon, SequenceTheorems, FiniteSetTheorems, TLAPS

(* The mutex of the channel is held by the worker that waits to receive.   *)
LockHeldToReceive == \A w \in Workers : rxLock = w <=> pc[w] = "receive"

(* The bytes moved have paid for the time a worker has been held, and the  *)
(* wait under way is paid by the byte it waits for.                        *)
PaidByBytes(w) ==
  /\ held[w] + left[w] <= moved[w] * Timeout + Timeout
  /\ moved[w] = Request + Reply => left[w] = Timeout

TimePaid ==
  \A w \in Workers : /\ pc[w] = "limit" => held[w] = 0 /\ moved[w] = 0
                     /\ pc[w] = "talk" => PaidByBytes(w)

IInv == TypeOK /\ LockHeldToReceive /\ TimePaid

(* The queue holds the connections that wait, once each; the workers hold  *)
(* those being served, one each.                                           *)
Queued ==
  /\ \A i, j \in 1..Len(queue) : queue[i] = queue[j] => i = j
  /\ \A c \in Conns : conn[c] = "queued" <=> \E i \in 1..Len(queue) : queue[i] = c

Served ==
  /\ \A w \in Workers : job[w] # Nobody <=> Serving(w)
  /\ \A v, w \in Workers : job[v] = job[w] /\ job[v] # Nobody => v = w
  /\ \A c \in Conns : conn[c] = "served" <=> \E w \in Workers : job[w] = c

Placed == Queued /\ Served

-----------------------------------------------------------------------------
LEMMA ProductIsNat ==
  ASSUME NEW a \in Nat, NEW b \in Nat
  PROVE  a * b \in Nat
BY SMT

(* More bytes pay for more time.                                           *)
LEMMA MoreBytesPayMore ==
  ASSUME NEW a \in Nat, NEW n \in Nat \ {0}, NEW t \in Nat
  PROVE  a * t + t <= (a + n) * t
<1>1. PICK k \in Nat : n = k + 1
  <2>1. n - 1 \in Nat /\ n = (n - 1) + 1
    BY SMT
  <2>. QED  BY <2>1
<1>2. (a + n) * t = a * t + t + k * t
  BY <1>1, SMT
<1>3. k * t \in Nat /\ a * t \in Nat
  BY <1>1, ProductIsNat
<1>. QED  BY <1>2, <1>3, SMT

LEMMA BytesBounded ==
  ASSUME NEW a \in Nat, NEW b \in Nat, a < b, NEW t \in Nat
  PROVE  a * t + t <= b * t
<1>1. b - a \in Nat \ {0} /\ a + (b - a) = b
  BY SMT
<1>. QED  BY <1>1, MoreBytesPayMore

-----------------------------------------------------------------------------
LEMMA Initially == Init => IInv
<1>. SUFFICES ASSUME Init PROVE IInv
  OBVIOUS
<1>. USE DaemonAssumption DEF Init
<1>1. TypeOK
  BY SMT DEF TypeOK
<1>2. LockHeldToReceive
  BY DEF LockHeldToReceive
<1>3. TimePaid
  BY DEF TimePaid
<1>. QED  BY <1>1, <1>2, <1>3 DEF IInv

LEMMA EndInductive ==
  ASSUME IInv, NEW w \in Workers, pc[w] = "talk", End(w)
  PROVE  IInv'
<1>. USE DaemonAssumption DEF IInv, End
<1>1. TypeOK'
  BY DEF TypeOK
<1>2. LockHeldToReceive'
  BY DEF LockHeldToReceive, TypeOK
<1>3. TimePaid'
  BY DEF TimePaid, PaidByBytes, TypeOK
<1>. QED  BY <1>1, <1>2, <1>3

LEMMA MoveInductive ==
  ASSUME IInv, NEW w \in Workers, NEW n \in Nat \ {0}, pc[w] = "talk",
         moved[w] + n <= Request + Reply, Move(w, n)
  PROVE  IInv'
<1>. USE DaemonAssumption DEF IInv, Move
<1>1. /\ moved[w] \in Nat /\ moved[w] + n \in 0..(Request + Reply)
      /\ left[w] \in Nat /\ held[w] \in Nat
  BY SMT DEF TypeOK
<1>2. TypeOK'
  BY <1>1, SMT DEF TypeOK
<1>3. LockHeldToReceive'
  BY DEF LockHeldToReceive
<1>4. PaidByBytes(w)'
  <2>1. held[w] + left[w] <= moved[w] * Timeout + Timeout
    BY DEF TimePaid, PaidByBytes
  <2>2. moved[w] * Timeout + Timeout <= (moved[w] + n) * Timeout
    BY <1>1, MoreBytesPayMore
  <2>3. moved[w] * Timeout \in Nat /\ (moved[w] + n) * Timeout \in Nat
    BY <1>1, ProductIsNat, SMT
  <2>4. held[w] + Timeout <= (moved[w] + n) * Timeout + Timeout
    <3>. DEFINE paid == moved[w] * Timeout
                after == (moved[w] + n) * Timeout
    <3>1. /\ paid \in Nat /\ after \in Nat /\ paid + Timeout <= after
          /\ held[w] + left[w] <= paid + Timeout
      BY <2>1, <2>2, <2>3
    <3>. HIDE DEF paid, after
    <3>2. held[w] + Timeout <= after + Timeout
      BY <1>1, <3>1, SMT
    <3>. QED  BY <3>2 DEF after
  <2>5. moved'[w] = moved[w] + n /\ left'[w] = Timeout /\ held'[w] = held[w]
    BY DEF TypeOK
  <2>. QED  BY <2>4, <2>5 DEF PaidByBytes
<1>5. TimePaid'
  BY <1>4 DEF TimePaid, PaidByBytes, TypeOK
<1>. QED  BY <1>2, <1>3, <1>5

LEMMA TickInductive ==
  ASSUME IInv, Tick
  PROVE  IInv'
<1>. USE DaemonAssumption DEF IInv, Tick
<1>1. ASSUME NEW w \in Workers, Serving(w)
      PROVE  /\ pc[w] = "talk" /\ moved[w] # Request + Reply
             /\ left[w] \in 1..Timeout /\ left[w] - 1 \in 0..Timeout
             /\ held[w] \in Nat /\ moved[w] \in Nat
  BY <1>1, SMT DEF Ready, Serving, TypeOK
<1>2. TypeOK'
  BY <1>1, SMTT(30) DEF TypeOK
<1>3. LockHeldToReceive'
  BY DEF LockHeldToReceive
<1>4. ASSUME NEW w \in Workers, pc[w] = "talk"
      PROVE  PaidByBytes(w)'
  <2>1. Serving(w)
    BY <1>4 DEF Serving
  <2>2. left'[w] = left[w] - 1 /\ held'[w] = held[w] + 1 /\ moved' = moved
    BY <2>1
  <2>3. held[w] + left[w] <= moved[w] * Timeout + Timeout
    BY <1>4 DEF TimePaid, PaidByBytes
  <2>4. moved[w] * Timeout \in Nat
    BY <1>1, <2>1, ProductIsNat
  <2>5. (held[w] + 1) + (left[w] - 1) <= moved[w] * Timeout + Timeout
    BY <1>1, <2>1, <2>3, <2>4, SMT
  <2>. QED  BY <1>1, <2>1, <2>2, <2>5 DEF PaidByBytes
<1>5. TimePaid'
  BY <1>1, <1>4 DEF TimePaid, Serving
<1>. QED  BY <1>2, <1>3, <1>5

LEMMA Inductive == IInv /\ [Next]_vars => IInv'
<1>. SUFFICES ASSUME IInv, [Next]_vars PROVE IInv'
  OBVIOUS
<1>. USE DaemonAssumption DEF IInv
<1>1. ASSUME NEW c \in Conns, Accept(c) PROVE IInv'
  <2>1. TypeOK'
    BY <1>1 DEF Accept, TypeOK
  <2>2. LockHeldToReceive' /\ TimePaid'
    BY <1>1 DEF Accept, LockHeldToReceive, TimePaid, PaidByBytes
  <2>. QED  BY <2>1, <2>2
<1>2. ASSUME NEW w \in Workers, Lock(w) PROVE IInv'
  <2>1. TypeOK'
    BY <1>2 DEF Lock, TypeOK
  <2>2. LockHeldToReceive'
    BY <1>2 DEF Lock, LockHeldToReceive, TypeOK
  <2>3. TimePaid'
    BY <1>2 DEF Lock, TimePaid, PaidByBytes, TypeOK
  <2>. QED  BY <2>1, <2>2, <2>3
<1>3. ASSUME NEW w \in Workers, Receive(w) PROVE IInv'
  <2>1. Head(queue) \in Conns /\ Tail(queue) \in Seq(Conns)
    BY <1>3, HeadTailProperties DEF Receive, TypeOK
  <2>2. TypeOK'
    BY <1>3, <2>1, SMT DEF Receive, TypeOK
  <2>3. LockHeldToReceive'
    BY <1>3 DEF Receive, LockHeldToReceive, TypeOK
  <2>4. TimePaid'
    BY <1>3 DEF Receive, TimePaid, PaidByBytes, TypeOK
  <2>. QED  BY <2>2, <2>3, <2>4
<1>4. ASSUME NEW w \in Workers, Limit(w) PROVE IInv'
  <2>1. TypeOK'
    BY <1>4, SMT DEF Limit, TypeOK
  <2>2. LockHeldToReceive'
    BY <1>4 DEF Limit, LockHeldToReceive, TypeOK
  <2>3. PaidByBytes(w)'
    <3>1. held[w] = 0 /\ moved[w] = 0
      BY <1>4 DEF Limit, TimePaid
    <3>2. held'[w] = 0 /\ moved'[w] = 0 /\ left'[w] = Timeout
      BY <1>4, <3>1 DEF Limit, TypeOK
    <3>. QED  BY <3>2, SMT DEF PaidByBytes
  <2>4. TimePaid'
    BY <1>4, <2>3 DEF Limit, TimePaid, PaidByBytes, TypeOK
  <2>. QED  BY <2>1, <2>2, <2>4
<1>5. ASSUME NEW w \in Workers, Read(w) PROVE IInv'
  <2>1. moved[w] \in Nat
    BY DEF TypeOK
  <2>2. PICK n \in 1..(Request - moved[w]) : Move(w, n)
    BY <1>5 DEF Read
  <2>3. n \in Nat \ {0} /\ moved[w] + n <= Request + Reply
    BY <2>1, SMT
  <2>. QED  BY <1>5, <2>2, <2>3, MoveInductive DEF Read
<1>6. ASSUME NEW w \in Workers, Write(w) PROVE IInv'
  <2>1. moved[w] \in Nat
    BY DEF TypeOK
  <2>2. PICK n \in 1..(Request + Reply - moved[w]) : Move(w, n)
    BY <1>6 DEF Write
  <2>3. n \in Nat \ {0} /\ moved[w] + n <= Request + Reply
    BY <2>1, SMT
  <2>. QED  BY <1>6, <2>2, <2>3, MoveInductive DEF Write
<1>7. ASSUME NEW w \in Workers, Finish(w) \/ Break(w) \/ Expire(w) PROVE IInv'
  BY <1>7, EndInductive DEF Finish, Break, Expire
<1>8. CASE Tick
  BY <1>8, TickInductive
<1>9. CASE UNCHANGED vars
  BY <1>9 DEF vars, TypeOK, LockHeldToReceive, TimePaid, PaidByBytes
<1>. QED  BY <1>1, <1>2, <1>3, <1>4, <1>5, <1>6, <1>7, <1>8, <1>9 DEF Next

LEMMA Invariant == Spec => []IInv
BY Initially, Inductive, PTL DEF Spec

-----------------------------------------------------------------------------
LEMMA QueuedInductive ==
  ASSUME IInv, Placed, [Next]_vars
  PROVE  Queued'
<1>. USE DaemonAssumption DEF IInv
<1>0. Len(queue) \in Nat /\ \A i \in 1..Len(queue) : queue[i] \in Conns
  BY ElementOfSeq, LenProperties DEF TypeOK
<1>1. ASSUME NEW c \in Conns, Accept(c) PROVE Queued'
  <2>1. /\ Len(queue') = Len(queue) + 1
        /\ \A i \in 1..Len(queue) : queue'[i] = queue[i]
        /\ queue'[Len(queue) + 1] = c
    BY <1>1, AppendProperties DEF Accept, TypeOK
  <2>2. \A i \in 1..Len(queue) : queue[i] # c
    BY <1>1 DEF Accept, Placed, Queued
  <2>3. \A i \in 1..Len(queue') : i \in 1..Len(queue) \/ i = Len(queue) + 1
    BY <1>0, <2>1, SMT
  <2>4. \A i \in 1..Len(queue) : i \in 1..Len(queue')
    BY <1>0, <2>1, SMT
  <2>5. Len(queue) + 1 \in 1..Len(queue')
    BY <1>0, <2>1, SMT
  <2>6. \A i, j \in 1..Len(queue') : queue'[i] = queue'[j] => i = j
    <3>. SUFFICES ASSUME NEW i \in 1..Len(queue'), NEW j \in 1..Len(queue'), queue'[i] = queue'[j]
                  PROVE  i = j
      OBVIOUS
    <3>1. CASE i \in 1..Len(queue) /\ j \in 1..Len(queue)
      BY <2>1, <3>1, Zenon DEF Placed, Queued
    <3>2. CASE i = Len(queue) + 1 \/ j = Len(queue) + 1
      BY <2>1, <2>2, <2>3, <3>2, Zenon
    <3>. QED  BY <2>3, <3>1, <3>2
  <2>7. \A d \in Conns : conn'[d] = "queued" <=> d = c \/ conn[d] = "queued"
    BY <1>1 DEF Accept, TypeOK
  <2>8. \A d \in Conns : conn'[d] = "queued" <=> \E i \in 1..Len(queue') : queue'[i] = d
    BY <2>1, <2>3, <2>4, <2>5, <2>7, Zenon DEF Placed, Queued
  <2>. QED  BY <2>6, <2>8 DEF Queued
<1>2. ASSUME NEW w \in Workers, Receive(w) PROVE Queued'
  <2>1. /\ queue' = Tail(queue) /\ Head(queue) = queue[1] /\ queue # <<>>
        /\ Len(Tail(queue)) = Len(queue) - 1 /\ Len(queue) # 0
        /\ \A i \in 1..Len(Tail(queue)) : Tail(queue)[i] = queue[i + 1]
    BY <1>2, HeadTailProperties, EmptySeq, SMT DEF Receive, TypeOK
  <2>2. \A i \in 1..Len(queue') : i + 1 \in 1..Len(queue) /\ i + 1 # 1 /\ queue'[i] = queue[i + 1]
    BY <1>0, <2>1, SMT
  <2>3. \A i \in 1..Len(queue) : i = 1 \/ (i - 1 \in 1..Len(queue') /\ queue'[i - 1] = queue[i])
    BY <1>0, <2>1, SMT
  <2>4. 1 \in 1..Len(queue)
    BY <1>0, <2>1, SMT
  <2>5. \A i, j \in 1..Len(queue') : queue'[i] = queue'[j] => i = j
    <3>. SUFFICES ASSUME NEW i \in 1..Len(queue'), NEW j \in 1..Len(queue'), queue'[i] = queue'[j]
                  PROVE  i = j
      OBVIOUS
    <3>1. i + 1 = j + 1
      BY <2>2 DEF Placed, Queued
    <3>. QED  BY <3>1, SMT
  <2>6. \A d \in Conns : conn'[d] = "queued" <=> d # queue[1] /\ conn[d] = "queued"
    BY <1>2, <2>1 DEF Receive, TypeOK
  <2>7. \A d \in Conns : conn'[d] = "queued" <=> \E i \in 1..Len(queue') : queue'[i] = d
    <3>. SUFFICES ASSUME NEW d \in Conns
                  PROVE  conn'[d] = "queued" <=> \E i \in 1..Len(queue') : queue'[i] = d
      OBVIOUS
    <3>1. ASSUME conn'[d] = "queued" PROVE \E i \in 1..Len(queue') : queue'[i] = d
      <4>1. PICK i \in 1..Len(queue) : queue[i] = d
        BY <2>6, <3>1 DEF Placed, Queued
      <4>. QED  BY <2>3, <2>6, <3>1, <4>1
    <3>2. ASSUME NEW i \in 1..Len(queue'), queue'[i] = d PROVE conn'[d] = "queued"
      <4>1. d = queue[i + 1] /\ i + 1 \in 1..Len(queue) /\ i + 1 # 1
        BY <2>2, <3>2
      <4>2. d # queue[1] /\ conn[d] = "queued"
        BY <2>4, <4>1, ZenonT(30) DEF Placed, Queued
      <4>. QED  BY <2>6, <4>2
    <3>. QED  BY <3>1, <3>2
  <2>. QED  BY <2>5, <2>7 DEF Queued
<1>3. ASSUME NEW w \in Workers, pc[w] = "talk", End(w) PROVE Queued'
  <2>1. job[w] \in Conns /\ conn[job[w]] = "served"
    BY <1>3 DEF Placed, Served, Serving, TypeOK
  <2>2. \A d \in Conns : conn'[d] = "queued" <=> conn[d] = "queued"
    BY <1>3, <2>1 DEF End, TypeOK
  <2>. QED  BY <1>3, <2>2 DEF End, Placed, Queued
<1>4. CASE UNCHANGED <<conn, queue>>
  BY <1>4 DEF Placed, Queued
<1>. QED  BY <1>1, <1>2, <1>3, <1>4 DEF Next, Lock, Limit, Read, Write, Move, Finish, Break, Expire, Tick, vars

LEMMA ServedInductive ==
  ASSUME IInv, Placed, [Next]_vars
  PROVE  Served'
<1>. USE DaemonAssumption DEF IInv, Serving
<1>1. ASSUME NEW c \in Conns, Accept(c) PROVE Served'
  <2>1. \A d \in Conns : conn'[d] = "served" <=> conn[d] = "served"
    BY <1>1 DEF Accept, TypeOK
  <2>. QED  BY <1>1, <2>1 DEF Accept, Placed, Served
<1>2. ASSUME NEW w \in Workers, Receive(w) PROVE Served'
  <2>. DEFINE c == Head(queue)
  <2>1. c \in Conns /\ queue[1] = c /\ 1 \in 1..Len(queue)
    BY <1>2, HeadTailProperties, EmptySeq, LenProperties, SMT DEF Receive, TypeOK
  <2>2. conn[c] = "queued" /\ \A v \in Workers : job[v] # c
    <3>. HIDE DEF c
    <3>1. conn[c] = "queued"
      BY <2>1, Zenon DEF Placed, Queued
    <3>. QED  BY <2>1, <3>1 DEF Placed, Served
  <2>3. \A v \in Workers : job'[v] = IF v = w THEN c ELSE job[v]
    BY <1>2 DEF Receive, TypeOK
  <2>4. \A v \in Workers : pc'[v] = IF v = w THEN "limit" ELSE pc[v]
    BY <1>2 DEF Receive, TypeOK
  <2>5. \A v \in Workers : job'[v] # Nobody <=> pc'[v] \in {"limit", "talk"}
    BY <2>1, <2>3, <2>4 DEF Placed, Served
  <2>6. \A v, u \in Workers : job'[v] = job'[u] /\ job'[v] # Nobody => v = u
    BY <2>2, <2>3 DEF Placed, Served
  <2>7. \A d \in Conns : conn'[d] = "served" <=> d = c \/ conn[d] = "served"
    BY <1>2 DEF Receive, TypeOK
  <2>8. job[w] = Nobody
    BY <1>2 DEF Receive, Placed, Served
  <2>9. \A d \in Conns : conn'[d] = "served" <=> \E v \in Workers : job'[v] = d
    BY <2>3, <2>7, <2>8 DEF Placed, Served
  <2>. QED  BY <2>5, <2>6, <2>9 DEF Served
<1>3. ASSUME NEW w \in Workers, pc[w] = "talk", End(w) PROVE Served'
  <2>1. \A v \in Workers : job'[v] = IF v = w THEN Nobody ELSE job[v]
    BY <1>3 DEF End, TypeOK
  <2>2. \A v \in Workers : pc'[v] = IF v = w THEN "idle" ELSE pc[v]
    BY <1>3 DEF End, TypeOK
  <2>3. job[w] \in Conns
    BY <1>3 DEF Placed, Served, TypeOK
  <2>4. \A d \in Conns : conn'[d] = "served" <=> d # job[w] /\ conn[d] = "served"
    BY <1>3, <2>3 DEF End, TypeOK
  <2>. QED  BY <2>1, <2>2, <2>3, <2>4 DEF Placed, Served
<1>4. ASSUME UNCHANGED <<conn, job>>,
             \A w \in Workers : Serving(w)' <=> Serving(w)
      PROVE  Served'
  BY <1>4 DEF Placed, Served
<1>5. ASSUME NEW w \in Workers, Lock(w) PROVE Served'
  BY <1>4, <1>5 DEF Lock, TypeOK
<1>6. ASSUME NEW w \in Workers, Limit(w) PROVE Served'
  BY <1>4, <1>6 DEF Limit, TypeOK
<1>7. CASE UNCHANGED <<conn, job, pc>>
  BY <1>4, <1>7
<1>. QED  BY <1>1, <1>2, <1>3, <1>5, <1>6, <1>7 DEF Next, Read, Write, Move, Finish, Break, Expire, Tick, vars

LEMMA PlacedInvariant == Spec => []Placed
<1>1. Init => Placed
  <2>. SUFFICES ASSUME Init PROVE Queued /\ Served
    BY DEF Placed
  <2>1. Queued
    BY EmptySeq, SMT DEF Init, Queued
  <2>2. Served
    BY DaemonAssumption DEF Init, Served, Serving
  <2>. QED  BY <2>1, <2>2
<1>2. IInv /\ Placed /\ [Next]_vars => Placed'
  BY QueuedInductive, ServedInductive DEF Placed
<1>. QED  BY <1>1, <1>2, Invariant, PTL DEF Spec

(* What holds of one element only is counted once.                         *)
LEMMA CountedOnce ==
  ASSUME NEW S, NEW T \in SUBSET S, \A a, b \in T : a = b
  PROVE  Cardinality(T) = IF T = {} THEN 0 ELSE 1
<1>1. CASE T = {}
  BY <1>1, FS_EmptySet
<1>2. CASE T # {}
  <2>1. PICK a \in T : T = {a}
    BY <1>2
  <2>. QED  BY <1>2, <2>1, FS_Singleton
<1>. QED  BY <1>1, <1>2

-----------------------------------------------------------------------------
(* The threads keep the state of their shape: no read, write or wait       *)
(* passes its limit.                                                       *)
THEOREM TypeCorrect == Spec => []TypeOK
<1>1. IInv => TypeOK
  BY DEF IInv
<1>. QED  BY <1>1, Invariant, PTL

(* A client holds a worker for at most one timeout per byte of request and *)
(* reply, however it spaces them.                                          *)
THEOREM WorkersReleased == Spec => []HeldAtMostPerByte
<1>1. IInv => HeldAtMostPerByte
  <2>. SUFFICES ASSUME IInv, NEW w \in Workers, Serving(w)
                PROVE  held[w] <= (Request + Reply) * Timeout
    BY DEF HeldAtMostPerByte
  <2>. USE DaemonAssumption DEF IInv
  <2>1. /\ moved[w] \in Nat /\ moved[w] <= Request + Reply
        /\ left[w] \in Nat /\ held[w] \in Nat /\ Request + Reply \in Nat
    BY SMT DEF TypeOK
  <2>2. (Request + Reply) * Timeout \in Nat /\ moved[w] * Timeout \in Nat
    BY <2>1, ProductIsNat
  <2>3. CASE pc[w] = "limit"
    BY <2>2, <2>3, SMT DEF TimePaid
  <2>4. CASE pc[w] = "talk" /\ moved[w] = Request + Reply
    BY <2>1, <2>2, <2>4, SMT DEF TimePaid, PaidByBytes
  <2>5. CASE pc[w] = "talk" /\ moved[w] # Request + Reply
    <3>1. moved[w] * Timeout + Timeout <= (Request + Reply) * Timeout
      BY <2>1, <2>5, BytesBounded, SMT
    <3>2. held[w] + left[w] <= moved[w] * Timeout + Timeout
      BY <2>5 DEF TimePaid, PaidByBytes
    <3>. QED  BY <2>1, <2>2, <3>1, <3>2, SMT
  <2>. QED  BY <2>3, <2>4, <2>5 DEF Serving
<1>. QED  BY <1>1, Invariant, PTL

(* Nobody waits for a client with the channel locked: time passes over a   *)
(* queued connection only while every worker has one of its own.           *)
THEOREM QueueServed == Spec => QueueWaitsForBusyWorkers
<1>1. IInv /\ [Next]_vars => [Tick => queue = <<>> \/ \A w \in Workers : Serving(w)]_vars
  <2>. SUFFICES ASSUME IInv, Tick, queue # <<>>, NEW w \in Workers
                PROVE  Serving(w)
    OBVIOUS
  <2>. USE DEF IInv
  <2>1. \A v \in Workers : pc[v] # "receive"
    BY DEF Tick, Ready
  <2>2. rxLock = Nobody
    BY <2>1 DEF LockHeldToReceive, TypeOK
  <2>3. pc[w] # "idle"
    BY <2>2 DEF Tick, Ready
  <2>. QED  BY <2>1, <2>3 DEF Serving, TypeOK
<1>. QED  BY <1>1, Invariant, PTL DEF Spec, QueueWaitsForBusyWorkers

(* Every connection that was accepted is in the queue once or with one     *)
(* worker: none is lost and none reaches two workers, whatever the clients *)
(* and threads do.                                                         *)
THEOREM OnePlace == Spec => []ConnectionInOnePlace
<1>1. IInv /\ Placed => ConnectionInOnePlace
  <2>. SUFFICES ASSUME IInv, Placed, NEW c \in Conns
                PROVE  Cardinality({i \in 1..Len(queue) : queue[i] = c})
                         + Cardinality({w \in Workers : job[w] = c})
                       = IF conn[c] = "away" THEN 0 ELSE 1
    BY DEF ConnectionInOnePlace
  <2>. DEFINE Q == {i \in 1..Len(queue) : queue[i] = c}
              W == {w \in Workers : job[w] = c}
  <2>1. Cardinality(Q) = IF conn[c] = "queued" THEN 1 ELSE 0
    <3>1. \A i, j \in Q : i = j
      BY DEF Placed, Queued
    <3>2. Q # {} <=> conn[c] = "queued"
      BY DEF Placed, Queued
    <3>. QED  BY <3>1, <3>2, CountedOnce
  <2>2. Cardinality(W) = IF conn[c] = "served" THEN 1 ELSE 0
    <3>1. \A v, w \in W : v = w
      BY DaemonAssumption DEF Placed, Served
    <3>2. W # {} <=> conn[c] = "served"
      BY DEF Placed, Served
    <3>. QED  BY <3>1, <3>2, CountedOnce
  <2>3. conn[c] \in {"away", "queued", "served"}
    BY DEF IInv, TypeOK
  <2>. HIDE DEF Q, W
  <2>4. Cardinality(Q) + Cardinality(W) = IF conn[c] = "away" THEN 0 ELSE 1
    BY <2>1, <2>2, <2>3
  <2>. QED  BY <2>4 DEF Q, W
<1>. QED  BY <1>1, Invariant, PlacedInvariant, PTL
=============================================================================
