----------------------------- MODULE OprfDaemon -----------------------------
(***************************************************************************)
(* The network OPRF daemon (src/examples/oprf_server.rs with the protocol  *)
(* of src/src/oprf_net.rs): an acceptor that only queues connections, and  *)
(* a pool of workers that take them from the queue behind a mutex and      *)
(* serve them with a timeout on every single read and write.               *)
(*                                                                         *)
(* Computing takes no time: the clock moves only when every worker waits   *)
(* for its client, for the queue or for another worker. What the limiter   *)
(* answers and what is written back are left out: either way the worker    *)
(* reads the whole request and writes a reply of one length.               *)
(***************************************************************************)
EXTENDS Integers, Sequences, FiniteSets

CONSTANTS
  Conns,     \* clients; each has one connection at a time
  Workers,   \* the threads of the pool (WORKERS)
  Request,   \* bytes of a request
  Reply,     \* bytes of a reply
  Timeout,   \* IO_TIMEOUT, in ticks
  Nobody     \* no connection, no worker

ASSUME DaemonAssumption ==
  /\ Request \in Nat \ {0} /\ Reply \in Nat \ {0} /\ Timeout \in Nat \ {0}
  /\ Nobody \notin Conns /\ Nobody \notin Workers

VARIABLES
  conn,     \* [Conns -> status of the client's connection]
  queue,    \* the channel between acceptor and workers
  rxLock,   \* who holds the mutex of the channel's receiving end
  pc,       \* [Workers -> step]
  job,      \* [Workers -> connection being served]
  moved,    \* [Workers -> bytes read and written for it]
  left,     \* [Workers -> ticks left to the read or write it waits in]
  held      \* observer: [Workers -> ticks since it took its connection]

vars == <<conn, queue, rxLock, pc, job, moved, left, held>>

Init ==
  /\ conn = [c \in Conns |-> "away"]
  /\ queue = <<>>
  /\ rxLock = Nobody
  /\ pc = [w \in Workers |-> "idle"]
  /\ job = [w \in Workers |-> Nobody]
  /\ moved = [w \in Workers |-> 0]
  /\ left = [w \in Workers |-> 0]
  /\ held = [w \in Workers |-> 0]

-----------------------------------------------------------------------------
(* A client connects, again and again; the acceptor only puts the          *)
(* connection in the channel, which has no limit.                          *)
Accept(c) ==
  /\ conn[c] = "away"
  /\ conn' = [conn EXCEPT ![c] = "queued"]
  /\ queue' = Append(queue, c)
  /\ UNCHANGED <<rxLock, pc, job, moved, left, held>>

(* Bug: a worker serves with the channel still locked.                     *)
ReceiveLocked(w) ==
  /\ pc[w] = "receive" /\ queue # <<>>
  /\ queue' = Tail(queue)
  /\ conn' = [conn EXCEPT ![Head(queue)] = "served"]
  /\ job' = [job EXCEPT ![w] = Head(queue)]
  /\ pc' = [pc EXCEPT ![w] = "limit"]
  /\ moved' = [moved EXCEPT ![w] = 0]
  /\ held' = [held EXCEPT ![w] = 0]
  /\ UNCHANGED <<rxLock, left>>

(* Bug: a worker looks at the head of the queue and leaves it there.       *)
ReceivePeek(w) ==
  /\ pc[w] = "receive" /\ queue # <<>>
  /\ conn' = [conn EXCEPT ![Head(queue)] = "served"]
  /\ rxLock' = Nobody
  /\ job' = [job EXCEPT ![w] = Head(queue)]
  /\ pc' = [pc EXCEPT ![w] = "limit"]
  /\ moved' = [moved EXCEPT ![w] = 0]
  /\ held' = [held EXCEPT ![w] = 0]
  /\ UNCHANGED <<queue, left>>

Lock(w) ==
  /\ pc[w] = "idle" /\ rxLock = Nobody
  /\ rxLock' = w
  /\ pc' = [pc EXCEPT ![w] = "receive"]
  /\ UNCHANGED <<conn, queue, job, moved, left, held>>

(* recv blocks while the channel is empty. The guard is dropped at the end *)
(* of its own statement, before the connection is served.                  *)
Receive(w) ==
  /\ pc[w] = "receive" /\ queue # <<>>
  /\ queue' = Tail(queue)
  /\ conn' = [conn EXCEPT ![Head(queue)] = "served"]
  /\ rxLock' = Nobody
  /\ job' = [job EXCEPT ![w] = Head(queue)]
  /\ pc' = [pc EXCEPT ![w] = "limit"]
  /\ moved' = [moved EXCEPT ![w] = 0]
  /\ held' = [held EXCEPT ![w] = 0]
  /\ UNCHANGED left

(* The timeouts are set and the limiter asked, under a mutex held for that *)
(* call only.                                                              *)
Limit(w) ==
  /\ pc[w] = "limit"
  /\ pc' = [pc EXCEPT ![w] = "talk"]
  /\ left' = [left EXCEPT ![w] = Timeout]
  /\ UNCHANGED <<conn, queue, rxLock, job, moved, held>>

(* The connection is dropped. A mutex guard still held would go with it.   *)
End(w) ==
  /\ conn' = [conn EXCEPT ![job[w]] = "away"]
  /\ job' = [job EXCEPT ![w] = Nobody]
  /\ pc' = [pc EXCEPT ![w] = "idle"]
  /\ rxLock' = IF rxLock = w THEN Nobody ELSE rxLock
  /\ UNCHANGED <<queue, moved, left, held>>

(* One read or write moves n bytes, and the next one has a timeout of its  *)
(* own. No read goes past the request.                                     *)
Move(w, n) ==
  /\ moved' = [moved EXCEPT ![w] = @ + n]
  /\ left' = [left EXCEPT ![w] = Timeout]
  /\ UNCHANGED <<conn, queue, rxLock, pc, job, held>>

(* Bug: a read that brings nothing counts as progress.                     *)
ReadNothing(w) ==
  /\ pc[w] = "talk" /\ moved[w] < Request
  /\ \E n \in 0..(Request - moved[w]) : Move(w, n)

Read(w) ==
  /\ pc[w] = "talk" /\ moved[w] < Request
  /\ \E n \in 1..(Request - moved[w]) : Move(w, n)

Write(w) ==
  /\ pc[w] = "talk" /\ moved[w] >= Request /\ moved[w] < Request + Reply
  /\ \E n \in 1..(Request + Reply - moved[w]) : Move(w, n)

Finish(w) == pc[w] = "talk" /\ moved[w] = Request + Reply /\ End(w)

(* The client leaves, or the connection breaks.                            *)
Break(w) == pc[w] = "talk" /\ moved[w] < Request + Reply /\ End(w)

(* Bug: only the read timeout is set.                                      *)
ExpireReads(w) == pc[w] = "talk" /\ moved[w] < Request /\ left[w] = 0 /\ End(w)

(* A read or a write outlasts its timeout: an error like any other.        *)
Expire(w) == pc[w] = "talk" /\ moved[w] < Request + Reply /\ left[w] = 0 /\ End(w)

Serving(w) == pc[w] \in {"limit", "talk"}

(* A worker that can go on without its client or the clock.                *)
Ready(w) ==
  \/ pc[w] = "idle" /\ rxLock = Nobody
  \/ pc[w] = "receive" /\ queue # <<>>
  \/ pc[w] = "limit"
  \/ pc[w] = "talk" /\ (left[w] = 0 \/ moved[w] = Request + Reply)

Tick ==
  /\ \A w \in Workers : ~Ready(w)
  /\ \E w \in Workers : Serving(w)
  /\ left' = [w \in Workers |-> IF Serving(w) THEN left[w] - 1 ELSE left[w]]
  /\ held' = [w \in Workers |-> IF Serving(w) THEN held[w] + 1 ELSE held[w]]
  /\ UNCHANGED <<conn, queue, rxLock, pc, job, moved>>

Next ==
  \/ \E c \in Conns : Accept(c)
  \/ \E w \in Workers : \/ Lock(w) \/ Receive(w) \/ Limit(w)
                        \/ Read(w) \/ Write(w)
                        \/ Finish(w) \/ Break(w) \/ Expire(w)
  \/ Tick

(* Threads run. The mutex of the queue is not fair to any one worker, it   *)
(* only goes to somebody. Clients owe nothing: they may stay silent, or    *)
(* connect and leave for ever; but no traffic holds the clock back.        *)
Fairness ==
  /\ WF_vars(\E w \in Workers : Lock(w))
  /\ \A w \in Workers : /\ WF_vars(Receive(w)) /\ WF_vars(Limit(w))
                        /\ WF_vars(Finish(w)) /\ WF_vars(Expire(w))
  /\ SF_vars(Tick)

Spec == Init /\ [][Next]_vars /\ Fairness

-----------------------------------------------------------------------------
(* The state has the shape the threads give it: no read goes past the      *)
(* request, no write past the reply, and no wait outlives its timeout.     *)
TypeOK ==
  /\ conn \in [Conns -> {"away", "queued", "served"}]
  /\ queue \in Seq(Conns)
  /\ rxLock \in Workers \cup {Nobody}
  /\ pc \in [Workers -> {"idle", "receive", "limit", "talk"}]
  /\ job \in [Workers -> Conns \cup {Nobody}]
  /\ moved \in [Workers -> 0..(Request + Reply)]
  /\ left \in [Workers -> 0..Timeout]
  /\ held \in [Workers -> Nat]

(* A connection accepted is in the queue or with one worker until it is    *)
(* dropped: none is lost while every worker is busy, none is served twice. *)
ConnectionInOnePlace ==
  \A c \in Conns :
    Cardinality({i \in 1..Len(queue) : queue[i] = c})
      + Cardinality({w \in Workers : job[w] = c})
    = IF conn[c] = "away" THEN 0 ELSE 1

(* However slowly a client sends and reads, it holds a worker for at most  *)
(* one timeout per byte: every read or write moves a byte or is the last.  *)
HeldAtMostPerByte ==
  \A w \in Workers : Serving(w) => held[w] <= (Request + Reply) * Timeout

(* A worker waits for its client with the channel unlocked: while time     *)
(* passes a connection is left in the queue only if every worker has one.  *)
QueueWaitsForBusyWorkers ==
  [][Tick => queue = <<>> \/ \A w \in Workers : Serving(w)]_vars

(* The timeouts free the workers: every connection accepted is in the end  *)
(* served or dropped, whatever the other clients do.                       *)
EveryConnectionEnds ==
  \A c \in Conns : conn[c] = "queued" ~> conn[c] = "away"
=============================================================================
