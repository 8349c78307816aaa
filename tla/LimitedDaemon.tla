--------------------------- MODULE LimitedDaemon ---------------------------
(***************************************************************************)
(* The network OPRF daemon (src/examples/oprf_server.rs) around its        *)
(* limiter. A worker asks the limiter as soon as it has a connection and   *)
(* only then reads the request, for as long as the client takes: what was  *)
(* admitted may be evaluated when its window is long over. The other side  *)
(* of a worker, its queue and timeouts, is OprfDaemon.                     *)
(***************************************************************************)
EXTENDS NetLimit

CONSTANTS
  Workers,  \* the threads of the pool (WORKERS)
  Free      \* the job of a worker that has no connection

Job == [ip : Ips, allowed : BOOLEAN]

ASSUME PoolAssumption == IsFiniteSet(Workers) /\ Free \notin Job

VARIABLES
  job,        \* what each worker serves, and what the limiter said of it
  evaluated   \* observer: evaluations given to the address in its interval

daemonVars == <<vars, job, evaluated>>

DaemonInit ==
  /\ Init
  /\ job = [w \in Workers |-> Free]
  /\ evaluated = [i \in Ips |-> 0]

-----------------------------------------------------------------------------
(* serve asks the limiter before anything is read.                         *)
Serve(w, i) ==
  /\ job[w] = Free
  /\ \/ Admit(i) /\ job' = [job EXCEPT ![w] = [ip |-> i, allowed |-> TRUE]]
     \/ Deny(i) /\ job' = [job EXCEPT ![w] = [ip |-> i, allowed |-> FALSE]]
  /\ UNCHANGED evaluated

(* A defect: what the limiter said is not looked at.                       *)
GrantedToAll(j) == TRUE

(* handle_connection_verified evaluates only what was allowed.             *)
Granted(j) == j.allowed

(* The whole request has arrived: it is evaluated, or refused.             *)
Answer(w) ==
  /\ job[w] # Free
  /\ job' = [job EXCEPT ![w] = Free]
  /\ evaluated' = IF Granted(job[w]) THEN [evaluated EXCEPT ![job[w].ip] = @ + 1]
                                     ELSE evaluated
  /\ UNCHANGED vars

(* The client leaves or a timeout expires: an allowance is gone for nothing. *)
Abandon(w) ==
  /\ job[w] # Free
  /\ job' = [job EXCEPT ![w] = Free]
  /\ UNCHANGED <<vars, evaluated>>

(* A new interval begins for the observers of an address.                  *)
ObserveAll(i) ==
  /\ Observe(i)
  /\ evaluated' = [evaluated EXCEPT ![i] = 0]
  /\ UNCHANGED job

TickAll == Tick /\ UNCHANGED <<job, evaluated>>

DaemonNext ==
  \/ \E w \in Workers : Answer(w) \/ Abandon(w) \/ \E i \in Ips : Serve(w, i)
  \/ \E i \in Ips : ObserveAll(i)
  \/ TickAll

DaemonSpec == DaemonInit /\ [][DaemonNext]_daemonVars

DaemonTypeOK ==
  /\ job \in [Workers -> Job \cup {Free}]
  /\ evaluated \in [Ips -> Nat]

-----------------------------------------------------------------------------
(* What reaches an address in an interval is bounded too, though a slow    *)
(* client is answered long after it was admitted: an interval no longer    *)
(* than n windows evaluates at most the n + 1 allowances that the limiter  *)
(* admits in it, and one answer for each worker that was already reading   *)
(* when it began.                                                          *)
EvaluationsBounded ==
  \A i \in Ips, n \in 1..(MaxTime + 1) :
    now - since[i] <= n * Window =>
      evaluated[i] <= (n + 1) * MaxPerWindow + Cardinality(Workers)
=============================================================================
