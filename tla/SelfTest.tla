------------------------------ MODULE SelfTest ------------------------------
(***************************************************************************)
(* The self-test every process runs once before its first operation        *)
(* (src/src/selftest.rs), the operations that wait for it (key generation  *)
(* in pqsign.rs and pqhybrid.rs, encode and decode in api.rs) and the      *)
(* randomness both of them draw.                                           *)
(*                                                                         *)
(* Threads call operations again and again. The first finds no verdict and *)
(* runs the checks while the others wait on the same OnceLock. Every       *)
(* attempt to draw is a step of its own, so that what the system answers   *)
(* may change at any of them.                                              *)
(***************************************************************************)
EXTENDS Entropy

CONSTANTS
  Threads,
  Nobody,      \* no thread runs the checks
  Faulty       \* the sets of checks a machine may get wrong

(* The checks in order: how often each draws randomness, and whether it    *)
(* expects to get it (a panic) or reports that it did not.                 *)
Check(name, draws, expects) == [name |-> name, draws |-> draws, expects |-> expects]

(* Known answers, and refusals of what was altered.                        *)
KnownAnswers == <<
  Check("hkdf", 0, FALSE), Check("argon2id", 0, FALSE), Check("subkey", 0, FALSE),
  Check("seal", 0, FALSE), Check("open", 0, FALSE),
  Check("tampered", 0, FALSE), Check("other_aad", 0, FALSE) >>

KemChecks == << Check("kem_pair", 2, FALSE), Check("kem_other_key", 3, FALSE) >>

SignChecks == <<
  Check("sign_pair", 2, TRUE), Check("sign_forged", 2, TRUE), Check("sign_other", 2, TRUE) >>

Checks ==
  KnownAnswers \o KemChecks \o SignChecks
    \o << Check("rng", 2, FALSE), Check("ct_eq", 0, FALSE) >>

(* The operations: what each draws after the self-test, and whether it     *)
(* expects to get it.                                                      *)
KemKeypair == Check("kem_keypair", 1, FALSE)
SignKeypair == Check("sign_keypair", 2, TRUE)
Encode == Check("encode", 2, TRUE)
Decode == Check("decode", 0, FALSE)

Operations == {KemKeypair, SignKeypair, Encode, Decode}

ASSUME SelfTestAssumption ==
  /\ Nobody \notin Threads
  /\ Faulty \subseteq SUBSET {Checks[i].name : i \in 1..Len(Checks)}

VARIABLES
  broken,    \* the checks this machine fails whatever it draws
  verdict,   \* INFORME: the process's one report
  running,   \* the thread inside get_or_init
  pc,        \* [Threads -> step]
  op,        \* [Threads -> operation called]
  check,     \* the check being run
  failed,    \* some check of this run failed
  drawn,     \* [Threads -> buffers drawn for the check or the operation]
  tries,     \* [Threads -> attempts made for the next buffer]
  result     \* [Threads -> how its last call ended, and with which buffers]

vars == <<broken, verdict, running, pc, op, check, failed, drawn, tries, result>>

Result(end, buffers) == [end |-> end, buffers |-> buffers]

Init ==
  /\ broken \in Faulty
  /\ verdict = "none"
  /\ running = Nobody
  /\ pc = [t \in Threads |-> "idle"]
  /\ op = [t \in Threads |-> Decode]
  /\ check = 1
  /\ failed = FALSE
  /\ drawn = [t \in Threads |-> <<>>]
  /\ tries = [t \in Threads |-> 0]
  /\ result = [t \in Threads |-> Result("none", <<>>)]

-----------------------------------------------------------------------------
Call(t, o) ==
  /\ pc[t] = "idle"
  /\ pc' = [pc EXCEPT ![t] = "ensure"]
  /\ op' = [op EXCEPT ![t] = o]
  /\ UNCHANGED <<broken, verdict, running, check, failed, drawn, tries, result>>

(* A call returns, or unwinds, to its caller.                              *)
Return(t, r) ==
  /\ pc' = [pc EXCEPT ![t] = "idle"]
  /\ result' = [result EXCEPT ![t] = r]
  /\ drawn' = [drawn EXCEPT ![t] = <<>>]
  /\ tries' = [tries EXCEPT ![t] = 0]
  /\ UNCHANGED <<broken, op>>

Proceed(t) ==
  /\ pc[t] = "ensure" /\ verdict = "pass"
  /\ pc' = [pc EXCEPT ![t] = "work"]
  /\ UNCHANGED <<broken, verdict, running, op, check, failed, drawn, tries, result>>

(* ensure panics on a failed report.                                       *)
Abort(t) ==
  /\ pc[t] = "ensure" /\ verdict = "fail"
  /\ Return(t, Result("panicked", <<>>))
  /\ UNCHANGED <<verdict, running, check, failed>>

(* The first to find no report runs the checks; the others wait for it.    *)
Begin(t) ==
  /\ pc[t] = "ensure" /\ verdict = "none" /\ running = Nobody
  /\ running' = t
  /\ pc' = [pc EXCEPT ![t] = "test"]
  /\ check' = 1
  /\ failed' = FALSE
  /\ UNCHANGED <<broken, verdict, op, drawn, tries, result>>

-----------------------------------------------------------------------------
(* What thread t draws for: the check it runs, or its operation.           *)
Current(t) == IF pc[t] = "test" THEN Checks[check] ELSE op[t]

Drawing(t) ==
  /\ pc[t] = "work" \/ (pc[t] = "test" /\ check <= Len(Checks))
  /\ Len(drawn[t]) < Current(t).draws

(* Bug: only the last check decides.                                       *)
CheckedLast(t, ok) ==
  /\ check' = check + 1
  /\ failed' = ~ok
  /\ drawn' = [drawn EXCEPT ![t] = <<>>]
  /\ tries' = [tries EXCEPT ![t] = 0]
  /\ UNCHANGED <<broken, verdict, running, pc, op, result>>

Checked(t, ok) ==
  /\ check' = check + 1
  /\ failed' = (failed \/ ~ok)
  /\ drawn' = [drawn EXCEPT ![t] = <<>>]
  /\ tries' = [tries EXCEPT ![t] = 0]
  /\ UNCHANGED <<broken, verdict, running, pc, op, result>>

(* Bug: a check that panics leaves the OnceLock taken.                     *)
NotDrawnHolding(t) ==
  IF pc[t] = "test" /\ ~Current(t).expects
  THEN Checked(t, FALSE)
  ELSE /\ Return(t, Result(IF Current(t).expects THEN "panicked" ELSE "error", <<>>))
       /\ UNCHANGED <<running, verdict, check, failed>>

(* No randomness. A check that expected it unwinds through get_or_init,    *)
(* which leaves the OnceLock as it was for the next thread.                *)
NotDrawn(t) ==
  IF pc[t] = "test" /\ ~Current(t).expects
  THEN Checked(t, FALSE)
  ELSE /\ Return(t, Result(IF Current(t).expects THEN "panicked" ELSE "error", <<>>))
       /\ running' = IF running = t THEN Nobody ELSE running
       /\ UNCHANGED <<verdict, check, failed>>

Drawn(t, buffer) ==
  /\ drawn' = [drawn EXCEPT ![t] = Append(@, buffer)]
  /\ tries' = [tries EXCEPT ![t] = 0]
  /\ UNCHANGED <<broken, verdict, running, pc, op, check, failed, result>>

(* The system delivers. An unhealthy buffer is a failure at once.          *)
Deliver(t) ==
  /\ Drawing(t)
  /\ \E b \in Buffers : IF Healthy(b) THEN Drawn(t, b) ELSE NotDrawn(t)

(* Bug: a transient error never uses the attempts up.                      *)
BusyForever(t) ==
  /\ Drawing(t)
  /\ tries' = [tries EXCEPT ![t] = (@ + 1) % Attempts]
  /\ UNCHANGED <<broken, verdict, running, pc, op, check, failed, drawn, result>>

(* The system has no descriptors left: tried again, a few times.           *)
Busy(t) ==
  /\ Drawing(t)
  /\ IF WorthRetrying(tries[t])
     THEN /\ tries' = [tries EXCEPT ![t] = @ + 1]
          /\ UNCHANGED <<broken, verdict, running, pc, op, check, failed, drawn, result>>
     ELSE NotDrawn(t)

(* Any other error is final.                                               *)
Refuse(t) == Drawing(t) /\ NotDrawn(t)

Distinct(buffers) ==
  \A i, j \in 1..Len(buffers) : i # j => buffers[i] # buffers[j]

(* A check with all it needs says what the machine makes of it; the check  *)
(* of the source also wants two different buffers.                         *)
Conclude(t) ==
  /\ pc[t] = "test" /\ check <= Len(Checks) /\ ~Drawing(t)
  /\ Checked(t, /\ Checks[check].name \notin broken
                /\ Checks[check].name = "rng" => Distinct(drawn[t]))

Report(t) ==
  /\ pc[t] = "test" /\ check > Len(Checks)
  /\ verdict' = IF failed THEN "fail" ELSE "pass"
  /\ running' = Nobody
  /\ pc' = [pc EXCEPT ![t] = "ensure"]
  /\ UNCHANGED <<broken, op, check, failed, drawn, tries, result>>

Done(t) ==
  /\ pc[t] = "work" /\ ~Drawing(t)
  /\ Return(t, Result("done", drawn[t]))
  /\ UNCHANGED <<verdict, running, check, failed>>

(* What thread t does without anybody calling it.                          *)
Step(t) ==
  \/ Proceed(t) \/ Abort(t) \/ Begin(t)
  \/ Deliver(t) \/ Busy(t) \/ Refuse(t)
  \/ Conclude(t) \/ Report(t) \/ Done(t)

Next == \E t \in Threads : Step(t) \/ \E o \in Operations : Call(t, o)

(* Threads run; a thread inside get_or_init is not stopped by the others.  *)
Fairness == \A t \in Threads : WF_vars(Step(t))

Spec == Init /\ [][Next]_vars /\ Fairness

-----------------------------------------------------------------------------
(* Everything keeps to its kind, and only the thread inside get_or_init    *)
(* is in the middle of the checks.                                         *)
TypeOK ==
  /\ broken \in Faulty
  /\ verdict \in {"none", "pass", "fail"}
  /\ running \in Threads \cup {Nobody}
  /\ pc \in [Threads -> {"idle", "ensure", "test", "work"}]
  /\ op \in [Threads -> Operations]
  /\ check \in 1..(Len(Checks) + 1)
  /\ failed \in BOOLEAN
  /\ tries \in [Threads -> 0..(Attempts - 1)]
  /\ drawn \in [Threads -> Seq(Buffers)]
  /\ result \in [Threads -> [end : {"none", "done", "error", "panicked"},
                            buffers : Seq(Buffers)]]
  /\ \A t \in Threads : Len(drawn[t]) <= 3 /\ (pc[t] = "test" <=> running = t)

(* No operation touches a key, not even a decode, in a process whose       *)
(* checks have not all passed, whichever thread ran them, nor on a machine *)
(* that gets one of them wrong: no failed check is forgotten on the way.   *)
NothingBeforeThePass ==
  \A t \in Threads : pc[t] = "work" => verdict = "pass" /\ broken = {}

(* The source is tested at every draw, not only at the start: no operation *)
(* ends with a stuck buffer, however late the source went bad.             *)
NothingMadeOfStuckBytes ==
  \A t \in Threads : \A i \in 1..Len(result[t].buffers) : ~Stuck(result[t].buffers[i])

(* No call hangs. A thread always leaves the checks, by a report or by a   *)
(* panic, however the source fails; and in a process that gets a report    *)
(* every call ends, those that waited for another thread's checks too.     *)
(* (While runs of the checks keep ending in panics the OnceLock promises   *)
(* no turn to any one waiter.)                                             *)
EveryCallEnds ==
  /\ \A t \in Threads : pc[t] = "test" ~> pc[t] # "test"
  /\ (<>(verdict # "none")) => \A t \in Threads : pc[t] # "idle" ~> pc[t] = "idle"
=============================================================================
