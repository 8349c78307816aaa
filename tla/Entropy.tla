------------------------------ MODULE Entropy -------------------------------
(***************************************************************************)
(* The one place where the library asks the system for randomness          *)
(* (src/src/aleatorio.rs): what one attempt may answer, which answers are  *)
(* worth another attempt, and the test a buffer must pass.                 *)
(***************************************************************************)
EXTENDS Integers, Sequences

CONSTANTS
  Attempts,     \* INTENTOS
  Repetition,   \* REPETICION_QUE_DELATA
  Buffers       \* what the system may deliver

ASSUME EntropyAssumption ==
  /\ Attempts \in Nat \ {0} /\ Repetition \in Nat \ {0, 1}
  /\ Buffers \subseteq Seq(Nat)

(* How many equal bytes end at each place of a buffer.                     *)
Streak(m) ==
  LET streak[i \in 1..Len(m)] ==
        IF i > 1 /\ m[i] = m[i - 1] THEN streak[i - 1] + 1 ELSE 1
  IN  streak

(* Bug: one repetition more than the limit is let through.                 *)
HealthyLate(m) == \A i \in 1..Len(m) : Streak(m)[i] <= Repetition

Healthy(m) == \A i \in 1..Len(m) : Streak(m)[i] < Repetition

(* Descriptors used up (EMFILE, ENFILE): the only error tried again.       *)
WorthRetrying(tries) == tries + 1 < Attempts

(* Said without counting: some place begins Repetition equal bytes.        *)
Stuck(m) ==
  \E i \in 1..(Len(m) + 1 - Repetition) : \A j \in i..(i + Repetition - 1) : m[j] = m[i]
=============================================================================
