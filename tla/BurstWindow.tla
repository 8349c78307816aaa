---------------------------- MODULE BurstWindow ----------------------------
(***************************************************************************)
(* The token bucket under observation. Each key has an observer: a window  *)
(* that may be opened at any moment and counts the calls admitted and the  *)
(* server restarts inside it. A window belongs to one plan: a call under   *)
(* another plan opens a new one. The observer changes nothing in the       *)
(* bucket; it is how "in any interval" is stated as an invariant.          *)
(***************************************************************************)
EXTENDS TokenBucket

CONSTANTS
  LowRefill,     \* at most every plan's refill rate
  MaxBoots       \* bound on restarts in a window, for model checking

ASSUME WindowAssumption ==
  /\ LowRefill \in Nat
  /\ \A p \in Plans : LowRefill <= Refill[p]
  /\ MaxBoots \in Nat

VARIABLES
  plan,       \* [Keys -> Plans]: the plan of the key's window
  since,      \* [Keys -> Nat]: when the window was opened
  count,      \* [Keys -> Nat]: calls admitted in the window
  boots,      \* [Keys -> Nat]: restarts of the server in the window
  granted,    \* [Keys -> Nat]: time of the latest call admitted
  denied      \* [Keys -> Nat]: time of the latest call denied

window == <<plan, since, count, boots>>
windowVars == <<bucket, now, window, granted, denied>>

Zero == [k \in Keys |-> 0]

WindowInit ==
  /\ bucket = [k \in Keys |-> NoBucket]
  /\ now = 0
  /\ plan \in [Keys -> Plans]
  /\ since = Zero /\ count = Zero /\ boots = Zero
  /\ granted = Zero /\ denied = Zero

(* n more calls admitted in the window of plan p, a new one if need be.    *)
Count(k, p, n) ==
  /\ plan' = [plan EXCEPT ![k] = p]
  /\ IF plan[k] = p
     THEN /\ count' = [count EXCEPT ![k] = @ + n]
          /\ UNCHANGED <<since, boots>>
     ELSE /\ count' = [count EXCEPT ![k] = n]
          /\ since' = [since EXCEPT ![k] = now]
          /\ boots' = [boots EXCEPT ![k] = 0]

(* A call of RateLimiter::allow that answers true.                         *)
Grant(k, p) ==
  /\ Admits(k, p)
  /\ Spend(k, p)
  /\ Count(k, p, 1)
  /\ granted' = [granted EXCEPT ![k] = now]
  /\ UNCHANGED <<now, denied>>

(* A call of RateLimiter::allow that answers false: the bucket is credited *)
(* and stamped all the same.                                               *)
Deny(k, p) ==
  /\ ~Admits(k, p)
  /\ Spend(k, p)
  /\ Count(k, p, 0)
  /\ denied' = [denied EXCEPT ![k] = now]
  /\ UNCHANGED <<now, granted>>

PassWindow == Tick /\ UNCHANGED <<window, granted, denied>>

RestartWindow ==
  /\ \A k \in Keys : boots[k] < MaxBoots
  /\ Forget
  /\ boots' = [k \in Keys |-> boots[k] + 1]
  /\ UNCHANGED <<now, plan, since, count, granted, denied>>

OpenWindow(k) ==
  /\ since' = [since EXCEPT ![k] = now]
  /\ count' = [count EXCEPT ![k] = 0]
  /\ boots' = [boots EXCEPT ![k] = 0]
  /\ UNCHANGED <<bucket, now, plan, granted, denied>>

WindowNext ==
  \/ \E k \in Keys, p \in Plans : Grant(k, p) \/ Deny(k, p)
  \/ \E k \in Keys : OpenWindow(k)
  \/ PassWindow
  \/ RestartWindow

WindowSpec == WindowInit /\ [][WindowNext]_windowVars

WindowTypeOK ==
  /\ bucket \in [Keys -> Bucket \cup {NoBucket}]
  /\ now \in Nat
  /\ plan \in [Keys -> Plans]
  /\ since \in [Keys -> Nat] /\ count \in [Keys -> Nat] /\ boots \in [Keys -> Nat]
  /\ granted \in [Keys -> Nat] /\ denied \in [Keys -> Nat]

-----------------------------------------------------------------------------
(* In any interval in which a key stays on one plan, the calls admitted by *)
(* RateLimiter::allow never exceed one full burst of that plan plus what   *)
(* its refill rate pays for the time elapsed, plus one more burst for each *)
(* restart of the server (the buckets are in memory only). It holds from   *)
(* the first call after a change of plan: moving to a smaller plan leaves  *)
(* no credit of the larger one.                                            *)
BurstBound ==
  \A k \in Keys :
    count[k] * Scale
      <= (boots[k] + 1) * Capacity[plan[k]] + (now - since[k]) * Refill[plan[k]]

(* A denial is always paid for by recent service: between the last call    *)
(* admitted and a later denial, less than one token was due at LowRefill,  *)
(* the slowest rate a key may have had meanwhile. Polling while denied     *)
(* must not lose fractions of a token, however often it happens.           *)
DenialsAreJustified ==
  \A k \in Keys :
    denied[k] > granted[k] => (denied[k] - granted[k]) * LowRefill < Scale
=============================================================================
