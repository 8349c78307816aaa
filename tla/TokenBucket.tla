---------------------------- MODULE TokenBucket ----------------------------
(***************************************************************************)
(* The burst limiter of the OPRF server: one in-memory token bucket per    *)
(* API key (crates/quipu-oprf-server/src/ratelimit.rs), with the capacity  *)
(* and refill rate of the plan of whoever presents the key                 *)
(* (crates/quipu-oprf-server/src/plans.rs).                                *)
(*                                                                         *)
(* The code keeps tokens as an f64; here a token is Scale units and a      *)
(* clock tick adds Refill[p] units, so that fractions of a token exist     *)
(* (Refill[p] < Scale) and rounding does not.                              *)
(***************************************************************************)
EXTENDS Integers

CONSTANTS
  Keys,       \* API key ids that may present themselves
  Plans,      \* plan names the limits are looked up by, FALLBACK included
  Capacity,   \* [Plans -> Nat]: burst ceiling, in units
  Refill,     \* [Plans -> Nat]: units added per clock tick
  Scale,      \* units in one token
  MaxTime,    \* bound on the clock, for model checking
  NoBucket    \* the key has no entry in the map yet

Bucket == [tokens : Nat, last : Nat]

(* Every plan sold, and the fallback, grants at least one token of burst   *)
(* and refills: plans.rs states both as non-zero.                          *)
ASSUME BucketAssumption ==
  /\ Scale \in Nat \ {0}
  /\ MaxTime \in Nat
  /\ Capacity \in [Plans -> Nat]
  /\ Refill \in [Plans -> Nat \ {0}]
  /\ \A p \in Plans : Capacity[p] >= Scale
  /\ NoBucket \notin Bucket

VARIABLES
  bucket,     \* [Keys -> Bucket \cup {NoBucket}]: RateLimiter.buckets
  now         \* the monotonic clock (Instant::now)

Least(a, b) == IF a <= b THEN a ELSE b

(* entry(key).or_insert((capacity, now)): a new bucket is born full.       *)
Entry(k, p) ==
  IF bucket[k] = NoBucket THEN [tokens |-> Capacity[p], last |-> now] ELSE bucket[k]

(* Mutants of Topped: credit without the ceiling; credit in whole tokens.  *)
ToppedUnclamped(k, p) == Entry(k, p).tokens + (now - Entry(k, p).last) * Refill[p]
ToppedWhole(k, p) ==
  Least(Entry(k, p).tokens + (((now - Entry(k, p).last) * Refill[p]) \div Scale) * Scale,
        Capacity[p])

(* Tokens after crediting the time elapsed, clamped to the plan's ceiling. *)
Topped(k, p) ==
  Least(Entry(k, p).tokens + (now - Entry(k, p).last) * Refill[p], Capacity[p])

(* What RateLimiter::allow answers.                                        *)
Admits(k, p) == Topped(k, p) >= Scale

(* What RateLimiter::allow leaves in the map, whatever it answers.         *)
Spend(k, p) ==
  bucket' = [bucket EXCEPT ![k] =
    [tokens |-> IF Admits(k, p) THEN Topped(k, p) - Scale ELSE Topped(k, p),
     last   |-> now]]

Tick ==
  /\ now < MaxTime
  /\ now' = now + 1
  /\ UNCHANGED bucket

(* The map lives in the server process and dies with it.                   *)
Forget == bucket' = [k \in Keys |-> NoBucket]
=============================================================================
