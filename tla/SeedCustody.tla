---------------------------- MODULE SeedCustody ----------------------------
(***************************************************************************)
(* The seed of the OPRF service, which nothing can bring back: read from   *)
(* the environment at every start (main.rs load_server_key), split into    *)
(* shares that are kept apart and combined after the machine is lost       *)
(* (custodia.rs, bin/custodia-seed.rs).                                    *)
(*                                                                         *)
(* A key stands for itself and for its public key, one for every seed; an  *)
(* ephemeral key is the n-th that was ever drawn.                          *)
(***************************************************************************)
EXTENDS Shamir

CONSTANTS
  Own,          \* the service's seed
  Others,       \* seeds of other services the same operator keeps
  Thresholds, Numbers,  \* as asked of custodia-seed
  Values,       \* bound on the coefficients drawn, of all in Field
  MaxSplits, MaxDamage, MaxStarts,
  MaxGiven      \* bound on the shares brought to one restoration

ASSUME CustodyAssumption ==
  /\ {Own} \cup Others \subseteq Secret /\ Own \notin Others
  /\ \A s, r \in Secret : Len(s) = Len(r)  \* every seed has 32 bytes
  /\ Thresholds \cup Numbers \cup Values \subseteq Field
  /\ {MaxSplits, MaxDamage, MaxStarts, MaxGiven} \subseteq Nat

NoKey == [seed |-> <<>>, ephemeral |-> 0]
SeedKey(seed) == [seed |-> seed, ephemeral |-> 0]
EphemeralKey(n) == [seed |-> <<>>, ephemeral |-> n]

(* QUIPU_OPRF_SEED: not there, not Unicode, not 64 digits, or a seed.      *)
Setting(status, seed) == [status |-> status, seed |-> seed]
Unset == Setting("unset", <<>>)
NotUnicode == Setting("not unicode", <<>>)
Invalid == Setting("invalid", <<>>)
Seed(seed) == Setting("seed", seed)

(* What the last run of custodia-seed restaurar ended with, which shares   *)
(* it was given and whether it was to show the seed.                       *)
Restoration(status, data, given) == [status |-> status, data |-> data, given |-> given]
NotRestored == Restoration("none", <<>>, {})

VARIABLES
  env,       \* the seed in the service's configuration
  key,       \* the key the process serves, NoKey if none runs
  starts,    \* how many ephemeral keys were drawn
  held,      \* the shares kept, with the split and the seed they are of
  splits,    \* how many splits were delivered
  damage,    \* how many shares were damaged
  restored   \* the last restoration

vars == <<env, key, starts, held, splits, damage, restored>>

Kept(share, n, seed, sound) == [share |-> share, of |-> n, seed |-> seed, sound |-> sound]

Init ==
  /\ env = Seed(Own)
  /\ key = NoKey
  /\ starts = 0
  /\ held = {} /\ splits = 0 /\ damage = 0
  /\ restored = NotRestored

-----------------------------------------------------------------------------
(* A value that is not a seed stops the start; one that is not Unicode     *)
(* counts as none, and then the key lasts as long as the process.          *)
load_server_key ==
  IF env.status = "seed" THEN {SeedKey(env.seed)}
  ELSE IF env = Invalid THEN {}
  ELSE {EphemeralKey(starts + 1)}

Start ==
  /\ key = NoKey
  /\ key' \in load_server_key
  /\ key' = EphemeralKey(starts + 1) => starts < MaxStarts
  /\ starts' = IF key' = EphemeralKey(starts + 1) THEN starts + 1 ELSE starts
  /\ restored' = NotRestored
  /\ UNCHANGED <<env, held, splits, damage>>

Stop ==
  /\ key # NoKey
  /\ key' = NoKey
  /\ restored' = NotRestored
  /\ UNCHANGED <<env, starts, held, splits, damage>>

(* The configuration is copied wrongly, or lost with the machine.          *)
Misconfigure(v) ==
  /\ env # v
  /\ env' = v
  /\ restored' = NotRestored
  /\ UNCHANGED <<key, starts, held, splits, damage>>

(* Shares are delivered only if the first of them restore the key.         *)
cmd_repartir(seed, threshold, number, drawn) ==
  LET r == split(seed, threshold, number, drawn) IN
  /\ splits < MaxSplits
  /\ r.status = "ok"
  /\ combine(SubSeq(r.data, 1, threshold)) = SharingOk(seed)
  /\ splits' = splits + 1
  /\ held' = held \cup {Kept(share, splits + 1, seed, TRUE) : share \in Range(r.data)}
  /\ restored' = NotRestored
  /\ UNCHANGED <<env, key, starts, damage>>

(* What may have become of a share: the secret part, its index or its      *)
(* threshold.                                                              *)
Damages(share) ==
  {[share EXCEPT !.y[1] = Xor[@][1]],
   [share EXCEPT !.index = Xor[@][1]],
   [share EXCEPT !.threshold = @ - 1]}

Damage(k) ==
  /\ k.sound /\ damage < MaxDamage
  /\ \E d \in Damages(k.share) :
       held' = (held \ {k}) \cup {Kept(d, k.of, k.seed, FALSE)}
  /\ damage' = damage + 1
  /\ restored' = NotRestored
  /\ UNCHANGED <<env, key, starts, splits>>

(* Bug: what comes together is taken for the seed, without its key.        *)
verificar_restauracionUnchecked(shares, expected) == combine(shares)

verificar_restauracion(shares, expected) ==
  LET r == combine(shares)
  IN  IF r.status = "ok" /\ r.data # expected THEN SharingError("another key") ELSE r

(* A line per share in any order; one that is not a share stops it. Shares *)
(* that are lost are never brought. The tool neither reads nor changes     *)
(* anything of the service: it is run here when the machine is lost.       *)
cmd_restaurar(given) ==
  /\ key = NoKey /\ env = Unset
  /\ \E shares \in SetToSeqs(given) :
       LET r == IF shares = <<>> THEN SharingError("no shares")
                ELSE IF \E k \in given : ~WellFormed(k.share) THEN SharingError("malformed")
                ELSE verificar_restauracion([i \in 1..Len(shares) |-> shares[i].share], Own)
       IN  restored' = Restoration(r.status, r.data, given)
  /\ UNCHANGED <<env, key, starts, held, splits, damage>>

(* The operator puts what was restored where the service reads it.         *)
Reinstate ==
  /\ restored.status = "ok"
  /\ env' = Seed(restored.data)
  /\ restored' = NotRestored
  /\ UNCHANGED <<key, starts, held, splits, damage>>

Next ==
  \/ Start \/ Stop
  \/ \E v \in {Unset, NotUnicode, Invalid} : Misconfigure(v)
  \/ \E s \in ({env.seed} \ {<<>>}) \cup Others, t \in Thresholds, n \in Numbers :
       \E drawn \in Draw(t, s, Values) : cmd_repartir(s, t, n, drawn)
  \/ \E k \in held : Damage(k)
  \/ \E given \in {S \in SUBSET held : Cardinality(S) <= MaxGiven} : cmd_restaurar(given)
  \/ Reinstate

Spec == Init /\ [][Next]_vars

-----------------------------------------------------------------------------
(* The configuration holds what can be read, the process serves a key it   *)
(* can have, and what was restored came from shares that are kept.         *)
TypeOK ==
  /\ env \in {Unset, NotUnicode, Invalid} \cup {Seed(s) : s \in Secret}
  /\ starts \in Nat /\ splits \in Nat
  /\ key \in {NoKey} \cup {SeedKey(s) : s \in Secret} \cup {EphemeralKey(n) : n \in 1..starts}
  /\ \A k \in held : k.of \in 1..splits /\ k.seed \in {Own} \cup Others
  /\ restored.given \subseteq held
  /\ restored.status # "ok" => restored.data = <<>>

(* Any shares of one split, as many as it asks for or more and in any      *)
(* order, bring the seed back (custodia-seed restaurar, shamir.rs combine).*)
EnoughSharesRestore ==
  \A n \in 1..splits :
    LET given == restored.given IN
    (/\ given # {} /\ \A k \in given : k.of = n /\ k.sound /\ k.seed = Own
     /\ \A k \in given : Cardinality(given) >= k.share.threshold)
      => restored.status = "ok" /\ restored.data = Own

(* Whatever shares are mixed up, damaged or brought in whatever order, a   *)
(* service that runs serves its own key or one that no client has pinned:  *)
(* never the key of another seed.                                          *)
NeverAnotherKey == key.seed \in {<<>>, Own}

(* Every deal there is of a secret.                                        *)
Dealt ==
  [t \in Thresholds |-> [s \in Secret |->
    [drawn \in Draw(t, s, Field) |-> Shares(s, t, Max(Numbers), drawn)]]]

(* Fewer shares than the threshold tell nothing when they are delivered:   *)
(* every secret explains them in as many ways as any other (shamir.rs,     *)
(* "secreto perfecto").                                                    *)
FewerTellNothing ==
  [][splits' # splits =>
      LET new == {k.share : k \in held' \ held}
          threshold == (CHOOSE share \in new : TRUE).threshold
          few == {S \in SUBSET new : Cardinality(S) = threshold - 1}
          ways(S, s) == Cardinality({drawn \in DOMAIN Dealt[threshold][s] :
                          \A share \in S : Dealt[threshold][s][drawn][share.index] = share})
      IN  \A S \in few : Cardinality({ways(S, s) : s \in Secret}) = 1]_vars
=============================================================================
