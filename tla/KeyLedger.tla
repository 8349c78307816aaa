----------------------------- MODULE KeyLedger -----------------------------
(***************************************************************************)
(* What the OPRF service promises about an API key, whoever acts on it and *)
(* whatever fails: a key is issued once with a quota, is never charged     *)
(* beyond that quota in a billing period, is never un-charged, and a       *)
(* revocation is final.                                                    *)
(***************************************************************************)
EXTENDS Integers

CONSTANTS Keys, Periods, Quotas   \* Quotas: the quotas on sale

VARIABLES
  status,   \* [Keys -> {"absent", "issued", "revoked"}]
  limit,    \* [Keys -> Nat]
  charged   \* [Keys -> [Periods -> Nat]]

Init ==
  /\ status = [k \in Keys |-> "absent"]
  /\ limit = [k \in Keys |-> 0]
  /\ charged = [k \in Keys |-> [p \in Periods |-> 0]]

Issue(k, q) ==
  /\ status[k] = "absent"
  /\ status' = [status EXCEPT ![k] = "issued"]
  /\ limit' = [limit EXCEPT ![k] = q]
  /\ UNCHANGED charged

(* An evaluation under way when the key is revoked may still be charged.   *)
Charge(k, p) ==
  /\ status[k] # "absent"
  /\ charged[k][p] < limit[k]
  /\ charged' = [charged EXCEPT ![k][p] = @ + 1]
  /\ UNCHANGED <<status, limit>>

Revoke(k) ==
  /\ status[k] = "issued"
  /\ status' = [status EXCEPT ![k] = "revoked"]
  /\ UNCHANGED <<limit, charged>>

Next ==
  \E k \in Keys :
    \/ \E q \in Quotas : Issue(k, q)
    \/ \E p \in Periods : Charge(k, p)
    \/ Revoke(k)

vars == <<status, limit, charged>>
Spec == Init /\ [][Next]_vars
=============================================================================
