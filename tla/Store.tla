------------------------------- MODULE Store -------------------------------
(***************************************************************************)
(* The SQLite store of the OPRF server, the only seam between its data     *)
(* plane (validate a key on every request) and its control plane (issue,   *)
(* activate, deactivate, revoke): crates/quipu-oprf-server/src/store.rs.   *)
(*                                                                         *)
(* Every operator here is ONE SQL statement, hence atomic and durable. The *)
(* processes that run them, and what may happen between two of them, are   *)
(* in OprfService. Ids and prefixes are 128 and 48 random bits: a key is   *)
(* its prefix, and a fresh one is any member of Keys that has no row.      *)
(***************************************************************************)
EXTENDS TokenBucket

CONSTANTS
  Customers,   \* customer ids
  Sold,        \* the plans on sale: PLANS of plans.rs
  Fallback,    \* the limits of a plan that is not (or no longer) on sale
  PlanQuota,   \* [Sold -> Nat]: evaluations per billing period
  Periods,     \* billing periods ("YYYY-MM"), in order
  PeriodOf,    \* [0..MaxTime -> Periods]: period_of
  Expiries,    \* expiry dates a row may be given
  Never,       \* expires_at IS NULL
  NoPlan,      \* the customer has no row
  NoOwner      \* the key has no row

(* The calendar runs forward (civil_from_days is monotone) and every plan  *)
(* on sale grants at least one evaluation.                                 *)
ASSUME StoreAssumption ==
  /\ Periods \subseteq Nat
  /\ PeriodOf \in [0..MaxTime -> Periods]
  /\ \A s, t \in 0..MaxTime : s <= t => PeriodOf[s] <= PeriodOf[t]
  /\ Sold \subseteq Plans /\ Fallback \in Plans \ Sold
  /\ PlanQuota \in [Sold -> Nat \ {0}]
  /\ Expiries \subseteq Nat /\ Never \notin Nat
  /\ NoPlan \notin Sold /\ NoOwner \notin Customers

VARIABLES
  customer,    \* [Customers -> Sold \cup {NoPlan}]: the plan of a customer row
  owner,       \* [Keys -> Customers \cup {NoOwner}]: api_key.customer_id
  active,      \* keys whose row says active = 1
  revoked,     \* keys whose row has a revoked_at
  quota,       \* [Keys -> Nat]: api_key.quota_monthly
  expires,     \* [Keys -> Nat \cup {Never}]: api_key.expires_at
  lastUsed,    \* [Keys -> Nat \cup {Never}]: api_key.last_used_at
  usage        \* [Keys -> [Periods -> Nat]]: usage.count, 0 when there is no row

tables == <<customer, owner, active, revoked, quota, expires, lastUsed, usage>>

StoreTypeOK ==
  /\ customer \in [Customers -> Sold \cup {NoPlan}]
  /\ owner \in [Keys -> Customers \cup {NoOwner}]
  /\ active \subseteq Keys /\ revoked \subseteq Keys
  /\ quota \in [Keys -> Nat]
  /\ expires \in [Keys -> Nat \cup {Never}]
  /\ lastUsed \in [Keys -> Nat \cup {Never}]
  /\ usage \in [Keys -> [Periods -> Nat]]

(* CREATE TABLE IF NOT EXISTS on a fresh database.                         *)
StoreInit ==
  /\ customer = [c \in Customers |-> NoPlan]
  /\ owner = [k \in Keys |-> NoOwner]
  /\ active = {} /\ revoked = {}
  /\ quota = [k \in Keys |-> 0]
  /\ expires = [k \in Keys |-> Never]
  /\ lastUsed = [k \in Keys |-> Never]
  /\ usage = [k \in Keys |-> [p \in Periods |-> 0]]

-----------------------------------------------------------------------------
Issued(k) == owner[k] # NoOwner
Expired(k) == expires[k] # Never /\ now >= expires[k]

(* What verify asks of the row before it looks at the quota.               *)
Usable(k) == Issued(k) /\ k \in active /\ k \notin revoked /\ ~Expired(k)

(* current_period() at this instant.                                       *)
Period == PeriodOf[now]

(* Mutant of QuotaLeft: one evaluation too many.                           *)
QuotaNotExceeded(k) == usage[k][Period] <= quota[k]

(* What verify asks of the usage table.                                    *)
QuotaLeft(k) == usage[k][Period] < quota[k]

(* plans::limits_for of the plan of the key's customer.                    *)
LimitsFor(k) == IF customer[owner[k]] \in Sold THEN customer[owner[k]] ELSE Fallback

(* Mutant of InsertCustomer: INSERT OR REPLACE, blind to an id in use.     *)
ReplaceCustomer(c, plan) ==
  /\ customer' = [customer EXCEPT ![c] = plan]
  /\ UNCHANGED <<owner, active, revoked, quota, expires, lastUsed, usage>>

(* INSERT INTO customer.                                                   *)
InsertCustomer(c, plan) ==
  /\ customer[c] = NoPlan
  /\ customer' = [customer EXCEPT ![c] = plan]
  /\ UNCHANGED <<owner, active, revoked, quota, expires, lastUsed, usage>>

(* INSERT INTO api_key, with the quota its caller read from the plan.      *)
InsertKey(k, c, q, e) ==
  /\ ~Issued(k)
  /\ owner' = [owner EXCEPT ![k] = c]
  /\ active' = active \cup {k}
  /\ quota' = [quota EXCEPT ![k] = q]
  /\ expires' = [expires EXCEPT ![k] = e]
  /\ UNCHANGED <<customer, revoked, lastUsed, usage>>

(* Mutant of Activate: it lifts the revocation too.                        *)
ActivateAnyway(k) ==
  /\ active' = IF Issued(k) THEN active \cup {k} ELSE active
  /\ revoked' = revoked \ {k}
  /\ UNCHANGED <<customer, owner, quota, expires, lastUsed, usage>>

(* UPDATE api_key SET active = 1 WHERE prefix = .. AND revoked_at IS NULL. *)
Activate(k) ==
  /\ active' = IF Issued(k) /\ k \notin revoked THEN active \cup {k} ELSE active
  /\ UNCHANGED <<customer, owner, revoked, quota, expires, lastUsed, usage>>

(* UPDATE api_key SET active = 0 WHERE prefix = ..                         *)
Deactivate(k) ==
  /\ active' = active \ {k}
  /\ UNCHANGED <<customer, owner, revoked, quota, expires, lastUsed, usage>>

(* UPDATE api_key SET active = 0, revoked_at = .. WHERE prefix = ..        *)
RevokeKey(k) ==
  /\ active' = active \ {k}
  /\ revoked' = IF Issued(k) THEN revoked \cup {k} ELSE revoked
  /\ UNCHANGED <<customer, owner, quota, expires, lastUsed, usage>>

(* The first statement of record_usage: the upsert of the current period.  *)
CountUsage(k) ==
  /\ usage' = [usage EXCEPT ![k][Period] = @ + 1]
  /\ UNCHANGED <<customer, owner, active, revoked, quota, expires, lastUsed>>

(* The second statement of record_usage.                                   *)
StampUse(k) ==
  /\ lastUsed' = [lastUsed EXCEPT ![k] = now]
  /\ UNCHANGED <<customer, owner, active, revoked, quota, expires, usage>>

(* What an operator may do to the row by hand, without the guard of        *)
(* set_active: verify is written to withstand it.                          *)
RaiseByHand(k) ==
  /\ Issued(k)
  /\ active' = active \cup {k}
  /\ UNCHANGED <<customer, owner, revoked, quota, expires, lastUsed, usage>>

(* No caller of issue_key passes an expiry date: a row has one, or another *)
(* one, because an operator wrote it there.                                *)
ExpireByHand(k, e) ==
  /\ Issued(k)
  /\ expires' = [expires EXCEPT ![k] = e]
  /\ UNCHANGED <<customer, owner, active, revoked, quota, lastUsed, usage>>
=============================================================================
