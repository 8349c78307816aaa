---------------------------- MODULE OprfService ----------------------------
(***************************************************************************)
(* The OPRF server as deployed: one single-threaded HTTP process           *)
(* (http.rs), and any number of operator processes (the CLI of main.rs)    *)
(* that share the SQLite file with it. A request is handled statement by   *)
(* statement; an operator's statement may fall between any two of them,    *)
(* the server may crash between any two of them, and a statement may fail  *)
(* (the file is locked by the other process, the disk is full).            *)
(*                                                                         *)
(* Requests that are refused before the store is touched (no bearer token, *)
(* unreadable body, not 64 hex digits, no admin token) change nothing and  *)
(* are left out.                                                           *)
(***************************************************************************)
EXTENDS Store, FiniteSets

CONSTANTS
  Operators,     \* processes that run the CLI
  Server,        \* the HTTP process
  AdminEnabled,  \* QUIPU_OPRF_ADMIN_TOKEN is configured
  Faults,        \* store statements may fail
  MaxLost,       \* bound on failed usage records per key and period
  NoRequest      \* the server is not evaluating

Procs == Operators \cup {Server}

ASSUME ServiceAssumption ==
  /\ Server \notin Operators
  /\ AdminEnabled \in BOOLEAN /\ Faults \in BOOLEAN
  /\ MaxLost \in Nat

VARIABLES
  pc,           \* what the server does next
  req,          \* the evaluation request being served
  minting,      \* [Procs -> customer created whose key is not issued yet]
  granting,     \* [Procs -> the quota looked up for it: quota_for]
  served,       \* [Keys -> [Periods -> Nat]]: 200 answers delivered
  undelivered,  \* ...: evaluations recorded or lost, then never delivered
  lost,         \* ...: evaluations whose usage record failed
  late          \* [Keys -> Nat]: answers since the key became unusable

issuing == <<minting, granting>>
control == <<pc, req, issuing>>
ledger == <<served, undelivered, lost, late>>
vars == <<bucket, now, tables, control, ledger>>

Billing == {"stamp", "reply"}                      \* the period is decided
InFlight == {"usage", "limit", "record"} \cup Billing   \* the row was accepted
Evaluating == {"row"} \cup InFlight
Idle == {"idle", "down"}

(* period is meaningful while Billing: the one record_usage counted in.    *)
Request == [key : Keys, genuine : BOOLEAN, point : BOOLEAN, period : Periods]

ASSUME NoRequestAssumption == NoRequest \notin Request

TypeOK ==
  /\ bucket \in [Keys -> Bucket \cup {NoBucket}]
  /\ now \in 0..MaxTime
  /\ StoreTypeOK
  /\ pc \in Evaluating \cup Idle \cup {"key"}
  /\ req \in Request \cup {NoRequest}
  /\ pc \in Evaluating <=> req \in Request
  /\ minting \in [Procs -> Customers \cup {NoOwner}]
  /\ granting \in [Procs -> Nat]
  /\ served \in [Keys -> [Periods -> Nat]]
  /\ undelivered \in [Keys -> [Periods -> Nat]]
  /\ lost \in [Keys -> [Periods -> Nat]]
  /\ late \in [Keys -> Nat]

NoneCounted == [k \in Keys |-> [p \in Periods |-> 0]]

Init ==
  /\ StoreInit
  /\ bucket = [k \in Keys |-> NoBucket] /\ now = 0
  /\ pc = "idle" /\ req = NoRequest
  /\ minting = [p \in Procs |-> NoOwner] /\ granting = [p \in Procs |-> 0]
  /\ served = NoneCounted /\ undelivered = NoneCounted /\ lost = NoneCounted
  /\ late = [k \in Keys |-> 0]

-----------------------------------------------------------------------------
(* The evaluation handler (http.rs evaluate, store.rs verify).             *)

(* A request with a well-formed key and body. genuine: its hash is the one *)
(* stored for that prefix. point: the body decodes to a valid point.       *)
Receive(k, genuine, point) ==
  /\ pc = "idle"
  /\ pc' = "row"
  /\ req' = [key |-> k, genuine |-> genuine, point |-> point, period |-> Period]
  /\ UNCHANGED <<bucket, now, tables, issuing, ledger>>

(* The handler answers with something other than 200 and forgets it.       *)
Refuse == pc' = "idle" /\ req' = NoRequest
Continue(next) == pc' = next /\ UNCHANGED req

(* Mutants of ReadRow: a key still works at the instant it expires; the    *)
(* limiter is consulted before anyone is authenticated.                    *)
ReadRowAtExpiry ==
  /\ pc = "row"
  /\ IF /\ req.genuine
        /\ Usable(req.key) \/ (req.key \in active \ revoked /\ expires[req.key] = now)
     THEN Continue("usage") ELSE Refuse
  /\ UNCHANGED <<bucket, now, tables, issuing, ledger>>
ReadRowLimitedFirst ==
  /\ pc = "row"
  /\ Spend(req.key, Fallback)
  /\ IF req.genuine /\ Usable(req.key) THEN Continue("usage") ELSE Refuse
  /\ UNCHANGED <<now, tables, issuing, ledger>>

(* SELECT of the row, then hash, revoked_at, active and expiry.            *)
ReadRow ==
  /\ pc = "row"
  /\ IF req.genuine /\ Usable(req.key) THEN Continue("usage") ELSE Refuse
  /\ UNCHANGED <<bucket, now, tables, issuing, ledger>>

(* SELECT of the current period's count, then the quota.                   *)
ReadUsage ==
  /\ pc = "usage"
  /\ IF QuotaLeft(req.key) THEN Continue("limit") ELSE Refuse
  /\ UNCHANGED <<bucket, now, tables, issuing, ledger>>

(* Mutant of VerifyFails: retry for as long as the database is busy.       *)
VerifyRetries ==
  /\ Faults
  /\ pc = "usage"
  /\ Continue("row")
  /\ UNCHANGED <<bucket, now, tables, issuing, ledger>>

(* A SELECT of verify fails: 500.                                          *)
VerifyFails ==
  /\ Faults
  /\ pc \in {"row", "usage"}
  /\ Refuse
  /\ UNCHANGED <<bucket, now, tables, issuing, ledger>>

(* The burst limiter, and then blind_evaluate: an invalid point costs a    *)
(* token but no quota.                                                     *)
Admit ==
  /\ pc = "limit"
  /\ Spend(req.key, LimitsFor(req.key))
  /\ IF Admits(req.key, LimitsFor(req.key)) /\ req.point
     THEN Continue("record") ELSE Refuse
  /\ UNCHANGED <<now, tables, issuing, ledger>>

(* The upsert of record_usage, in the period of this instant.              *)
Record ==
  /\ pc = "record"
  /\ CountUsage(req.key)
  /\ pc' = "stamp"
  /\ req' = [req EXCEPT !.period = Period]
  /\ UNCHANGED <<bucket, now, issuing, ledger>>

(* The upsert fails; evaluate discards the error and answers 200.          *)
RecordFails ==
  /\ Faults
  /\ pc = "record"
  /\ lost[req.key][Period] < MaxLost
  /\ pc' = "reply"
  /\ req' = [req EXCEPT !.period = Period]
  /\ lost' = [lost EXCEPT ![req.key][Period] = @ + 1]
  /\ UNCHANGED <<bucket, now, tables, issuing, served, undelivered, late>>

Stamp ==
  /\ pc = "stamp"
  /\ StampUse(req.key)
  /\ Continue("reply")
  /\ UNCHANGED <<bucket, now, issuing, ledger>>

(* Mutant of StampFails: an error of record_usage turns the answer to 500. *)
StampFailsAndRefuses ==
  /\ Faults
  /\ pc = "stamp"
  /\ Refuse
  /\ UNCHANGED <<bucket, now, tables, issuing, ledger>>

(* The stamp fails, after the charge: the answer is given all the same.    *)
StampFails ==
  /\ Faults
  /\ pc = "stamp"
  /\ Continue("reply")
  /\ UNCHANGED <<bucket, now, tables, issuing, ledger>>

(* 200 reaches the client.                                                 *)
Reply ==
  /\ pc = "reply"
  /\ Refuse
  /\ served' = [served EXCEPT ![req.key][req.period] = @ + 1]
  /\ late' = IF Usable(req.key) THEN late ELSE [late EXCEPT ![req.key] = @ + 1]
  /\ UNCHANGED <<bucket, now, tables, issuing, undelivered, lost>>

Undelivered == [undelivered EXCEPT ![req.key][req.period] = @ + 1]

(* The client has gone: the error of request.respond is discarded.         *)
ReplyLost ==
  /\ pc = "reply"
  /\ Refuse
  /\ undelivered' = Undelivered
  /\ UNCHANGED <<bucket, now, tables, issuing, served, lost, late>>

-----------------------------------------------------------------------------
(* Issuing a key takes two statements, in either kind of process           *)
(* (http.rs admin_issue, main.rs issue).                                   *)

MayIssue(p) == p = Server => AdminEnabled /\ pc = "idle"

(* Bound: Keys is finite, and an INSERT that finds none left fails.        *)
KeyRemains == \E k \in Keys : ~Issued(k)

(* The plan asked for is looked up (quota_for) before the first INSERT;    *)
(* the second writes what was found then.                                  *)
CreateCustomer(p, c, plan) ==
  /\ MayIssue(p)
  /\ KeyRemains
  /\ minting[p] = NoOwner
  /\ InsertCustomer(c, plan)
  /\ minting' = [minting EXCEPT ![p] = c]
  /\ granting' = [granting EXCEPT ![p] = PlanQuota[plan]]
  /\ pc' = IF p = Server THEN "key" ELSE pc
  /\ UNCHANGED <<bucket, now, req, ledger>>

DoneIssuing(p) ==
  /\ minting' = [minting EXCEPT ![p] = NoOwner]
  /\ granting' = [granting EXCEPT ![p] = 0]
  /\ pc' = IF p = Server THEN "idle" ELSE pc

IssueKey(p, k) ==
  /\ minting[p] # NoOwner
  /\ InsertKey(k, minting[p], granting[p], Never)
  /\ DoneIssuing(p)
  /\ UNCHANGED <<bucket, now, req, ledger>>

(* The second INSERT fails, or an operator process is killed before it:    *)
(* the customer stays without a key.                                       *)
IssueFails(p) ==
  /\ Faults \/ ~KeyRemains
  /\ minting[p] # NoOwner
  /\ DoneIssuing(p)
  /\ UNCHANGED <<bucket, now, tables, req, ledger>>

-----------------------------------------------------------------------------
(* One-statement changes of a key, by POST /admin/keys/<prefix>/<action>   *)
(* or from the CLI. A failed one changes nothing.                          *)

(* A key that becomes usable again starts a new count of late answers.     *)
Renew(k) == late' = IF Usable(k)' THEN [late EXCEPT ![k] = 0] ELSE late

AdminActivate(k) ==
  /\ AdminEnabled /\ pc = "idle"
  /\ Activate(k)
  /\ UNCHANGED <<bucket, now, pc, req, issuing, served, undelivered, lost>>
  /\ Renew(k)

AdminClose(k) ==
  /\ AdminEnabled /\ pc = "idle"
  /\ Deactivate(k) \/ RevokeKey(k)
  /\ UNCHANGED <<bucket, now, pc, req, issuing, ledger>>

CliActivate(k) ==
  /\ Operators # {}
  /\ Activate(k)
  /\ UNCHANGED <<bucket, now, control, served, undelivered, lost>>
  /\ Renew(k)

CliClose(k) ==
  /\ Operators # {}
  /\ Deactivate(k) \/ RevokeKey(k)
  /\ UNCHANGED <<bucket, now, control, ledger>>

HandRaise(k) ==
  /\ RaiseByHand(k)
  /\ UNCHANGED <<bucket, now, control, served, undelivered, lost>>
  /\ Renew(k)

HandExpire(k, e) ==
  /\ ExpireByHand(k, e)
  /\ UNCHANGED <<bucket, now, control, served, undelivered, lost>>
  /\ Renew(k)

-----------------------------------------------------------------------------
(* The server process dies: the buckets, the request and a half-issued key *)
(* die with it; the tables do not.                                         *)
Crash ==
  /\ pc # "down"
  /\ pc' = "down" /\ req' = NoRequest
  /\ Forget
  /\ minting' = [minting EXCEPT ![Server] = NoOwner]
  /\ granting' = [granting EXCEPT ![Server] = 0]
  /\ undelivered' = IF pc \in Billing THEN Undelivered ELSE undelivered
  /\ UNCHANGED <<now, tables, served, lost, late>>

(* systemd: Restart=on-failure.                                            *)
Restart ==
  /\ pc = "down"
  /\ pc' = "idle"
  /\ UNCHANGED <<bucket, now, tables, req, issuing, ledger>>

Pass == Tick /\ UNCHANGED <<tables, control, ledger>>

Handle ==
  \/ ReadRow \/ ReadUsage \/ VerifyFails \/ Admit
  \/ Record \/ RecordFails \/ Stamp \/ StampFails
  \/ Reply \/ ReplyLost
  \/ \E k \in Keys : IssueKey(Server, k)
  \/ IssueFails(Server)

Next ==
  \/ \E k \in Keys, genuine, point \in BOOLEAN : Receive(k, genuine, point)
  \/ Handle
  \/ \E p \in Procs, c \in Customers, plan \in Sold : CreateCustomer(p, c, plan)
  \/ \E p \in Operators : (\E k \in Keys : IssueKey(p, k)) \/ IssueFails(p)
  \/ \E k \in Keys : \/ AdminActivate(k) \/ AdminClose(k)
                     \/ CliActivate(k) \/ CliClose(k) \/ HandRaise(k)
                     \/ \E e \in Expiries : HandExpire(k, e)
  \/ Crash
  \/ Restart
  \/ Pass

Spec == Init /\ [][Next]_vars

(* The server thread keeps running, and systemd brings it back.            *)
Fairness == WF_vars(Handle) /\ WF_vars(Restart)
FairSpec == Spec /\ Fairness

-----------------------------------------------------------------------------
(* No key is ever charged more evaluations in a billing period than its    *)
(* plan grants, although the quota is checked in one statement, charged in *)
(* another, and the period may turn between them (store.rs verify and      *)
(* record_usage).                                                          *)
QuotaNeverOvercharged ==
  \A k \in Keys, p \in Periods : usage[k][p] <= quota[k]

BeingBilled(k, p) == IF pc \in Billing /\ req.key = k /\ req.period = p THEN 1 ELSE 0

(* Every evaluation is accounted for, through crashes, failed statements   *)
(* and clients that leave: charged or lost on one side, delivered, lost on *)
(* the way or being billed on the other. Nothing is charged twice and      *)
(* nothing is delivered that was neither charged nor lost.                 *)
ChargesAccounted ==
  \A k \in Keys, p \in Periods :
    usage[k][p] + lost[k][p] = served[k][p] + undelivered[k][p] + BeingBilled(k, p)

(* Once a key stops being usable - revoked, deactivated or expired, by any *)
(* process and even if a row is edited by hand - at most one more answer   *)
(* is delivered for it: the one the single thread was already computing.   *)
AtMostOneLateAnswer ==
  \A k \in Keys : late[k] <= 1

(* What a key is granted is what the plan of its own customer sells: two   *)
(* statements and two tables agree, and no two keys share a customer.      *)
KeysMatchTheirSale ==
  \A k \in Keys : Issued(k) =>
    /\ customer[owner[k]] \in Sold /\ quota[k] = PlanQuota[customer[owner[k]]]
    /\ \A j \in Keys : owner[j] = owner[k] => j = k
    /\ \A p \in Procs : minting[p] # owner[k]

(* The limiter's map grows only with keys that were issued: presenting     *)
(* made-up keys costs no memory (http.rs consults it after verify).        *)
OnlyIssuedKeysHaveBuckets ==
  \A k \in Keys : bucket[k] # NoBucket => Issued(k)

(* A request being served, or a key being issued over HTTP, ends: the one  *)
(* thread is back for the next request, or the process is.                 *)
ServerComesBack == []<>(pc = "idle")

(* The abstract ledger, seen through the tables.                           *)
Ledger == INSTANCE KeyLedger WITH
  status <- [k \in Keys |-> IF k \in revoked THEN "revoked"
                            ELSE IF Issued(k) THEN "issued" ELSE "absent"],
  limit <- quota,
  charged <- usage,
  Quotas <- {PlanQuota[p] : p \in Sold}

(* Whatever the processes do and whatever fails, the tables move as the    *)
(* ledger of keys allows.                                                  *)
LedgerSpec == Ledger!Spec
=============================================================================
