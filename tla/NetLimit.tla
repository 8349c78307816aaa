------------------------------ MODULE NetLimit ------------------------------
(***************************************************************************)
(* The limiter of queries per address of the OPRF network daemon           *)
(* (src/src/netlimit.rs). The daemon keeps it behind a mutex and reads a   *)
(* monotonic clock under it, so a call of allow is one atomic step.        *)
(*                                                                         *)
(* Each address has an observer: an interval that may begin at any moment  *)
(* and counts the queries admitted in it. Observers change nothing in the  *)
(* limiter; they let an invariant speak of every interval.                 *)
(***************************************************************************)
EXTENDS Integers, FiniteSets

CONSTANTS
  Ips,           \* addresses
  MaxPerWindow,  \* queries an address may make in a window
  Window,        \* length of the window, in ticks
  MaxTracked,    \* addresses the table may hold
  MaxTime,       \* bound on the clock, for model checking
  NoEntry        \* an address that is not in the table

(* new raises a ceiling of 0 to 1; the daemon allows 10 queries a window.   *)
ASSUME NetLimitAssumption ==
  /\ IsFiniteSet(Ips)
  /\ MaxPerWindow \in Nat \ {0}
  /\ Window \in Nat
  /\ MaxTracked \in Nat \ {0}
  /\ MaxTime \in Nat
  /\ NoEntry \notin [used : 1..MaxPerWindow, at : Nat]

VARIABLES
  hits,     \* the table: (queries used, start of the window) by address
  now,      \* the clock
  since,    \* observer: when the address's interval began
  count,    \* observer: queries admitted to the address in its interval
  last,     \* observer: when the address was last admitted, -1 for never
  denied    \* observer: the addresses denied since the clock last moved

observers == <<since, count, last, denied>>
vars == <<hits, now, observers>>

Entry == [used : 1..MaxPerWindow, at : Nat]

Init ==
  /\ hits = [i \in Ips |-> NoEntry]
  /\ now = 0
  /\ since = [i \in Ips |-> 0]
  /\ count = [i \in Ips |-> 0]
  /\ last = [i \in Ips |-> -1]
  /\ denied = {}

-----------------------------------------------------------------------------
Expired(e) == now - e.at > Window

Tracked(t) == {i \in Ips : t[i] # NoEntry}

Full(t) == Cardinality(Tracked(t)) >= MaxTracked

(* A defect: a full table makes room by dropping every entry.              *)
PurgedWholly == [i \in Ips |-> IF Full(hits) THEN NoEntry ELSE hits[i]]

(* Only a full table is purged, of every entry whose window is over.       *)
Purged ==
  [i \in Ips |-> IF Full(hits) /\ hits[i] # NoEntry /\ Expired(hits[i])
                 THEN NoEntry ELSE hits[i]]

(* A defect: a full table refuses new addresses without purging.           *)
NoRoomAtAll(i) == Full(hits) /\ hits[i] = NoEntry

(* A full table takes no new address.                                      *)
NoRoom(i) == Full(Purged) /\ Purged[i] = NoEntry

(* What the address has used of its window, which starts now if it had     *)
(* none or it is over.                                                     *)
Fresh(i) == hits[i] = NoEntry \/ Expired(hits[i])
Used(i) == IF Fresh(i) THEN 0 ELSE hits[i].used
Start(i) == IF Fresh(i) THEN now ELSE hits[i].at

Admits(i) == ~NoRoom(i) /\ Used(i) < MaxPerWindow

(* allow answers true.                                                     *)
Admit(i) ==
  /\ Admits(i)
  /\ hits' = [Purged EXCEPT ![i] = [used |-> Used(i) + 1, at |-> Start(i)]]
  /\ count' = [count EXCEPT ![i] = @ + 1]
  /\ last' = [last EXCEPT ![i] = now]
  /\ UNCHANGED <<now, since, denied>>

(* allow answers false: the purge is kept.                                 *)
Deny(i) ==
  /\ ~Admits(i)
  /\ hits' = Purged
  /\ denied' = denied \cup {i}
  /\ UNCHANGED <<now, since, count, last>>

Tick ==
  /\ now < MaxTime
  /\ now' = now + 1
  /\ denied' = {}
  /\ UNCHANGED <<hits, since, count, last>>

(* A new interval begins for the observer of an address.                   *)
Observe(i) ==
  /\ since' = [since EXCEPT ![i] = now]
  /\ count' = [count EXCEPT ![i] = 0]
  /\ denied' = denied \ {i}
  /\ UNCHANGED <<hits, now, last>>

Next ==
  \/ \E i \in Ips : Admit(i) \/ Deny(i) \/ Observe(i)
  \/ Tick

Spec == Init /\ [][Next]_vars

TypeOK ==
  /\ hits \in [Ips -> Entry \cup {NoEntry}]
  /\ now \in Nat
  /\ since \in [Ips -> Nat]
  /\ count \in [Ips -> Nat]
  /\ last \in [Ips -> Nat \cup {-1}]
  /\ denied \in SUBSET Ips

-----------------------------------------------------------------------------
(* An interval no longer than n windows admits at most n + 1 allowances to *)
(* one address, wherever it begins: purging a full table gives nobody a    *)
(* second allowance early, and a window that is over starts the next one   *)
(* only at the next query.                                                 *)
IntervalBound ==
  \A i \in Ips, n \in 1..(MaxTime + 1) :
    now - since[i] <= n * Window => count[i] <= (n + 1) * MaxPerWindow

(* The table never holds more addresses than its ceiling, however many     *)
(* ask (netlimit.rs: "Crecimiento de memoria sin limite").                 *)
MemoryBounded == Cardinality(Tracked(hits)) <= MaxTracked

(* The address has had a whole allowance in an interval a little longer    *)
(* than the window.                                                        *)
HadItsShare(i) == count[i] >= MaxPerWindow

(* Within the last window, as many other addresses as the table holds were *)
(* admitted.                                                               *)
CrowdedOut(i) ==
  Cardinality({j \in Ips \ {i} : last[j] >= 0 /\ now - last[j] <= Window}) >= MaxTracked

(* A denial is always explained by recent service: either the address has  *)
(* had its whole allowance within the last window, or enough others to     *)
(* fill the table were served within it. Entries whose window is over      *)
(* never keep anybody out.                                                 *)
DenialExplained ==
  \A i \in denied :
    now - since[i] > Window => HadItsShare(i) \/ CrowdedOut(i)
=============================================================================
