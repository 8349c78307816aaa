\* One key of either plan, the server and a CLI process, through crashes, failed statements, expiry and the turn of a
\* period, under the fairness of a running thread and systemd.
SPECIFICATION FairSpec
CONSTANTS
  Keys = {k1}
  Customers = {c1}
  Operators = {op}
  Server = server
  Plans = {"starter", "pro", "other"}
  Sold = {"starter", "pro"}
  Fallback = "other"
  Capacity <- CapacityMC
  Refill <- RefillMC
  PlanQuota <- QuotaMC
  PeriodOf <- PeriodOfMC
  Periods <- PeriodsMC
  Scale = 1
  MaxTime = 2
  Expiries = {1}
  AdminEnabled = TRUE
  Faults = TRUE
  MaxLost = 1
  Never = Never
  NoBucket = NoBucket
  NoPlan = NoPlan
  NoOwner = NoOwner
  NoRequest = NoRequest
INVARIANTS
  AtMostOneLateAnswer
  QuotaNeverOvercharged
  ChargesAccounted
  KeysMatchTheirSale
  OnlyIssuedKeysHaveBuckets
PROPERTIES
  LedgerSpec
  ServerComesBack
