--------------------------- MODULE MCOprfService ---------------------------
(* Two plans of different size; a clock that starts two seconds before the *)
(* year 2025, with which a billing period begins.                          *)
EXTENDS OprfService, Calendar

CapacityMC == [p \in Plans |-> IF p = "pro" THEN 3 ELSE 2]
RefillMC == [p \in Plans |-> 1]
QuotaMC == [p \in Sold |-> IF p = "pro" THEN 2 ELSE 1]
PeriodOfMC == [t \in 0..MaxTime |-> period_of(1735689598 + t)]
PeriodsMC == {PeriodOfMC[t] : t \in 0..MaxTime}
=============================================================================
