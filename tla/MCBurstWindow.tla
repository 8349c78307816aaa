--------------------------- MODULE MCBurstWindow ---------------------------
(* Two plans whose ceilings and refill rates differ, a token of three units  *)
(* so that the smaller plan earns a third of a token per tick.             *)
EXTENDS BurstWindow

CapacityMC == [p \in Plans |-> IF p = "starter" THEN 4 ELSE 7]
RefillMC == [p \in Plans |-> IF p = "starter" THEN 1 ELSE 2]
=============================================================================
