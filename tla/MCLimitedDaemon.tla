-------------------------- MODULE MCLimitedDaemon --------------------------
(* A table of one, two addresses that want it, two workers.                  *)
EXTENDS LimitedDaemon, TLC

Symmetry == Permutations(Ips) \cup Permutations(Workers)
=============================================================================
