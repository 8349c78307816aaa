---------------------------- MODULE MCStreamAead ----------------------------
(* Chunks of two bytes and two counters: one file of every length from empty *)
(* to more than two counters can hold, one of a chunk and a half.            *)
EXTENDS StreamAead

LengthsMC == [f \in Files |-> IF f = "long" THEN {0, 1, 2, 3, 4, 5, 7} ELSE {3}]
=============================================================================
