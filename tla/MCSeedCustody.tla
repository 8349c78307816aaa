--------------------------- MODULE MCSeedCustody ---------------------------
(* The field of four elements; a seed and its tag are one element each,    *)
(* and every seed has a tag of its own.                                    *)
EXTENDS SeedCustody

TagMC == [s \in {<<b>> : b \in 0..3} |-> <<(3 * s[1] + 1) % 4>>]
OwnMC == <<2>>
OthersMC == {<<3>>}

=============================================================================
