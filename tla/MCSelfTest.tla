----------------------------- MODULE MCSelfTest -----------------------------
(* Two threads; a system that delivers two healthy buffers and one that gets *)
(* stuck; machines that fail none of the checks, the first or a late one.    *)
EXTENDS SelfTest

BuffersMC == {<<0, 1, 0>>, <<1, 1, 0>>, <<0, 0, 0>>}
FaultyMC == {{}, {"hkdf"}, {"sign_forged"}}

(* The field of the program's shares, with the polynomial of AES.            *)
Byte == INSTANCE Shamir WITH Width <- 8, Reduction <- 27, Tag <- [s \in {<<0>>} |-> <<0>>]

(* The products that shamir.rs is tested with.                               *)
ASSUME AesProducts == Byte!gf_mul[87][131] = 193 /\ Byte!gf_mul[87][19] = 254

(* Every byte but 0 has an inverse: what the proofs assume of the field.     *)
ASSUME AesInverses == \A a \in Byte!Field \ {0} : Byte!gf_mul[a][Byte!gf_inv[a]] = 1
=============================================================================
