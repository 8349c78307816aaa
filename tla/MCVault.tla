------------------------------ MODULE MCVault ------------------------------
(* Three passphrases: one, the same from another keyboard, and one that    *)
(* begins like it and goes on like a pepper.                               *)
EXTENDS Vault

HashToGroupMC == [composed |-> 5, decomposed |-> 7, longer |-> 11]
(* The first hash of one seed is zero.                                     *)
HashToScalarMC(t) ==
  CASE t[1] = "DeriveKeyPair" -> IF t[2] = "own" THEN 17 * t[4] ELSE 40
    [] t[1] = "Composite" -> (3 + 7 * t[2][2] + 13 * t[4] * t[4] + 29 * t[5]) % Order
    [] OTHER -> (5 + 11 * t[2] + 19 * t[3] * t[3] + 23 * t[4] + 31 * t[5] * t[6] + 37 * t[6]) % Order
(* The blinding of the second is zero; the third meets its own request.    *)
DrawsMC == {Draw(3, 8, 55), Draw(0, 9, 42), Draw(20, 60, 100)}

CharactersMC == {<<"c">>, <<"d">>}
NormalMC == [composed |-> <<<<"c">>>>, decomposed |-> <<<<"c">>>>, longer |-> <<<<"c">>, <<"d">>>>]
PeppersMC == {<<>>, <<<<"d">>>>}
MaxIterationsMC == [s \in Suites |-> IF s = "quipu" THEN 1 ELSE 2]
StreamMC == [s \in {Normal[p] \o e : p \in Passphrases, e \in Peppers} |-> 3 * Len(s)]
DocumentsMC == {<<>>, <<<<"c">>>>, <<<<"c">>, <<"d">>>>}
CostsMC == {KdfParams(8, 1, 1), KdfParams(8, 2, 1), KdfParams(4, 1, 1)}
RecipientsMC == {HybridKey(1, 1), HybridKey(1, 2)}
SignersMC == {VerifyingKey(1, 1), VerifyingKey(1, 2), TripleVerifyingKey(1, 1, 1), SoleVerifyingKey(1)}

(* Tokens: a sound one, with each call failing; one whose pair under a     *)
(* label is not a pair; others that do not have what is looked for.        *)
Pair(label, half, key, public, form) ==
  {Object(label, "private", half, key, ""), Object(label, "public", half, public, form)}
SoundMC == Pair("ed", "ed", 1, 1, "wrapped") \cup Pair("ml", "ml", 1, 1, "raw")
FaultsMC == {NoFault, Fault(7, "length"), Fault(8, "length")}
  \cup {Fault(k, c) : k \in 1..8, c \in {"DeviceRemoved", "KeyHandleInvalid"}}
ObjectsMC ==
  {Pair("ed", "ed", 1, 1, "raw") \cup Pair("ml", "ml", 2, 1, "raw"),
   Pair("ed", "ed", 1, 1, "no point") \cup Pair("ml", "ml", 1, 1, "raw"),
   Pair("ed", "ed", 1, 1, "missing") \cup Pair("ml", "ml", 1, 1, "raw"),
   Pair("ed", "ed", 1, 1, "raw") \cup Pair("ml", "ml", 1, 1, "wrapped"),
   Pair("ed", "ml", 1, 1, "raw") \cup Pair("ml", "ed", 1, 1, "raw"),
   SoundMC \cup Pair("ed", "ed", 2, 2, "raw"), Pair("ed", "ed", 1, 1, "raw")}
TokensMC == {Token11(SoundMC, f) : f \in FaultsMC} \cup {Token11(o, NoFault) : o \in ObjectsMC}
SecretsMC == {<<7>>, <<0, 9>>, <<12>>, <<1, 2, 3>>}
ProfilesMC == <<KdfParams(8, 1, 1), KdfParams(16, 1, 1)>>
=============================================================================
