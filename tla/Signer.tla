------------------------------- MODULE Signer -------------------------------
(***************************************************************************)
(* Who holds the signing key (src/src/firmante): the memory of the program *)
(* (mod.rs), or a token asked over PKCS#11 (pkcs11.rs), which may be gone  *)
(* at any of the eight calls between looking for the keys and having both  *)
(* halves of a signature.                                                  *)
(***************************************************************************)
EXTENDS Hybrid

(* An object of a token: a private key that signs for a half, or a public  *)
(* one, with the form of the attribute that holds it.                      *)
Object(label, class, half, key, form) ==
  [label |-> label, class |-> class, half |-> half, key |-> key, form |-> form]

(* A token, and the call that fails, if one does: with a code of PKCS#11,  *)
(* or, of those that sign, with something of another length.               *)
Fault(call, code) == [call |-> call, code |-> code]
NoFault == Fault(0, "")
Token11(objects, fault) == [objects |-> objects, fault |-> fault]

(* The next step on what the last one gave, unless it was refused.         *)
Then(result, Step(_)) == IF result.status = "ok" THEN Step(result.data) ELSE result

GoneCodes == {"DeviceRemoved", "DeviceError", "TokenNotPresent", "SessionClosed", "SessionHandleInvalid"}
traducir(code) == Refused(IF code \in GoneCodes THEN "unavailable" ELSE "refused")

Asked(fault, call, result) ==
  IF fault.call # call THEN result
  ELSE IF fault.code = "length" THEN Refused("length")
  ELSE traducir(fault.code)

buscar_uno(token, call, label, class) ==
  LET found == {o \in token.objects : o.label = label /\ o.class = class}
  IN  Asked(token.fault, call,
            IF Cardinality(found) = 1 THEN Done(CHOOSE o \in found : TRUE) ELSE Refused("refused"))

buscar_par(token, call, label) ==
  Then(buscar_uno(token, call, label, "private"), LAMBDA private :
    Then(buscar_uno(token, call + 1, label, "public"), LAMBDA public : Done(<<private, public>>)))

(* EC_POINT may come wrapped as an octet string, and the key is a point;   *)
(* VALUE comes as it is.                                                   *)
leer_ed25519_publica(token, object) ==
  Asked(token.fault, 5,
        IF object.half = "ed" /\ object.form \in {"wrapped", "raw", "no point"} THEN Done(object)
        ELSE Refused("refused"))
leer_mldsa_publica(token, object) ==
  Asked(token.fault, 6,
        IF object.half = "ml" /\ object.form = "raw" THEN Done(object) ELSE Refused("refused"))

(* A custodian: what signs each half, the verifying key it goes by, and    *)
(* the call that will fail.                                                *)
Custodian(ed, ml, vk, fault) == [ed |-> ed, ml |-> ml, verificacion |-> vk, fault |-> fault]

EnMemoria(vk) ==
  Custodian(Object("", "private", "ed", vk.ed, ""), Object("", "private", "ml", vk.ml, ""), vk, NoFault)

nuevo(token, ed, ml) ==
  Then(leer_ed25519_publica(token, ed[2]), LAMBDA edPublic :
    Then(leer_mldsa_publica(token, ml[2]), LAMBDA mlPublic :
      IF edPublic.form = "no point" THEN Refused("refused")
      ELSE Done(Custodian(ed[1], ml[1], VerifyingKey(edPublic.key, mlPublic.key), token.fault))))

por_etiqueta(token, edLabel, mlLabel) ==
  Then(buscar_par(token, 1, edLabel), LAMBDA ed :
    Then(buscar_par(token, 3, mlLabel), LAMBDA ml : nuevo(token, ed, ml)))

(* A token refuses to sign with a key of another algorithm.                *)
firmar_crudo(custodian, call, half, preimage) ==
  Asked(custodian.fault, call,
        IF custodian[half].half = half THEN Done(HalfSignature(custodian[half].key, preimage))
        ELSE Refused("refused"))

(* Of what the custodian returns only the length is looked at.             *)
firmar(custodian, message) ==
  LET preimage == build_preimage(custodian.verificacion, message) IN
  Then(firmar_crudo(custodian, 7, "ed", preimage), LAMBDA ed :
    Then(firmar_crudo(custodian, 8, "ml", preimage), LAMBDA ml : Done([ed |-> ed, ml |-> ml])))

(* The halves of what a custodian signs that its verifying key verifies.   *)
SoundHalves(custodian) == {h \in HybridHalves : custodian[h].key = custodian.verificacion[h]}
=============================================================================
