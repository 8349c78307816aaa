------------------------------- MODULE Hybrid -------------------------------
(***************************************************************************)
(* What is sealed for a recipient and what is signed: two algorithms side  *)
(* by side (pqhybrid.rs, pqsign.rs), keys that a custodian holds           *)
(* (firmante), and their pipelines (api.rs).                               *)
(*                                                                         *)
(* A key stands for both its halves, the secret one and the public one; a  *)
(* signature by a half says which half it is of and what was signed.       *)
(***************************************************************************)
EXTENDS Sealing

CONSTANT LengthWrap    \* 2^32, of a length written in four bytes

ASSUME HybridAssumption == LengthWrap \in Nat \ {0}

HybridKey(x, ml) == [x |-> x, ml |-> ml]

combine(x_ss, ml_ss, transcript) == <<"hybrid-kem", x_ss, ml_ss, transcript>>

(* The n-th encapsulation: one ephemeral for each half.                    *)
Encapsulation(n) == HybridKey(n, n)

encapsulate(recipient, n) ==
  combine(<<n, recipient.x>>, <<n, recipient.ml>>, <<recipient, Encapsulation(n)>>)

decapsulate(recipient, encapsulation) ==
  combine(<<encapsulation.x, recipient.x>>, <<encapsulation.ml, recipient.ml>>,
          <<recipient, encapsulation>>)

encode_to_recipient(data, recipient, n) ==
  LET header == [Blank EXCEPT !.magic = "QPQ1", !.nonce = n, !.encapsulation = <<Encapsulation(n)>>]
  IN  Blob("quipu", header, encrypt(encapsulate(recipient, n), n, pad(data), aad(header)))

decode_as_recipient(blob, recipient) ==
  LET h == blob.header IN
  IF blob.cut THEN Refused("too short")
  ELSE IF h.magic # "QPQ1" THEN Refused("magic")
  ELSE IF h.version # Version THEN Refused("version")
  ELSE Unframed(decrypt(decapsulate(recipient, h.encapsulation[1]), h.nonce, blob.body, aad(h)))

(* quipu-cnsa destinatario.rs: one half only, no magic, no frame; what is  *)
(* sealed goes with the encapsulation.                                     *)
clave_de_contenido(encapsulated, ml) == <<"kem", <<encapsulated, ml>>, <<ml, encapsulated>>>>

cifrar_para(data, recipient, n) ==
  Blob("quipu-cnsa", [Blank EXCEPT !.nonce = n, !.encapsulation = <<Encapsulation(n)>>],
       encrypt(clave_de_contenido(n, recipient.ml), n, data, <<n>>))

descifrar(blob, recipient) ==
  LET encapsulated == blob.header.encapsulation[1].ml IN
  IF blob.cut THEN Refused("decrypt")
  ELSE decrypt(clave_de_contenido(encapsulated, recipient.ml), blob.header.nonce, blob.body, <<encapsulated>>)

-----------------------------------------------------------------------------
HybridHalves == {"ed", "ml"}

(* Verifying keys: [halves -> keys], two halves or three; quipu-cnsa's is  *)
(* of one. What is signed begins with a label of each of the three kinds.  *)
VerifyingKey(ed, ml) == [ed |-> ed, ml |-> ml]
TripleVerifyingKey(ed, ml, slh) == [ed |-> ed, ml |-> ml, slh |-> slh]

build_preimage(vk, message) == <<vk, message>>

HalfSignature(key, preimage) == <<key, preimage>>

sign(vk, message) == [h \in DOMAIN vk |-> HalfSignature(vk[h], build_preimage(vk, message))]

(* Bug: one half that is right is enough.                                  *)
verifyEither(vk, message, signature) ==
  \E h \in DOMAIN vk : signature[h] = HalfSignature(vk[h], build_preimage(vk, message))

verify(vk, message, signature) ==
  \A h \in DOMAIN vk : signature[h] = HalfSignature(vk[h], build_preimage(vk, message))

(* The length is kept modulo LengthWrap.                                   *)
armar_firmado(magic, message, signature) ==
  Blob("quipu", [Blank EXCEPT !.magic = magic, !.length = Len(message) % LengthWrap],
       <<"signed", message, signature>>)

(* decode_verified and decode_verified_triple: the length written must be  *)
(* that of the message between the prefix and the signature.               *)
decode_verified(magic, blob, vk) ==
  IF blob.cut \/ blob.body[1] # "signed" THEN Refused("too short")
  ELSE IF blob.header.magic # magic THEN Refused("magic")
  ELSE IF blob.header.version # Version THEN Refused("version")
  ELSE IF blob.header.length # Len(blob.body[2]) THEN Refused("too short")
  ELSE IF DOMAIN blob.body[3] = DOMAIN vk /\ verify(vk, blob.body[2], blob.body[3])
         THEN Done(blob.body[2])
  ELSE Refused("signature")

(* quipu-cnsa firma.rs: the signature goes apart from the message.         *)
SoleVerifyingKey(ml) == [ml |-> ml]

firmar_aparte(vk, message) ==
  Blob("quipu-cnsa", Blank, <<"signed", message, sign(vk, message)>>)

verificar(blob, vk) ==
  IF /\ ~blob.cut /\ blob.body[1] = "signed" /\ DOMAIN blob.body[3] = DOMAIN vk
     /\ verify(vk, blob.body[2], blob.body[3])
  THEN Done(blob.body[2]) ELSE Refused("signature")
=============================================================================
