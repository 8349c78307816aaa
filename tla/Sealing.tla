------------------------------ MODULE Sealing ------------------------------
(***************************************************************************)
(* Sealing with a passphrase: its derivation (kdf.rs), the cipher, the     *)
(* length frame (padme-frame), the container with its header (quipu-nucleo *)
(* container.rs), the OPRF service (oprf_net.rs) and the pipelines over    *)
(* them (api.rs, and quipu-cnsa's, the same structure under labels of its  *)
(* own).                                                                   *)
(*                                                                         *)
(* Ciphers and derivations are ideal: a key is the tuple of what it was    *)
(* derived from, and a sealed body opens only with the key, the nonce and  *)
(* the associated data it was sealed with. The n-th artifact is made with  *)
(* the n-th salt and nonce, which no other has.                            *)
(***************************************************************************)
EXTENDS Voprf, Sequences

CONSTANTS
  Characters,
  Normal,          \* [passphrases as typed -> their NFKC form, in characters]
  MaxMemory, MaxParallelism,
  MaxIterations,   \* [Suites -> Nat]
  LengthPrefix     \* LEN_PREFIX, bytes of the length before the data

Suites == {"quipu", "quipu-cnsa"}
Passphrases == DOMAIN Normal

ASSUME SealingAssumption ==
  /\ \A p \in Passphrases : Normal[p] \in Seq(Characters)
  /\ {MaxMemory, MaxParallelism} \cup {MaxIterations[s] : s \in Suites} \subseteq Nat
  /\ LengthPrefix \in Nat \ {0, 1}

-----------------------------------------------------------------------------
KdfParams(mem, iterations, parallelism) ==
  [mem |-> mem, iterations |-> iterations, parallelism |-> parallelism]

(* What Argon2 itself takes; anything else stops the program.              *)
Argon2Takes(p) == p.parallelism >= 1 /\ p.iterations >= 1 /\ p.mem >= 8 * p.parallelism

is_sane(suite, p) ==
  /\ p.parallelism \in 1..MaxParallelism
  /\ p.iterations \in 1..MaxIterations[suite]
  /\ p.mem \in (8 * p.parallelism)..MaxMemory

(* No separator: where the passphrase ends and the pepper begins is lost.  *)
derive_master_key(passphrase, salt, pepper, params) ==
  <<Normal[passphrase] \o pepper, salt, params>>

derive_subkey(master, info) == <<info, master>>

Noise == <<"noise">>
encrypt(key, nonce, plain, aad) == <<"box", key, nonce, aad, plain>>

(* Bug: what was deciphered is given although it is not authentic.         *)
decryptReleasing(key, nonce, body, aad) ==
  IF body[1] = "box" /\ SubSeq(body, 2, 4) = <<key, nonce, aad>> THEN Done(body[5])
  ELSE IF body[1] = "box" /\ body[2] = key THEN [status |-> "decrypt", data |-> <<body[5]>>]
  ELSE Refused("decrypt")

decrypt(key, nonce, body, aad) ==
  IF body[1] = "box" /\ SubSeq(body, 2, 4) = <<key, nonce, aad>> THEN Done(body[5])
  ELSE Refused("decrypt")

-----------------------------------------------------------------------------
(* 1 << e.                                                                 *)
PowerOfTwo[e \in Nat] == IF e = 0 THEN 1 ELSE 2 * PowerOfTwo[e - 1]

(* floor(log2 n) and, with it, the number of bits of n.                    *)
Log2(n) == CHOOSE e \in 0..n : PowerOfTwo[e] <= n /\ n < PowerOfTwo[e + 1]

padded_len(l) ==
  LET e == Log2(l)
      low == IF e = 0 \/ e <= Log2(e) + 1 THEN 0 ELSE e - Log2(e) - 1
      mask == PowerOfTwo[low] - 1
  IN  IF l < 2 THEN l ELSE ((l + mask) \div (mask + 1)) * (mask + 1)

Framed(declared, content, size) == [declared |-> declared, content |-> content, size |-> size]

pad(data) == Framed(Len(data), data, padded_len(LengthPrefix + Len(data)))

(* Bug: data that fill the frame are taken to overflow it.                 *)
unpadTight(frame) ==
  IF frame.size < LengthPrefix \/ frame.declared >= frame.size - LengthPrefix THEN Refused("decrypt")
  ELSE Done(SubSeq(frame.content, 1, frame.declared))

unpad(frame) ==
  IF frame.size < LengthPrefix \/ frame.declared > frame.size - LengthPrefix THEN Refused("decrypt")
  ELSE Done(SubSeq(frame.content, 1, frame.declared))

(* What a box holds, if it opens, without its frame.                       *)
Unframed(r) == IF r.status = "ok" THEN unpad(r.data) ELSE r

-----------------------------------------------------------------------------
NoParams == KdfParams(0, 0, 0)

(* A blob is a header and a body; a format uses some of the fields. One    *)
(* that is cut is shorter than its header.                                 *)
Blank == [magic |-> "", version |-> 1, flags |-> 0, codebook |-> 0, fingerprint |-> "",
          salt |-> 0, nonce |-> 0, params |-> NoParams, encapsulation |-> <<>>,
          length |-> 0, alphabet |-> 0]

Blob(suite, header, body) == [suite |-> suite, header |-> header, body |-> body, cut |-> FALSE]

Version == 1

(* The two suites differ in the length of the nonce: read by the other     *)
(* one, what follows it is shifted.                                        *)
FieldsRead(suite, blob) ==
  IF suite = blob.suite THEN blob.header
  ELSE [blob.header EXCEPT !.nonce = 0, !.params = NoParams]

(* container::parse, "ok" or what is wrong with the header.                *)
parse(blob) ==
  IF blob.cut THEN "too short"
  ELSE IF blob.header.magic # "QUIP" THEN "magic"
  ELSE IF blob.header.version # Version THEN "version"
  ELSE IF blob.header.flags # 0 THEN "flags"
  ELSE "ok"

(* The whole header is associated data.                                    *)
aad(header) == <<header>>

CipherKey(suite, passphrase, salt, pepper, params) ==
  derive_subkey(derive_master_key(passphrase, salt, pepper, params), <<suite, "cipher">>)

encode_to_blob(suite, data, passphrase, fingerprint, pepper, params, n) ==
  LET header == [Blank EXCEPT !.magic = "QUIP", !.fingerprint = fingerprint,
                              !.salt = n, !.nonce = n, !.params = params]
  IN  Blob(suite, header,
           encrypt(CipherKey(suite, passphrase, n, pepper, params), n, pad(data), aad(header)))

decode_from_blob(suite, blob, passphrase, fingerprint, pepper) ==
  LET h == FieldsRead(suite, blob) IN
  IF parse(blob) # "ok" THEN Refused(parse(blob))
  ELSE IF h.fingerprint # fingerprint THEN Refused("codebook")
  ELSE IF ~is_sane(suite, h.params) THEN Refused("decrypt")
  ELSE Unframed(decrypt(CipherKey(suite, passphrase, h.salt, pepper, h.params), h.nonce,
                        blob.body, aad(h)))

-----------------------------------------------------------------------------
(* The OPRF service, as whoever asks it finds it. A crossed answer is one  *)
(* to another request, a garbled one is no element.                        *)
ServiceStates == {"up", "down", "denying", "crossed", "garbled"}

(* What is drawn for an exchange: the blinding, the randomness of the      *)
(* proof, and the element of another request that may be on its way.       *)
Draw(r, proof, other) == [blind |-> r, proof |-> proof, other |-> other]

evaluate_remote_verified(service, blinded, draw) ==
  LET asked == IF service.state = "crossed" THEN draw.other ELSE blinded
      reply == blind_evaluate(service.key, asked, draw.proof)
  IN  IF service.state = "down" THEN Refused("network")
      ELSE IF service.state = "denying" \/ reply.status # "ok" THEN Refused("denied")
      ELSE IF service.state = "garbled" THEN Done([reply.data EXCEPT !.evaluated = Order])
      ELSE reply

(* The passphrase is blinded as typed, not in its normal form.             *)
harden(passphrase, service, pin, draw) ==
  LET state == blind(passphrase, draw.blind)
      reply == evaluate_remote_verified(service, state.data.blinded, draw)
  IN  IF state.status # "ok" THEN Refused("verification")
      ELSE IF reply.status # "ok" THEN reply
      ELSE finalize(passphrase, state.data, reply.data, pin)
=============================================================================
