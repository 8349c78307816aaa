------------------------------- MODULE Honey -------------------------------
(***************************************************************************)
(* Honey encryption of short secrets (honey.rs): every passphrase opens    *)
(* the container to something that could be the secret.                    *)
(***************************************************************************)
EXTENDS Sealing

CONSTANTS
  Stream,      \* [secrets -> Nat], the derived stream of a master key
  MaxTokens    \* MAX_TOKENS

ASSUME HoneyAssumption == Stream \in [DOMAIN Stream -> Nat] /\ MaxTokens \in Nat

(* keystream_digits: one digit below size for each token.                  *)
keystream_digits(passphrase, salt, pepper, params, size, len) ==
  LET master == derive_master_key(passphrase, salt, pepper, params)
  IN  [i \in 1..len |-> (Stream[master[1]] + master[2] + i) % size]

honey_encrypt(tokens, size, passphrase, pepper, params, n) ==
  LET ks == keystream_digits(passphrase, n, pepper, params, size, Len(tokens)) IN
  IF Len(tokens) \notin 1..MaxTokens THEN Refused("length")
  ELSE IF \E i \in 1..Len(tokens) : tokens[i] >= size THEN Refused("token")
  ELSE Done(Blob("quipu",
                 [Blank EXCEPT !.magic = "QHNY", !.salt = n, !.params = params,
                               !.alphabet = size, !.length = Len(tokens)],
                 <<"tokens", [i \in 1..Len(tokens) |-> (tokens[i] + ks[i]) % size]>>))

(* Bug: a token below its digit wraps around the machine's word.           *)
TokenUnreduced(c, k, size) == c - k

Token(c, k, size) == (c + size - k) % size

honey_decrypt(blob, passphrase, pepper) ==
  LET h == blob.header
      ks == keystream_digits(passphrase, h.salt, pepper, h.params, h.alphabet, h.length)
  IN  IF blob.cut THEN Refused("truncated")
      ELSE IF h.magic # "QHNY" THEN Refused("magic")
      ELSE IF h.version # Version THEN Refused("version")
      ELSE IF h.alphabet < 2 THEN Refused("alphabet")
      ELSE IF h.length \notin 1..MaxTokens THEN Refused("length")
      ELSE IF ~is_sane("quipu", h.params) THEN Refused("kdf")
      ELSE IF blob.body[1] # "tokens" \/ Len(blob.body[2]) < h.length THEN Refused("truncated")
      ELSE Done([i \in 1..h.length |-> Token(blob.body[2][i], ks[i], h.alphabet)])
=============================================================================
