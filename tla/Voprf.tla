------------------------------- MODULE Voprf -------------------------------
(***************************************************************************)
(* The verifiable OPRF of RFC 9497 (src/crates/quipu-voprf/src/rfc9497.rs) *)
(* over any group of prime order. An element is its discrete logarithm, so *)
(* that to multiply it by a scalar is to multiply; the hashes are oracles, *)
(* told apart by the first component of what they hash.                    *)
(***************************************************************************)
EXTENDS Integers, FiniteSetsExt

CONSTANTS
  Order,             \* of the group, a prime
  Generator,         \* RISTRETTO_BASEPOINT_POINT
  HashToGroup,       \* [inputs -> Elements]
  HashToScalar(_),   \* of a transcript
  MaxCounter         \* 255, the attempts of derive_key_pair less one

Scalars == 0..(Order - 1)
Elements == Scalars
Identity == 0

ASSUME VoprfAssumption ==
  /\ Order \in Nat \ {0, 1} /\ MaxCounter \in Nat
  /\ \A a, b \in Scalars \ {0} : (a * b) % Order # 0
  /\ Generator \in Elements \ {Identity}
  /\ HashToGroup \in [DOMAIN HashToGroup -> Elements]

Done(data) == [status |-> "ok", data |-> data]
Refused(error) == [status |-> error, data |-> <<>>]

Times(scalar, element) == (scalar * element) % Order
Plus(a, b) == (a + b) % Order
invert(scalar) == CHOOSE i \in Scalars : Times(i, scalar) = 1

-----------------------------------------------------------------------------
(* The first hash that is not zero.                                        *)
derive_key_pair(seed, info) ==
  LET sk(counter) == HashToScalar(<<"DeriveKeyPair", seed, info, counter>>)
      usable == {c \in 0..MaxCounter : sk(c) # 0}
  IN  IF usable = {} THEN Refused("derive") ELSE Done(sk(Min(usable)))

public_key(key) == Times(key, Generator)

(* Composites of a batch of one: those of the client, and the half of them *)
(* the server needs, which knows the key.                                  *)
composite_scalar(pk, c, d) == HashToScalar(<<"Composite", <<"Seed", pk>>, 0, c, d>>)
compute_composites_m(pk, c, d) == Times(composite_scalar(pk, c, d), c)
compute_composites(pk, c, d) ==
  [m |-> Times(composite_scalar(pk, c, d), c), z |-> Times(composite_scalar(pk, c, d), d)]

challenge(pk, m, z, t2, t3) == HashToScalar(<<"Challenge", pk, m, z, t2, t3>>)

(* That d is c times the key of pk, without saying which it is.            *)
generate_proof(key, c, d, r) ==
  LET pk == public_key(key)
      m == compute_composites_m(pk, c, d)
      ch == challenge(pk, m, Times(key, m), Times(r, Generator), Times(r, m))
  IN  [c |-> ch, s |-> (r - ch * key) % Order]

verify_proof(pk, c, d, proof) ==
  LET of == compute_composites(pk, c, d)
      t2 == Plus(Times(proof.s, Generator), Times(proof.c, pk))
      t3 == Plus(Times(proof.s, of.m), Times(proof.c, of.z))
  IN  challenge(pk, of.m, of.z, t2, t3) = proof.c

(* What does not decode is no element. r is the randomness of the proof.   *)
blind_evaluate(key, blinded, r) ==
  IF blinded \notin Elements \ {Identity} THEN Refused("point")
  ELSE Done([evaluated |-> Times(key, blinded),
             proof |-> generate_proof(key, blinded, Times(key, blinded), r)])

-----------------------------------------------------------------------------
blind(input, r) ==
  IF HashToGroup[input] = Identity THEN Refused("input")
  ELSE Done([blind |-> r, blinded |-> Times(r, HashToGroup[input])])

(* The hash of the input and of its element times the key.                 *)
Output(input, element) == <<"Finalize", input, element>>

(* Bug: the proof that comes with the answer is not looked at.             *)
finalizeUnverified(input, state, reply, server_pub) ==
  IF ~({server_pub, reply.evaluated} \subseteq Elements \ {Identity}) THEN Refused("verification")
  ELSE Done(Output(input, Times(invert(state.blind), reply.evaluated)))

(* Nothing leaves that was not verified against the public key held.       *)
finalize(input, state, reply, server_pub) ==
  IF \/ ~({server_pub, reply.evaluated} \subseteq Elements \ {Identity})
     \/ ~verify_proof(server_pub, state.blinded, reply.evaluated, reply.proof)
  THEN Refused("verification")
  ELSE Done(Output(input, Times(invert(state.blind), reply.evaluated)))
=============================================================================
