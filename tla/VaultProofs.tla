---------------------------- MODULE VaultProofs ----------------------------
(***************************************************************************)
(* Proofs about everything the library seals, for every set of documents,  *)
(* passphrases, peppers, dictionaries, costs, profiles, tokens and keys,   *)
(* for every group of prime order, and for any number of artifacts and of  *)
(* things damaged. Of the proofs of the OPRF service it is assumed that    *)
(* none verifies by chance (SoundnessAssumption).                          *)
(***************************************************************************)
EXTENDS Vault, SequenceTheorems, FiniteSetTheorems, WellFoundedInduction, TLAPS

-----------------------------------------------------------------------------
(* Multiplication modulo the order of the group.                           *)
LEMMA Euclid ==
  ASSUME NEW a \in Int, NEW m \in Nat \ {0}
  PROVE  /\ a % m \in 0..(m - 1) /\ a \div m \in Int
         /\ a = m * (a \div m) + (a % m)
BY SMT

LEMMA RestIsUnique ==
  ASSUME NEW m \in Nat \ {0}, NEW x \in 0..(m - 1), NEW y \in 0..(m - 1),
         NEW q \in Int, x = y + m * q
  PROVE  x = y
<1>1. CASE q = 0
  BY <1>1
<1>2. CASE q >= 1
  <2>1. m * q >= m
    BY <1>2
  <2>. QED  BY <2>1
<1>3. CASE q <= -1
  <2>1. m * q <= -m
    BY <1>3
  <2>. QED  BY <2>1
<1>. QED  BY <1>1, <1>2, <1>3

LEMMA SameRest ==
  ASSUME NEW m \in Nat \ {0}, NEW a \in Int, NEW b \in Int, NEW q \in Int, a = b + m * q
  PROVE  a % m = b % m
<1>. DEFINE x == a % m
            y == b % m
            u == a \div m
            v == b \div m
<1>1. /\ x \in 0..(m - 1) /\ y \in 0..(m - 1) /\ u \in Int /\ v \in Int
      /\ a = m * u + x /\ b = m * v + y
  BY Euclid
<1>. HIDE DEF x, y, u, v
<1>2. v + q - u \in Int /\ x = y + m * (v + q - u)
  BY <1>1
<1>3. x = y
  BY <1>1, <1>2, RestIsUnique
<1>. QED  BY <1>3 DEF x, y

LEMMA RestOfProduct ==
  ASSUME NEW m \in Nat \ {0}, NEW a \in Int, NEW b \in Int
  PROVE  (a * (b % m)) % m = (a * b) % m
<1>. DEFINE r == b % m
            q == b \div m
<1>1. r \in 0..(m - 1) /\ q \in Int /\ b = m * q + r
  BY Euclid
<1>. HIDE DEF r, q
<1>2. a * r = a * b + m * (-(a * q))
  BY <1>1
<1>3. a * r \in Int /\ a * b \in Int /\ -(a * q) \in Int
  BY <1>1
<1>. QED  BY <1>2, <1>3, SameRest DEF r

LEMMA Distribute ==
  ASSUME NEW a \in Int, NEW b \in Int, NEW c \in Int
  PROVE  a * (b - c) = a * b - a * c
BY SMT

LEMMA RestOfZero ==
  ASSUME NEW m \in Nat \ {0}
  PROVE  0 % m = 0
BY SMT

LEMMA TimesType ==
  ASSUME NEW a \in Scalars, NEW b \in Scalars
  PROVE  Times(a, b) \in Scalars /\ Times(a, b) = Times(b, a)
<1>1. a \in Int /\ b \in Int /\ a * b \in Int /\ a * b = b * a
  BY VoprfAssumption DEF Scalars
<1>2. (a * b) % Order \in 0..(Order - 1)
  BY <1>1, VoprfAssumption, Euclid
<1>. QED  BY <1>1, <1>2 DEF Times, Scalars

LEMMA TimesAssociative ==
  ASSUME NEW a \in Scalars, NEW b \in Scalars, NEW c \in Scalars
  PROVE  Times(a, Times(b, c)) = Times(Times(a, b), c)
<1>1. a \in Int /\ b \in Int /\ c \in Int
  BY VoprfAssumption DEF Scalars
<1>2. Order \in Nat \ {0}
  BY VoprfAssumption
<1>3. b * c \in Int /\ a * b \in Int /\ a * (b * c) = c * (a * b)
  BY <1>1
<1>4. (a * ((b * c) % Order)) % Order = (a * (b * c)) % Order
  BY <1>1, <1>2, <1>3, RestOfProduct
<1>5. (c * ((a * b) % Order)) % Order = (c * (a * b)) % Order
  BY <1>1, <1>2, <1>3, RestOfProduct
<1>6. (a * b) % Order \in Int
  BY <1>2, <1>3, Euclid
<1>7. c * ((a * b) % Order) = ((a * b) % Order) * c
  BY <1>1, <1>6
<1>. QED  BY <1>3, <1>4, <1>5, <1>7 DEF Times

(* No two scalars take one other than zero to the same.                    *)
LEMMA TimesInjective ==
  ASSUME NEW r \in Scalars \ {0}, NEW a \in Scalars, NEW b \in Scalars,
         Times(r, a) = Times(r, b)
  PROVE  a = b
<1>1. ASSUME NEW x \in Scalars, NEW y \in Scalars, x > y, Times(r, x) = Times(r, y)
      PROVE FALSE
  <2>1. r \in Int /\ x \in Int /\ y \in Int /\ x - y \in Scalars \ {0}
    BY <1>1, VoprfAssumption DEF Scalars
  <2>2. Order \in Nat \ {0}
    BY VoprfAssumption
  <2>. DEFINE p == r * x
              q == r * y
              d == r * (x - y)
              u == p \div Order
              v == q \div Order
  <2>3. p \in Int /\ q \in Int /\ d \in Int /\ d = p - q
    BY <2>1, Distribute
  <2>4. p % Order = q % Order
    BY <1>1 DEF Times
  <2>. HIDE DEF p, q, d
  <2>5. /\ u \in Int /\ v \in Int /\ p % Order \in Int
        /\ p = Order * u + (p % Order) /\ q = Order * v + (q % Order)
    BY <2>2, <2>3, Euclid
  <2>. HIDE DEF u, v
  <2>6. u - v \in Int /\ d = 0 + Order * (u - v)
    <3>1. Order * (u - v) = Order * u - Order * v
      BY <2>2, <2>5, Distribute
    <3>2. Order * u \in Int /\ Order * v \in Int
      BY <2>2, <2>5
    <3>. QED  BY <2>3, <2>4, <2>5, <3>1, <3>2
  <2>. DEFINE e == u - v
  <2>7. e \in Int /\ d = 0 + Order * e
    BY <2>6
  <2>. HIDE DEF e
  <2>8. d % Order = 0 % Order
    BY <2>2, <2>3, <2>7, SameRest
  <2>9. 0 % Order = 0
    BY <2>2, RestOfZero
  <2>. QED  BY <2>1, <2>8, <2>9, VoprfAssumption DEF d
<1>2. a \in Int /\ b \in Int
  BY VoprfAssumption DEF Scalars
<1>3. CASE a > b
  BY <1>1, <1>3
<1>4. CASE b > a
  BY <1>1, <1>4
<1>. QED  BY <1>2, <1>3, <1>4

LEMMA TimesZero ==
  ASSUME NEW a \in Scalars
  PROVE  Times(a, 0) = 0 /\ Times(0, a) = 0
<1>1. 0 \in Scalars /\ a \in Int /\ a * 0 = 0
  BY VoprfAssumption DEF Scalars
<1>2. 0 % Order = 0
  BY VoprfAssumption, RestOfZero
<1>. QED  BY <1>1, <1>2, TimesType DEF Times

LEMMA TimesOne ==
  ASSUME NEW a \in Scalars
  PROVE  Times(1, a) = a
<1>1. a \in Int /\ 1 * a = a /\ a \in 0..(Order - 1)
  BY VoprfAssumption DEF Scalars
<1>2. a % Order = a
  BY <1>1, VoprfAssumption, SMT
<1>. QED  BY <1>1, <1>2 DEF Times

(* Multiplying the scalars by one other than zero is a bijection, so some  *)
(* scalar is taken to one.                                                 *)
LEMMA InverseExists ==
  ASSUME NEW r \in Scalars \ {0}
  PROVE  invert(r) \in Scalars /\ Times(invert(r), r) = 1
<1>. DEFINE f == [x \in Scalars |-> Times(r, x)]
<1>1. f \in Injection(Scalars, Scalars)
  <2>1. f \in [Scalars -> Scalars]
    BY TimesType
  <2>2. \A x, y \in Scalars : f[x] = f[y] => x = y
    BY TimesInjective
  <2>. QED  BY <2>1, <2>2 DEF Injection, IsInjective
<1>2. IsFiniteSet(Scalars)
  <2>. 0 \in Int /\ Order - 1 \in Int
    BY VoprfAssumption
  <2>. QED  BY FS_Interval DEF Scalars
<1>. HIDE DEF f
<1>3. f \in Surjection(Scalars, Scalars)
  BY <1>1, <1>2, FS_Injection
<1>4. 1 \in Scalars
  BY VoprfAssumption DEF Scalars
<1>5. PICK i \in Scalars : f[i] = 1
  BY <1>3, <1>4 DEF Surjection
<1>6. Times(i, r) = 1
  BY <1>5, TimesType DEF f
<1>. QED  BY <1>6 DEF invert


-----------------------------------------------------------------------------
(* What the clients of the OPRF service are given.                         *)
LEMMA StateType ==
  ASSUME NEW s \in Services
  PROVE  s.key \in Keys /\ s.state \in ServiceStates /\ s.api \in ApiKeys
BY DEF Services, Service

(* One key for each public key.                                            *)
LEMMA KeyOfPin ==
  ASSUME NEW k \in Keys
  PROVE  /\ k \in Scalars \ {0} /\ public_key(k) \in Scalars \ {0}
         /\ (CHOOSE j \in Keys : public_key(j) = public_key(k)) = k
<1>1. Generator \in Scalars \ {0}
  BY VoprfAssumption DEF Elements, Identity
<1>2. \A j \in Keys : j \in Scalars \ {0}
  BY KeysAssumption
<1>3. ASSUME NEW j \in Keys, public_key(j) = public_key(k) PROVE j = k
  <2>1. Times(Generator, j) = Times(Generator, k)
    BY <1>1, <1>2, <1>3, TimesType DEF public_key
  <2>. QED  BY <1>1, <1>2, <2>1, TimesInjective
<1>4. public_key(k) \in Scalars
  BY <1>1, <1>2, TimesType DEF public_key
<1>5. public_key(k) # 0
  <2>1. ASSUME public_key(k) = 0 PROVE FALSE
    <3>1. Times(k, Generator) = Times(k, 0)
      BY <1>2, <2>1, TimesZero DEF public_key
    <3>2. 0 \in Scalars
      BY VoprfAssumption DEF Scalars
    <3>. QED  BY <1>1, <1>2, <3>1, <3>2, TimesInjective
  <2>. QED  BY <2>1
<1>6. (CHOOSE j \in Keys : public_key(j) = public_key(k)) = k
  BY <1>3
<1>. QED  BY <1>2, <1>4, <1>5, <1>6

(* Unblinding takes away the blinding and leaves the key.                  *)
LEMMA Unblinded ==
  ASSUME NEW r \in Scalars \ {0}, NEW k \in Scalars, NEW x \in Scalars
  PROVE  Times(invert(r), Times(k, Times(r, x))) = Times(k, x)
<1>. DEFINE i == invert(r)
<1>1. i \in Scalars /\ Times(i, r) = 1
  BY InverseExists
<1>. HIDE DEF i
<1>2. Times(r, x) \in Scalars /\ Times(k, x) \in Scalars /\ Times(i, k) \in Scalars
  BY <1>1, TimesType
<1>3. Times(i, Times(k, Times(r, x))) = Times(Times(k, i), Times(r, x))
  BY <1>1, <1>2, TimesAssociative, TimesType
<1>4. Times(Times(k, i), Times(r, x)) = Times(k, Times(i, Times(r, x)))
  BY <1>1, <1>2, TimesAssociative
<1>5. Times(i, Times(r, x)) = Times(Times(i, r), x)
  BY <1>1, TimesAssociative
<1>. QED  BY <1>1, <1>3, <1>4, <1>5, TimesOne DEF i

(* What a client accepts is the passphrase hardened with the pinned key,   *)
(* from a service that holds it and that answered.                         *)
LEMMA HardenSound ==
  ASSUME NEW p \in Passphrases, NEW s \in Services, NEW pin \in Pins, NEW w \in Draws,
         harden(p, s, pin, w).status = "ok"
  PROVE  /\ pin = public_key(s.key) /\ s.state \in {"up", "crossed"}
         /\ harden(p, s, pin, w).data = Hardened(pin, p)
<1>. DEFINE state == blind(p, w.blind)
            reply == evaluate_remote_verified(s, state.data.blinded, w)
            x == HashToGroup[p]
<1>1. /\ state.status = "ok" /\ reply.status = "ok"
      /\ harden(p, s, pin, w) = finalize(p, state.data, reply.data, pin)
  BY DEF harden, Refused
<1>2. /\ x \in Scalars /\ w.blind \in Scalars
      /\ state.data.blind = w.blind /\ state.data.blinded = Times(w.blind, x)
  <2>1. x \in Scalars /\ w.blind \in Scalars
    BY VoprfAssumption, VaultAssumption DEF Elements
  <2>2. state.data = [blind |-> w.blind, blinded |-> Times(w.blind, x)]
    BY <1>1 DEF blind, Done, Refused
  <2>. QED  BY <2>1, <2>2
<1>. HIDE DEF state
<1>3. /\ reply.data.evaluated \in Elements \ {Identity}
      /\ verify_proof(pin, state.data.blinded, reply.data.evaluated, reply.data.proof)
      /\ harden(p, s, pin, w).data
           = Output(p, Times(invert(state.data.blind), reply.data.evaluated))
  <2>. HIDE DEF reply
  <2>. QED  BY <1>1 DEF finalize, Done, Refused
<1>4. pin = public_key(s.key) /\ reply.data.evaluated = Times(s.key, state.data.blinded)
  BY <1>1, <1>3, SoundnessAssumption DEF state
<1>5. s.state \in {"up", "crossed"}
  <2>1. s.state \in ServiceStates
    BY StateType
  <2>2. s.state # "down" /\ s.state # "denying"
    BY <1>1 DEF evaluate_remote_verified, Refused
  <2>3. s.state # "garbled"
    <3>. SUFFICES ASSUME s.state = "garbled" PROVE FALSE
      OBVIOUS
    <3>. DEFINE e == blind_evaluate(s.key, state.data.blinded, w.proof)
    <3>1. e.status = "ok" /\ reply = Done([e.data EXCEPT !.evaluated = Order])
      BY <1>1 DEF evaluate_remote_verified, Refused
    <3>2. e.data = [evaluated |-> Times(s.key, state.data.blinded),
                    proof |-> generate_proof(s.key, state.data.blinded,
                                Times(s.key, state.data.blinded), w.proof)]
      BY <3>1 DEF blind_evaluate, Done, Refused
    <3>3. reply.data.evaluated = Order
      BY <3>1, <3>2 DEF Done
    <3>. QED  BY <1>3, <3>3, VoprfAssumption DEF Elements, Scalars
  <2>. QED  BY <2>1, <2>2, <2>3 DEF ServiceStates
<1>6. s.key \in Scalars \ {0} /\ (CHOOSE j \in Keys : public_key(j) = pin) = s.key
  BY <1>4, StateType, KeyOfPin
<1>7. w.blind # 0
  <2>1. ASSUME w.blind = 0 PROVE reply.data.evaluated = 0
    BY <1>2, <1>4, <1>6, <2>1, TimesZero
  <2>. QED  BY <1>3, <2>1 DEF Identity
<1>8. Times(invert(state.data.blind), reply.data.evaluated) = Times(s.key, x)
  BY <1>2, <1>4, <1>6, <1>7, Unblinded
<1>9. Hardened(pin, p) = Output(p, Times(s.key, x))
  BY <1>6 DEF Hardened
<1>. QED  BY <1>3, <1>4, <1>5, <1>8, <1>9

-----------------------------------------------------------------------------
(* Results: what is refused comes with nothing.                            *)
Clean(r) == r.status # "ok" => r.data = <<>>

LEMMA ResultForm ==
  /\ \A d : Clean(Done(d)) /\ Done(d).status = "ok" /\ Done(d).data = d
  /\ \A e : Clean(Refused(e)) /\ Refused(e).status = e /\ Refused(e).data = <<>>
BY DEF Clean, Done, Refused

LEMMA HardenClean ==
  ASSUME NEW p, NEW s, NEW pin, NEW w
  PROVE  Clean(harden(p, s, pin, w))
<1>1. \A k, b, r : Clean(blind_evaluate(k, b, r))
  BY ResultForm DEF blind_evaluate
<1>2. \A b : Clean(evaluate_remote_verified(s, b, w))
  BY <1>1, ResultForm DEF evaluate_remote_verified
<1>3. \A st, r : Clean(finalize(p, st, r, pin))
  BY ResultForm DEF finalize
<1>. QED  BY <1>2, <1>3, ResultForm DEF harden

-----------------------------------------------------------------------------
(* The ideal cipher: a box opens with what it was sealed with and nothing  *)
(* else, and noise with nothing.                                           *)
LEMMA SubSeqOfBox ==
  ASSUME NEW a, NEW k, NEW v, NEW d, NEW x
  PROVE  SubSeq(<<a, k, v, d, x>>, 2, 4) = <<k, v, d>>
<1>. DEFINE S == {a, k, v, d, x}
            t == <<a, k, v, d, x>>
            u == SubSeq(t, 2, 4)
<1>1. \A i \in 2..4 : t[i] \in S
  OBVIOUS
<1>2. u \in Seq(S) /\ Len(u) = 3 /\ \A i \in 1..3 : u[i] = t[1 + i]
  <2>. HIDE DEF S, t
  <2>1. /\ u \in Seq(S) /\ Len(u) = IF 2 <= 4 THEN 4 - 2 + 1 ELSE 0
        /\ \A i \in 1..(4 - 2 + 1) : u[i] = t[2 + i - 1]
    BY <1>1, SubSeqProperties
  <2>. QED  BY <2>1
<1>3. <<k, v, d>> \in Seq(S) /\ Len(<<k, v, d>>) = 3
  OBVIOUS
<1>4. u[1] = k /\ u[2] = v /\ u[3] = d
  BY <1>2
<1>. HIDE DEF S, u
<1>5. \A i \in 1..3 : u[i] = <<k, v, d>>[i]
  BY <1>4
<1>. QED  BY <1>2, <1>3, <1>5, SeqEqual DEF u

LEMMA BoxOpens ==
  ASSUME NEW key, NEW nonce, NEW plain, NEW ad, NEW k, NEW v, NEW d
  PROVE  decrypt(k, v, encrypt(key, nonce, plain, ad), d) =
           IF k = key /\ v = nonce /\ d = ad THEN Done(plain) ELSE Refused("decrypt")
<1>1. SubSeq(encrypt(key, nonce, plain, ad), 2, 4) = <<key, nonce, ad>>
  BY SubSeqOfBox DEF encrypt
<1>2. encrypt(key, nonce, plain, ad)[1] = "box" /\ encrypt(key, nonce, plain, ad)[5] = plain
  BY DEF encrypt
<1>. QED  BY <1>1, <1>2 DEF decrypt

LEMMA NoiseOpens ==
  ASSUME NEW k, NEW v, NEW d
  PROVE  decrypt(k, v, Noise, d) = Refused("decrypt")
BY DEF decrypt, Noise

(* A frame gives back the data that was framed, or is refused.             *)
LEMMA FrameOpens ==
  ASSUME NEW data \in Seq(Characters), NEW frame,
         frame.declared = Len(data), frame.content = data,
         unpad(frame).status = "ok"
  PROVE  unpad(frame).data = data
BY SubSeqFull DEF unpad, Done, Refused

LEMMA DecryptClean ==
  ASSUME NEW k, NEW v, NEW body, NEW d
  PROVE  Clean(decrypt(k, v, body, d)) /\ Clean(Unframed(decrypt(k, v, body, d)))
<1>1. Clean(decrypt(k, v, body, d))
  BY ResultForm DEF decrypt
<1>2. \A frame : Clean(unpad(frame))
  BY ResultForm DEF unpad
<1>. QED  BY <1>1, <1>2 DEF Unframed

-----------------------------------------------------------------------------
(* The inductive invariant. What is on the shelf are artifacts of one      *)
(* format, and all that is found in one of them, damaged or mixed up as it *)
(* is, was made by an action that promised to its owner what is in it. The *)
(* operators take how many artifacts were made and what was promised.      *)
IsArtifact(a) ==
  a = [format |-> a.format, blob |-> a.blob, promises |-> a.promises,
       intact |-> a.intact, twin |-> a.twin, work |-> a.work]
IsBlob(b) == b = [suite |-> b.suite, header |-> b.header, body |-> b.body, cut |-> b.cut]

OneFormat ==
  /\ shelf \in Seq({shelf[i] : i \in 1..Len(shelf)})
  /\ \A i \in 1..Len(shelf) :
       IsArtifact(shelf[i]) /\ shelf[i].intact \in BOOLEAN /\ shelf[i].format = shelf[1].format

SealedBody(body, made, promised) ==
  \E s \in Suites, d \in Documents, p \in Passphrases, e \in Peppers, c \in Costs, f \in Dictionaries :
    \E k \in 1..made :
      /\ body = encode_to_blob(s, d, p, f, e, c, k).body
      /\ Promise(OfSecret(s, p, e, f), d) \in promised

OnlineBody(body, promised) ==
  \E d \in Documents, p \in Passphrases, e \in Peppers, c \in Costs, f \in Dictionaries, pin \in Pins :
    LET pepper == e \o <<Hardened(pin, p)>>
    IN  /\ body = encode_to_blob("quipu", d, p, f, pepper, c, 1).body
        /\ Promise(OfSecret("quipu", p, pepper, f), d) \in promised

RecipientBody(body, made, promised) ==
  \E d \in Documents, r \in Recipients, k \in 1..made :
    body = encode_to_recipient(d, r, k).body /\ Promise(OfRecipient(r), d) \in promised

CnsaBody(body, made, promised) ==
  \E d \in Documents, r \in Recipients, k \in 1..made :
    body = cifrar_para(d, r, k).body /\ Promise(OfRecipient(r.ml), d) \in promised

(* Every half of a signature that a key verifies was made by that half.    *)
HalvesKept(signature, promised) ==
  \A v \in Signers, d \in Documents : \A h \in DOMAIN v \cap DOMAIN signature :
    signature[h] = HalfSignature(v[h], build_preimage(v, d)) => Promise(OfHalf(h, v), d) \in promised
SignedBody(body, promised) ==
  body = <<"signed", body[2], body[3]>> /\ body[2] \in Documents /\ HalvesKept(body[3], promised)

HoneyBody(body) == body = <<"tokens", body[2]>> /\ body[2] \in Seq(Nat)
HoneyHeader(h) ==
  h = [f \in DOMAIN Blank |-> h[f]] /\ h.salt \in Nat /\ h.alphabet \in Nat /\ h.length \in Int

AllSizes == Sizes \cup {tamano_canonico(Max(Sizes))}
SealedRegion(region, made, promised) ==
  \E v \in {"decoy", "hidden"}, d \in Documents, p \in Passphrases, z \in AllSizes :
    \E k \in 1..made, j \in 1..Len(Profiles) :
      LET r == Region(v, d, p, k, z, Profiles[j])
      IN  r.status = "ok" /\ region = r.data /\ Promise(OfProfile(p, Profiles[j]), <<v, d>>) \in promised

Traced(format, b, made, promised) ==
  /\ format \in DOMAIN Fields \cup {"online"} => IsBlob(b)
  /\ format = "sealed" => b.body = Noise \/ SealedBody(b.body, made, promised)
  /\ format = "online" => OnlineBody(b.body, promised)
  /\ format = "recipient" => b.body = Noise \/ RecipientBody(b.body, made, promised)
  /\ format = "cnsa" => b.body = Noise \/ CnsaBody(b.body, made, promised)
  /\ format = "signed" => b.body = Noise \/ SignedBody(b.body, promised)
  /\ format = "honey" => HoneyHeader(b.header) /\ (b.body = Noise \/ HoneyBody(b.body))
  /\ format = "deniable" =>
       /\ b = Container(b.salt, b.size, b.decoy, b.hidden)
       /\ \A r \in {b.decoy, b.hidden} : r = Noise \/ SealedRegion(r, made, promised)

Provenance ==
  \A i \in 1..Len(shelf) : Traced(shelf[i].format, shelf[i].blob, Len(shelf), Promised)

(* A deniable container nobody touched is as it was made, and so its twin. *)
MadeAsDeniable(a, k) ==
  \E z \in AllSizes, d \in Documents, p \in Passphrases, h \in HiddenVolumes, j \in 1..Len(Profiles) :
    LET c == Profiles[j]
        r == crear(z, d, p, h, c, k)
    IN  /\ r.status = "ok" /\ a.blob = r.data
        /\ a.twin = crear(z, d, p, NoVolume, c, k).data
        /\ a.promises = {Promise(OfProfile(p, c), <<"decoy", d>>)}
             \cup {Promise(OfProfile(w[2], c), <<"hidden", w[1]>>) : w \in {h} \ {NoVolume}}
        /\ a.work = {WorkOfMaking(z, d, h), WorkOfMaking(z, d, NoVolume)}

Twins ==
  \A i \in 1..Len(shelf) :
    shelf[i].format = "deniable" /\ shelf[i].intact => MadeAsDeniable(shelf[i], i)

(* A password record holds what its only promise is about.                 *)
MadeAsLogin(a) ==
  \E pin \in Pins, p \in Passphrases :
    a.blob[2] = Hardened(pin, p) /\ a.promises = {Promise(OfLogin(pin, p), <<TRUE>>)}

Logins == \A i \in 1..Len(shelf) : shelf[i].format = "login" => MadeAsLogin(shelf[i])

IInv == TypeOK /\ OneFormat /\ Provenance /\ Twins /\ Logins

-----------------------------------------------------------------------------
(* How the shelf changes: something is added, or one thing is damaged.     *)
LEMMA FunctionIsSeq ==
  ASSUME NEW m \in Nat, NEW S, NEW s \in [1..m -> S]
  PROVE  s \in Seq(S)
BY SeqDef

LEMMA ShelfType ==
  ASSUME OneFormat
  PROVE  Len(shelf) \in Nat /\ n = Len(shelf) + 1 /\ n \in Nat /\ n \in 1..n
<1>1. Len(shelf) \in Nat
  BY LenProperties DEF OneFormat
<1>. QED  BY <1>1 DEF n

LEMMA Added ==
  ASSUME OneFormat, NEW a, shelf' = Append(shelf, a)
  PROVE  /\ shelf' \in Seq({shelf'[i] : i \in 1..Len(shelf')})
         /\ Len(shelf') = n
         /\ \A i \in 1..Len(shelf) : shelf'[i] = shelf[i]
         /\ shelf'[n] = a
<1>. DEFINE S == {shelf[i] : i \in 1..Len(shelf)}
            T == S \cup {a}
<1>1. shelf \in Seq(T) /\ a \in T
  BY SeqMonotonic DEF OneFormat
<1>2. Len(shelf) \in Nat /\ n = Len(shelf) + 1
  BY ShelfType
<1>3. /\ shelf' \in Seq(T) /\ Len(shelf') = Len(shelf) + 1
      /\ \A i \in 1..Len(shelf) : shelf'[i] = shelf[i]
      /\ shelf'[Len(shelf) + 1] = a
  <2>. HIDE DEF T
  <2>. QED  BY <1>1, AppendProperties
<1>4. shelf' \in [1..n -> {shelf'[i] : i \in 1..n}]
  <2>1. shelf' \in [1..n -> T]
    BY <1>2, <1>3, LenProperties
  <2>. QED  BY <2>1
<1>. QED  BY <1>2, <1>3, <1>4, SeqDef

LEMMA Redone ==
  ASSUME NEW r, IsArtifact(r), NEW b
  PROVE  [[r EXCEPT !.blob = b] EXCEPT !.intact = FALSE]
           = [format |-> r.format, blob |-> b, promises |-> r.promises,
              intact |-> FALSE, twin |-> r.twin, work |-> r.work]
<1>. DEFINE fields == {"format", "blob", "promises", "intact", "twin", "work"}
            x == [r EXCEPT !.blob = b]
            y == [x EXCEPT !.intact = FALSE]
            z == [format |-> r.format, blob |-> b, promises |-> r.promises,
                  intact |-> FALSE, twin |-> r.twin, work |-> r.work]
<1>1. DOMAIN r = fields /\ r = [f \in DOMAIN r |-> r[f]]
  BY DEF IsArtifact
<1>2. x = [f \in fields |-> IF f = "blob" THEN b ELSE r[f]]
  BY <1>1
<1>. HIDE DEF x
<1>3. y = [f \in fields |-> IF f = "intact" THEN FALSE ELSE x[f]]
  BY <1>2
<1>4. z = [f \in fields |-> z[f]] /\ \A f \in fields : z[f] = y[f]
  BY <1>2, <1>3
<1>. QED  BY <1>3, <1>4 DEF x

LEMMA Altered ==
  ASSUME OneFormat, NEW j \in 1..Len(shelf), NEW b,
         shelf' = [shelf EXCEPT ![j].blob = b, ![j].intact = FALSE]
  PROVE  /\ shelf' \in Seq({shelf'[i] : i \in 1..Len(shelf')})
         /\ Len(shelf') = Len(shelf)
         /\ \A i \in 1..Len(shelf) : i # j => shelf'[i] = shelf[i]
         /\ shelf'[j] = [format |-> shelf[j].format, blob |-> b, promises |-> shelf[j].promises,
                         intact |-> FALSE, twin |-> shelf[j].twin, work |-> shelf[j].work]
<1>. DEFINE S == {shelf[i] : i \in 1..Len(shelf)}
            a == [[shelf[j] EXCEPT !.blob = b] EXCEPT !.intact = FALSE]
            T == S \cup {a}
<1>1. shelf \in Seq(T) /\ a \in T
  BY SeqMonotonic DEF OneFormat
<1>2. Len(shelf) \in Nat /\ shelf \in [1..Len(shelf) -> S] /\ shelf \in [1..Len(shelf) -> T]
  BY <1>1, LenProperties DEF OneFormat
<1>3. shelf' = [shelf EXCEPT ![j] = a]
  BY <1>2
<1>4. a = [format |-> shelf[j].format, blob |-> b, promises |-> shelf[j].promises,
           intact |-> FALSE, twin |-> shelf[j].twin, work |-> shelf[j].work]
  <2>1. IsArtifact(shelf[j])
    BY DEF OneFormat
  <2>. QED  BY <2>1, Redone
<1>. HIDE DEF T, a
<1>5. /\ shelf' \in Seq(T) /\ Len(shelf') = Len(shelf)
      /\ \A i \in 1..Len(shelf) : shelf'[i] = IF i = j THEN a ELSE shelf[i]
  <2>1. /\ [shelf EXCEPT ![j] = a] \in Seq(T)
        /\ Len([shelf EXCEPT ![j] = a]) = Len(shelf)
        /\ \A i \in 1..Len(shelf) : [shelf EXCEPT ![j] = a][i] = IF i = j THEN a ELSE shelf[i]
    BY <1>1, ExceptSeq
  <2>. QED  BY <1>3, <2>1
<1>6. shelf' \in [1..Len(shelf) -> {shelf'[i] : i \in 1..Len(shelf)}]
  <2>1. shelf' \in [1..Len(shelf) -> T]
    BY <1>5, LenProperties
  <2>. QED  BY <2>1
<1>7. shelf' \in Seq({shelf'[i] : i \in 1..Len(shelf')})
  <2>. DEFINE U == {shelf'[i] : i \in 1..Len(shelf')}
  <2>1. shelf' \in [1..Len(shelf) -> U]
    BY <1>5, <1>6
  <2>. HIDE DEF U
  <2>2. shelf' \in Seq(U)
    BY <1>2, <2>1, FunctionIsSeq
  <2>. QED  BY <2>2 DEF U
<1>. QED  BY <1>4, <1>5, <1>7

LEMMA TracedStays ==
  ASSUME NEW format, NEW b, NEW m \in Nat, NEW k \in Nat, m <= k, NEW P, NEW Q, P \subseteq Q,
         Traced(format, b, m, P)
  PROVE  Traced(format, b, k, Q)
<1>1. \A j \in 1..m : j \in 1..k
  OBVIOUS
<1>2. \A x : SealedBody(x, m, P) => SealedBody(x, k, Q)
  BY <1>1 DEF SealedBody
<1>3. \A x : OnlineBody(x, P) => OnlineBody(x, Q)
  BY DEF OnlineBody
<1>4. \A x : RecipientBody(x, m, P) => RecipientBody(x, k, Q)
  BY <1>1 DEF RecipientBody
<1>5. \A x : CnsaBody(x, m, P) => CnsaBody(x, k, Q)
  BY <1>1 DEF CnsaBody
<1>6. \A x : SignedBody(x, P) => SignedBody(x, Q)
  BY DEF SignedBody, HalvesKept
<1>7. \A x : SealedRegion(x, m, P) => SealedRegion(x, k, Q)
  BY <1>1 DEF SealedRegion
<1>. QED  BY <1>2, <1>3, <1>4, <1>5, <1>6, <1>7 DEF Traced

AllSettings == {Settings(p, a) : p \in Pins, a \in ApiKeys}

(* Something sound is added to what is intact.                             *)
LEMMA Making ==
  ASSUME IInv, NEW a, shelf' = Append(shelf, a), IsArtifact(a), a.intact = TRUE,
         a.format \in Formats, Only({a.format}), damage = 0,
         Traced(a.format, a.blob, n, Promised \cup a.promises),
         a.format = "deniable" => MadeAsDeniable(a, n),
         a.format = "login" => MadeAsLogin(a),
         UNCHANGED <<damage, service, settings, opened>>,
         client' \in AllSettings \cup {NoClient}
  PROVE  IInv'
<1>1. /\ shelf' \in Seq({shelf'[i] : i \in 1..Len(shelf')}) /\ Len(shelf') = n
      /\ \A i \in 1..Len(shelf) : shelf'[i] = shelf[i]
      /\ shelf'[n] = a
  BY Added DEF IInv
<1>2. Len(shelf) \in Nat /\ n = Len(shelf) + 1 /\ n \in Nat
      /\ \A i \in 1..n : i \in 1..Len(shelf) \/ i = n
  BY ShelfType DEF IInv
<1>3. OneFormat'
  <2>1. \A i \in 1..n : shelf'[i].format = a.format
    BY <1>1, <1>2 DEF Only
  <2>2. 1 \in 1..n
    BY <1>2
  <2>3. \A i \in 1..n : IsArtifact(shelf'[i]) /\ shelf'[i].intact \in BOOLEAN
    BY <1>1, <1>2 DEF IInv, OneFormat
  <2>4. \A i \in 1..Len(shelf') :
          IsArtifact(shelf'[i]) /\ shelf'[i].intact \in BOOLEAN /\ shelf'[i].format = shelf'[1].format
    BY <1>1, <2>1, <2>2, <2>3
  <2>. QED  BY <1>1, <2>4 DEF OneFormat, IsArtifact
<1>4. Provenance'
  <2>1. Promised' = Promised \cup a.promises
    BY <1>1, <1>2 DEF Promised
  <2>2. \A i \in 1..Len(shelf) : Traced(shelf[i].format, shelf[i].blob, n, Promised \cup a.promises)
    <3>. Promised \subseteq Promised \cup a.promises /\ Len(shelf) <= n
      BY <1>2
    <3>. SUFFICES ASSUME NEW i \in 1..Len(shelf)
         PROVE  Traced(shelf[i].format, shelf[i].blob, n, Promised \cup a.promises)
      OBVIOUS
    <3>1. Traced(shelf[i].format, shelf[i].blob, Len(shelf), Promised)
      BY DEF IInv, Provenance
    <3>. QED  BY <1>2, <3>1, TracedStays
  <2>3. \A i \in 1..Len(shelf') : Traced(shelf'[i].format, shelf'[i].blob, Len(shelf'), Promised')
    BY <1>1, <1>2, <2>1, <2>2
  <2>. QED  BY <2>3 DEF Provenance
<1>5. Twins'
  <2>. SUFFICES ASSUME NEW i \in 1..n, shelf'[i].format = "deniable", shelf'[i].intact
       PROVE  MadeAsDeniable(shelf'[i], i)
    BY <1>1 DEF Twins
  <2>1. CASE i \in 1..Len(shelf)
    BY <1>1, <2>1 DEF IInv, Twins
  <2>2. CASE i = n
    BY <1>1, <2>2
  <2>. QED  BY <1>2, <2>1, <2>2
<1>6. Logins'
  <2>. SUFFICES ASSUME NEW i \in 1..n, shelf'[i].format = "login"
       PROVE  MadeAsLogin(shelf'[i])
    BY <1>1 DEF Logins
  <2>1. CASE i \in 1..Len(shelf)
    BY <1>1, <2>1 DEF IInv, Logins
  <2>2. CASE i = n
    BY <1>1, <2>2
  <2>. QED  BY <1>2, <2>1, <2>2
<1>7. TypeOK'
  <2>1. \A i \in 1..Len(shelf') : shelf'[i].format \in Formats /\ shelf'[i].intact
    BY <1>1, <1>2 DEF IInv, TypeOK
  <2>2. opened.item \in 0..Len(shelf')
    BY <1>1, <1>2 DEF IInv, TypeOK
  <2>. QED  BY <2>1, <2>2 DEF IInv, TypeOK, AllSettings
<1>. QED  BY <1>3, <1>4, <1>5, <1>6, <1>7 DEF IInv

LEMMA SameShelf ==
  ASSUME IInv, shelf' = shelf
  PROVE  /\ OneFormat' /\ Provenance' /\ Twins' /\ Logins'
         /\ \A i \in 1..Len(shelf') : shelf'[i].format \in Formats
<1>1. OneFormat'
  BY DEF IInv, OneFormat, IsArtifact
<1>2. Promised' = Promised
  BY DEF Promised
<1>3. Provenance'
  BY <1>2 DEF IInv, Provenance
<1>4. Twins' /\ Logins'
  BY DEF IInv, Twins, Logins
<1>. QED  BY <1>1, <1>3, <1>4 DEF IInv, TypeOK

(* Something is answered, of an artifact or of none.                       *)
LEMMA Answering ==
  ASSUME IInv, NEW item \in 0..Len(shelf), NEW tried, NEW r, Clean(r), NEW w,
         opened' = Opening(item, tried, r, w),
         UNCHANGED <<shelf, damage, service, settings>>,
         client' \in AllSettings \cup {NoClient}
  PROVE  IInv'
<1>1. opened'.item = item /\ opened'.status = r.status /\ opened'.data = r.data
  BY DEF Opening
<1>2. TypeOK'
  BY <1>1, SameShelf DEF IInv, TypeOK, AllSettings, Clean
<1>. QED  BY <1>2, SameShelf DEF IInv

LEMMA ClientType ==
  ASSUME IInv
  PROVE  client \in AllSettings \cup {NoClient} /\ Client \in AllSettings
BY DEF IInv, TypeOK, Client, AllSettings

-----------------------------------------------------------------------------
(* Every action that makes something, or is refused.                       *)
LEMMA FormatNames ==
  /\ DOMAIN Fields = {"sealed", "recipient", "cnsa", "signed", "honey"}
  /\ Formats = {"sealed", "recipient", "cnsa", "signed", "honey", "online", "deniable", "login"}
BY DEF Formats, Fields

LEMMA BlobForm ==
  ASSUME NEW suite, NEW header, NEW body
  PROVE  LET b == Blob(suite, header, body)
         IN  /\ IsBlob(b)
             /\ b.suite = suite /\ b.header = header /\ b.body = body
BY DEF Blob, IsBlob

(* Keep, of what the provenance of its format says.                        *)
LEMMA Keeping ==
  ASSUME IInv, NEW format \in Formats \ {"deniable"}, NEW b, NEW promises,
         Keep(format, b, promises), Only({format}), damage = 0,
         Traced(format, b, n, Promised \cup promises),
         format = "login" => MadeAsLogin(Artifact(format, b, promises)),
         client' \in AllSettings \cup {NoClient}
  PROVE  IInv'
<1>. DEFINE a == Artifact(format, b, promises)
<1>1. /\ IsArtifact(a) /\ a.intact = TRUE
      /\ a.format = format /\ a.blob = b /\ a.promises = promises
  BY DEF Artifact, IsArtifact
<1>2. shelf' = Append(shelf, a) /\ UNCHANGED <<damage, service, settings, opened>>
  BY DEF Keep
<1>3. a.format = "login" => MadeAsLogin(a)
  BY <1>1
<1>. HIDE DEF a
<1>. QED  BY <1>1, <1>2, <1>3, Making

LEMMA Empty ==
  ASSUME IInv, n = 1
  PROVE  damage = 0 /\ \A formats : Only(formats)
<1>1. \A i : i \notin 1..Len(shelf)
  BY ShelfType DEF IInv
<1>. QED  BY <1>1 DEF IInv, TypeOK, Only

LEMMA EncodeStep ==
  ASSUME IInv, NEW s \in Suites, NEW d \in Documents, NEW p \in Passphrases, NEW e \in Peppers,
         NEW c \in Costs, NEW f \in Dictionaries, Encode(s, d, p, e, c, f)
  PROVE  IInv'
<1>. DEFINE b == encode_to_blob(s, d, p, f, e, c, n)
            o == {Promise(OfSecret(s, p, e, f), d)}
<1>1. /\ Keep("sealed", b, o) /\ Only({"sealed"}) /\ damage = 0
      /\ client' \in AllSettings \cup {NoClient}
  BY ClientType DEF Encode, Room
<1>2. IsBlob(b)
  BY BlobForm DEF encode_to_blob
<1>3. SealedBody(b.body, n, Promised \cup o)
  BY ShelfType DEF SealedBody, IInv
<1>. HIDE DEF b, o
<1>4. Traced("sealed", b, n, Promised \cup o)
  BY <1>2, <1>3, FormatNames DEF Traced
<1>. QED  BY <1>1, <1>4, Keeping, FormatNames

LEMMA EncodeOnlineStep ==
  ASSUME IInv, NEW d \in Documents, NEW p \in Passphrases, NEW e \in Peppers,
         NEW c \in Costs, NEW f \in Dictionaries, NEW pin \in Pins, NEW w \in Draws,
         EncodeOnline(d, p, e, c, f, pin, w)
  PROVE  IInv'
<1>. DEFINE r == harden(p, service, pin, w)
<1>0. client' \in AllSettings \cup {NoClient} /\ n = 1 /\ service \in Services
  BY ClientType DEF EncodeOnline, IInv, TypeOK
<1>1. CASE r.status # "ok"
  <2>1. Refuse(0, {}, r)
    BY <1>1 DEF EncodeOnline
  <2>2. Clean(r) /\ 0 \in 0..Len(shelf)
    BY HardenClean, ShelfType DEF IInv
  <2>. HIDE DEF r
  <2>. QED  BY <1>0, <2>1, <2>2, Answering DEF Refuse
<1>2. CASE r.status = "ok"
  <2>. DEFINE pepper == e \o <<Hardened(pin, p)>>
              b == encode_to_blob("quipu", d, p, f, pepper, c, 1)
              o == {Promise(OfSecret("quipu", p, pepper, f), d)}
  <2>1. r.data = Hardened(pin, p)
    BY <1>0, <1>2, HardenSound
  <2>2. Keep("online", b, o)
    BY <1>0, <1>2, <2>1 DEF EncodeOnline
  <2>3. IsBlob(b)
    BY BlobForm DEF encode_to_blob
  <2>4. OnlineBody(b.body, Promised \cup o)
    BY DEF OnlineBody
  <2>. HIDE DEF b, o
  <2>5. Traced("online", b, n, Promised \cup o)
    BY <2>3, <2>4, FormatNames DEF Traced
  <2>. QED  BY <1>0, <2>2, <2>5, Empty, Keeping, FormatNames
<1>. QED  BY <1>1, <1>2

LEMMA RecipientStep ==
  ASSUME IInv, NEW d \in Documents, NEW r \in Recipients, EncodeToRecipient(d, r) \/ CifrarPara(d, r)
  PROVE  IInv'
<1>0. n \in 1..n /\ client' \in AllSettings \cup {NoClient}
  BY ClientType, ShelfType DEF EncodeToRecipient, CifrarPara, IInv
<1>1. CASE EncodeToRecipient(d, r)
  <2>. DEFINE b == encode_to_recipient(d, r, n)
              o == {Promise(OfRecipient(r), d)}
  <2>1. Keep("recipient", b, o) /\ Only({"recipient"}) /\ damage = 0
    BY <1>1 DEF EncodeToRecipient, Room
  <2>2. IsBlob(b)
    BY BlobForm DEF encode_to_recipient
  <2>3. RecipientBody(b.body, n, Promised \cup o)
    BY <1>0 DEF RecipientBody
  <2>. HIDE DEF b, o
  <2>4. Traced("recipient", b, n, Promised \cup o)
    BY <2>2, <2>3, FormatNames DEF Traced
  <2>. QED  BY <1>0, <2>1, <2>4, Keeping, FormatNames
<1>2. CASE CifrarPara(d, r)
  <2>. DEFINE b == cifrar_para(d, r, n)
              o == {Promise(OfRecipient(r.ml), d)}
  <2>1. Keep("cnsa", b, o) /\ Only({"cnsa"}) /\ damage = 0
    BY <1>2 DEF CifrarPara, Room
  <2>2. IsBlob(b)
    BY BlobForm DEF cifrar_para
  <2>3. CnsaBody(b.body, n, Promised \cup o)
    BY <1>0 DEF CnsaBody
  <2>. HIDE DEF b, o
  <2>4. Traced("cnsa", b, n, Promised \cup o)
    BY <2>2, <2>3, FormatNames DEF Traced
  <2>. QED  BY <1>0, <2>1, <2>4, Keeping, FormatNames
<1>. QED  BY <1>1, <1>2

LEMMA SignedStep ==
  ASSUME IInv, NEW d \in Documents, NEW v \in Signers, EncodeSigned(d, v)
  PROVE  IInv'
<1>. DEFINE g == sign(v, d)
            b == IF DOMAIN v = {"ml"} THEN firmar_aparte(v, d) ELSE armar_firmado(Magic(v), d, g)
            o == SignedBy(v, DOMAIN v, d)
<1>1. /\ Keep("signed", b, o) /\ Only({"signed"}) /\ damage = 0
      /\ client' \in AllSettings \cup {NoClient}
  BY ClientType DEF EncodeSigned, Room
<1>2. IsBlob(b) /\ b.body = <<"signed", d, g>>
  BY BlobForm DEF firmar_aparte, armar_firmado
<1>3. HalvesKept(g, Promised \cup o)
  BY DEF HalvesKept, sign, HalfSignature, build_preimage, SignedBy
<1>. HIDE DEF b, o, g
<1>4. SignedBody(b.body, Promised \cup o)
  BY <1>2, <1>3 DEF SignedBody
<1>5. Traced("signed", b, n, Promised \cup o)
  BY <1>2, <1>4, FormatNames DEF Traced
<1>. QED  BY <1>1, <1>5, Keeping, FormatNames

(* What a custodian signs, each half signs with a key of its own.          *)
LEMMA FirmarSigns ==
  ASSUME NEW c, NEW d
  PROVE  /\ Clean(firmar(c, d))
         /\ firmar(c, d).status = "ok" =>
              firmar(c, d).data = [ed |-> HalfSignature(c["ed"].key, build_preimage(c.verificacion, d)),
                                   ml |-> HalfSignature(c["ml"].key, build_preimage(c.verificacion, d))]
<1>. DEFINE m == build_preimage(c.verificacion, d)
            e == firmar_crudo(c, 7, "ed", m)
            l == firmar_crudo(c, 8, "ml", m)
<1>1. \A k, h : LET r == firmar_crudo(c, k, h, m)
                IN  Clean(r) /\ (r.status = "ok" => r.data = HalfSignature(c[h].key, m))
  BY ResultForm DEF firmar_crudo, Asked, traducir, GoneCodes
<1>2. firmar(c, d) = IF e.status # "ok" THEN e ELSE IF l.status # "ok" THEN l
                     ELSE Done([ed |-> e.data, ml |-> l.data])
  BY DEF firmar, Then
<1>3. /\ Clean(e) /\ (e.status = "ok" => e.data = HalfSignature(c["ed"].key, m))
      /\ Clean(l) /\ (l.status = "ok" => l.data = HalfSignature(c["ml"].key, m))
  BY <1>1
<1>. HIDE DEF e, l, m
<1>4. Clean(firmar(c, d))
  BY <1>2, <1>3, ResultForm
<1>5. firmar(c, d).status = "ok" =>
        firmar(c, d).data = [ed |-> HalfSignature(c["ed"].key, m), ml |-> HalfSignature(c["ml"].key, m)]
  BY <1>2, <1>3, ResultForm
<1>. QED  BY <1>4, <1>5 DEF m

(* A custodian that was found, or why none was.                            *)
LEMMA CustodianClean ==
  ASSUME NEW r \in Custodians
  PROVE  Clean(r)
<1>1. \A c : Clean(traducir(c))
  BY ResultForm DEF traducir
<1>2. \A f, k, x : Clean(x) => Clean(Asked(f, k, x))
  BY <1>1, ResultForm DEF Asked
<1>3. \A t, k, l, c : Clean(buscar_uno(t, k, l, c))
  BY <1>2, ResultForm DEF buscar_uno
<1>4. \A t, k, l : Clean(buscar_par(t, k, l))
  BY <1>3, ResultForm DEF buscar_par, Then
<1>5. \A t, o : Clean(leer_ed25519_publica(t, o)) /\ Clean(leer_mldsa_publica(t, o))
  BY <1>2, ResultForm DEF leer_ed25519_publica, leer_mldsa_publica
<1>6. \A t, e, m : Clean(nuevo(t, e, m))
  BY <1>5, ResultForm DEF nuevo, Then
<1>7. \A t, e, m : Clean(por_etiqueta(t, e, m))
  BY <1>4, <1>6 DEF por_etiqueta, Then
<1>. QED  BY <1>7, ResultForm DEF Custodians

LEMMA CustodyStep ==
  ASSUME IInv, NEW d \in Documents, NEW x \in Custodians, EncodeSignedConCustodio(d, x)
  PROVE  IInv'
<1>. DEFINE r == IF x.status = "ok" THEN firmar(x.data, d) ELSE x
            c == x.data
            b == armar_firmado("QSG1", d, r.data)
            o == SignedBy(c.verificacion, SoundHalves(c), d)
<1>0. client' \in AllSettings \cup {NoClient} /\ Only({"signed"}) /\ damage = 0
  BY ClientType DEF EncodeSignedConCustodio, Room
<1>1. IF r.status # "ok" THEN Refuse(0, {}, r) ELSE Keep("signed", b, o)
  BY DEF EncodeSignedConCustodio, Then
<1>2. CASE r.status # "ok"
  <2>1. Clean(r)
    <3>1. Clean(x) /\ Clean(firmar(x.data, d))
      BY CustodianClean, FirmarSigns
    <3>. QED  BY <3>1
  <2>2. 0 \in 0..Len(shelf)
    BY ShelfType DEF IInv
  <2>. HIDE DEF r
  <2>. QED  BY <1>0, <1>1, <1>2, <2>1, <2>2, Answering DEF Refuse
<1>3. CASE r.status = "ok"
  <2>1. r.data = [ed |-> HalfSignature(c["ed"].key, build_preimage(c.verificacion, d)),
                  ml |-> HalfSignature(c["ml"].key, build_preimage(c.verificacion, d))]
    BY <1>3, FirmarSigns
  <2>2. IsBlob(b) /\ b.body = <<"signed", d, r.data>>
    BY BlobForm DEF armar_firmado
  <2>. HIDE DEF r, c
  <2>3. HalvesKept(r.data, Promised \cup o)
    <3>. SUFFICES ASSUME NEW v \in Signers, NEW y \in Documents, NEW h \in DOMAIN v \cap DOMAIN r.data,
                         r.data[h] = HalfSignature(v[h], build_preimage(v, y))
         PROVE  Promise(OfHalf(h, v), y) \in Promised \cup o
      BY DEF HalvesKept
    <3>1. h \in HybridHalves /\ r.data[h] = HalfSignature(c[h].key, build_preimage(c.verificacion, d))
      BY <2>1 DEF HybridHalves
    <3>2. v = c.verificacion /\ y = d /\ c[h].key = v[h]
      BY <3>1 DEF HalfSignature, build_preimage
    <3>3. h \in SoundHalves(c)
      BY <3>1, <3>2 DEF SoundHalves
    <3>. QED  BY <3>2, <3>3 DEF SignedBy
  <2>. HIDE DEF b, o
  <2>4. SignedBody(b.body, Promised \cup o)
    BY <2>2, <2>3 DEF SignedBody
  <2>5. Traced("signed", b, n, Promised \cup o)
    BY <2>2, <2>4, FormatNames DEF Traced
  <2>. QED  BY <1>0, <1>1, <1>3, <2>5, Keeping, FormatNames
<1>. QED  BY <1>2, <1>3

(* The digits of a honey keystream are below its alphabet.                 *)
LEMMA KeystreamType ==
  ASSUME NEW p \in Passphrases, NEW e \in Peppers, NEW salt \in Nat, NEW c, NEW size \in Nat \ {0},
         NEW len \in Int, NEW i \in 1..len
  PROVE  keystream_digits(p, salt, e, c, size, len)[i] \in 0..(size - 1)
<1>1. Stream[Normal[p] \o e] \in Nat
  BY HoneyAssumption, VaultAssumption
<1>2. keystream_digits(p, salt, e, c, size, len)[i] = (Stream[Normal[p] \o e] + salt + i) % size
  BY DEF keystream_digits, derive_master_key
<1>3. Stream[Normal[p] \o e] + salt + i \in Int
  BY <1>1
<1>. QED  BY <1>2, <1>3, Euclid

LEMMA BlankForm ==
  /\ Blank = [f \in DOMAIN Blank |-> Blank[f]]
  /\ {"magic", "version", "salt", "params", "alphabet", "length"} \subseteq DOMAIN Blank
BY DEF Blank

LEMMA HoneyStep ==
  ASSUME IInv, NEW t \in Secrets, NEW p \in Passphrases, NEW c \in Costs, HoneyEncrypt(t, p, c)
  PROVE  IInv'
<1>. DEFINE r == honey_encrypt(t, 10, p, <<>>, c, n)
            o == {Promise(OfHoney(p), t)}
            ks == keystream_digits(p, n, <<>>, c, 10, Len(t))
            x == [i \in 1..Len(t) |-> (t[i] + ks[i]) % 10]
            h == [Blank EXCEPT !.magic = "QHNY", !.salt = n, !.params = c,
                               !.alphabet = 10, !.length = Len(t)]
<1>0. /\ client' \in AllSettings \cup {NoClient} /\ Only({"honey"}) /\ damage = 0
      /\ n \in Nat /\ t \in Seq(Nat)
  BY ClientType, ShelfType, VaultAssumption DEF HoneyEncrypt, Room, IInv
<1>1. IF r.status # "ok" THEN Refuse(0, {}, r) ELSE Keep("honey", r.data, o)
  BY DEF HoneyEncrypt
<1>2. Clean(r) /\ (r.status = "ok" => r.data = Blob("quipu", h, <<"tokens", x>>))
  BY ResultForm DEF honey_encrypt
<1>3. CASE r.status # "ok"
  <2>1. 0 \in 0..Len(shelf)
    BY ShelfType DEF IInv
  <2>. HIDE DEF r
  <2>. QED  BY <1>0, <1>1, <1>2, <1>3, <2>1, Answering DEF Refuse
<1>4. CASE r.status = "ok"
  <2>. DEFINE b == Blob("quipu", h, <<"tokens", x>>)
  <2>1. x \in Seq(Nat)
    <3>1. ASSUME NEW i \in 1..Len(t) PROVE x[i] \in Nat
      <4>. DEFINE k == ks[i]
      <4>1. k \in 0..9
        <5>1. <<>> \in Peppers /\ 10 \in Nat \ {0} /\ Len(t) \in Int
          BY <1>0, VaultAssumption
        <5>2. k \in 0..(10 - 1)
          BY <1>0, <5>1, KeystreamType
        <5>. QED  BY <5>2
      <4>2. t[i] \in Nat
        BY <1>0, ElementOfSeq
      <4>. HIDE DEF ks, k
      <4>3. t[i] + k \in Int
        BY <4>1, <4>2
      <4>4. (t[i] + k) % 10 \in Nat
        <5>1. 10 \in Nat \ {0}
          OBVIOUS
        <5>2. (t[i] + k) % 10 \in 0..(10 - 1)
          BY <4>3, <5>1, Euclid
        <5>. QED  BY <5>2
      <4>. QED  BY <4>4 DEF k
    <3>2. Len(t) \in Nat
      BY <1>0
    <3>. HIDE DEF ks
    <3>3. x \in [1..Len(t) -> Nat]
      BY <3>1
    <3>. HIDE DEF x
    <3>. QED  BY <3>2, <3>3, FunctionIsSeq
  <2>. HIDE DEF x
  <2>2. HoneyHeader(h)
    <3>1. /\ DOMAIN h = DOMAIN Blank /\ h = [f \in DOMAIN Blank |-> h[f]]
          /\ h["salt"] = n /\ h["alphabet"] = 10 /\ h["length"] = Len(t)
      BY BlankForm
    <3>. HIDE DEF h
    <3>2. Len(t) \in Int
      BY <1>0
    <3>. QED  BY <1>0, <3>1, <3>2 DEF HoneyHeader
  <2>. HIDE DEF h
  <2>3. IsBlob(b) /\ b.header = h /\ b.body = <<"tokens", x>>
    BY BlobForm
  <2>4. HoneyBody(b.body)
    BY <2>1, <2>3 DEF HoneyBody
  <2>5. r.data = b
    BY <1>2, <1>4
  <2>. HIDE DEF b, r, o
  <2>6. Traced("honey", b, n, Promised \cup o)
    BY <2>2, <2>3, <2>4, FormatNames DEF Traced
  <2>. QED  BY <1>0, <1>1, <1>4, <2>5, <2>6, Keeping, FormatNames
<1>. QED  BY <1>3, <1>4

(* A region is sealed when its frame fits.                                 *)
LEMMA RegionFits ==
  ASSUME NEW v, NEW d, NEW p, NEW k, NEW z, NEW c
  PROVE  Region(v, d, p, k, z, c).status = claro_de_region(d, FrameRoom(v, z)).status
<1>. DEFINE plain == claro_de_region(d, FrameRoom(v, z))
            sealed == Done(encrypt(RegionKey(v, p, k, c), RegionNonce(v, p, k, c),
                                   plain.data, dato_autenticado(k, z)))
<1>1. Region(v, d, p, k, z, c) = IF plain.status # "ok" THEN plain ELSE sealed
  BY DEF Region, FrameRoom
<1>2. sealed.status = "ok"
  BY ResultForm
<1>. HIDE DEF plain, sealed
<1>3. Region(v, d, p, k, z, c).status = plain.status
  BY <1>1, <1>2
<1>. QED  BY <1>3 DEF plain

(* What is framed in turn, with a hidden volume or without.                *)
LEMMA FramesForm ==
  ASSUME NEW z, NEW d, NEW h
  PROVE  /\ DOMAIN Frames(z, d, h) = {1, 2}
         /\ Frames(z, d, h)[1] = claro_de_region(d, FrameRoom("decoy", z))
         /\ Frames(z, d, h)[2] =
              claro_de_region(IF h = NoVolume THEN <<>> ELSE h[1], FrameRoom("hidden", z))
<1>. DEFINE x == claro_de_region(d, FrameRoom("decoy", z))
            y == claro_de_region(IF h = NoVolume THEN <<>> ELSE h[1], FrameRoom("hidden", z))
<1>1. Frames(z, d, h) = <<x, y>>
  BY DEF Frames
<1>. HIDE DEF x, y
<1>2. DOMAIN <<x, y>> = {1, 2} /\ <<x, y>>[1] = x /\ <<x, y>>[2] = y
  OBVIOUS
<1>. QED  BY <1>1, <1>2 DEF x, y

(* What a deniable container is made of, or why it is not made.            *)
LEMMA CrearForm ==
  ASSUME NEW z, NEW d, NEW p, NEW h, NEW c, NEW k
  PROVE  /\ Clean(crear(z, d, p, h, c, k))
         /\ crear(z, d, p, h, c, k).status = "ok" =>
              LET decoy == Region("decoy", d, p, k, z, c)
                  hidden == Region("hidden", h[1], h[2], k, z, c)
              IN  /\ decoy.status = "ok" /\ ~(z < MinSize) /\ d # <<>>
                  /\ h # NoVolume => hidden.status = "ok" /\ Normal[p] # Normal[h[2]]
                  /\ crear(z, d, p, h, c, k).data =
                       Container(k, z, decoy.data, IF h = NoVolume THEN Noise ELSE hidden.data)
<1>. DEFINE decoy == Region("decoy", d, p, k, z, c)
            hidden == Region("hidden", h[1], h[2], k, z, c)
            frames == Frames(z, d, h)
            short == \E i \in DOMAIN frames : frames[i].status # "ok"
<1>2. ~short => decoy.status = "ok" /\ (h # NoVolume => hidden.status = "ok")
  <2>. SUFFICES ASSUME ~short
                PROVE  decoy.status = "ok" /\ (h # NoVolume => hidden.status = "ok")
    OBVIOUS
  <2>1. frames[1].status = "ok" /\ frames[2].status = "ok"
    BY FramesForm
  <2>. QED  BY <2>1, FramesForm, RegionFits
<1>3. crear(z, d, p, h, c, k) =
        IF d = <<>> THEN Refused("empty decoy")
        ELSE IF z < MinSize THEN Refused("size")
        ELSE IF h # NoVolume /\ SamePassphrase(p, h[2]) THEN Refused("same passphrase")
        ELSE IF short THEN Refused("no room")
        ELSE Done(Container(k, z, decoy.data, IF h = NoVolume THEN Noise ELSE hidden.data))
  BY DEF crear
<1>. HIDE DEF decoy, hidden, short
<1>4. Clean(crear(z, d, p, h, c, k))
  BY <1>3, ResultForm
<1>5. ASSUME crear(z, d, p, h, c, k).status = "ok"
      PROVE  /\ decoy.status = "ok" /\ ~(z < MinSize) /\ d # <<>>
             /\ h # NoVolume => hidden.status = "ok" /\ Normal[p] # Normal[h[2]]
             /\ crear(z, d, p, h, c, k).data =
                  Container(k, z, decoy.data, IF h = NoVolume THEN Noise ELSE hidden.data)
  <2>. DEFINE region == IF h = NoVolume THEN Noise ELSE hidden.data
              made == Done(Container(k, z, decoy.data, region))
  <2>1. made.status = "ok" /\ made.data = Container(k, z, decoy.data, region)
    BY ResultForm
  <2>2. \A e \in {"empty decoy", "size", "same passphrase", "no room"} : Refused(e).status # "ok"
    BY ResultForm
  <2>3. /\ decoy.status = "ok" /\ ~(z < MinSize) /\ d # <<>>
        /\ h # NoVolume => hidden.status = "ok" /\ ~SamePassphrase(p, h[2])
        /\ crear(z, d, p, h, c, k) = made
    <3>. HIDE DEF made
    <3>1. crear(z, d, p, h, c, k) =
            IF d = <<>> THEN Refused("empty decoy")
            ELSE IF z < MinSize THEN Refused("size")
            ELSE IF h # NoVolume /\ SamePassphrase(p, h[2]) THEN Refused("same passphrase")
            ELSE IF short THEN Refused("no room")
            ELSE made
      BY <1>3 DEF made
    <3>2. ~(d = <<>>)
      BY <1>5, <2>2, <3>1
    <3>3. ~(z < MinSize)
      BY <1>5, <2>2, <3>1, <3>2
    <3>4. ~(h # NoVolume /\ SamePassphrase(p, h[2]))
      BY <1>5, <2>2, <3>1, <3>2, <3>3
    <3>5. ~short
      BY <1>5, <2>2, <3>1, <3>2, <3>3, <3>4
    <3>. QED  BY <1>2, <3>1, <3>2, <3>3, <3>4, <3>5
  <2>. QED  BY <2>1, <2>3 DEF SamePassphrase
<1>. QED  BY <1>4, <1>5 DEF decoy, hidden

LEMMA Retouched ==
  ASSUME NEW r, IsArtifact(r), NEW t, NEW w
  PROVE  [r EXCEPT !.twin = t, !.work = w]
           = [format |-> r.format, blob |-> r.blob, promises |-> r.promises,
              intact |-> r.intact, twin |-> t, work |-> w]
<1>. DEFINE fields == {"format", "blob", "promises", "intact", "twin", "work"}
            x == [r EXCEPT !.twin = t]
            y == [x EXCEPT !.work = w]
            z == [format |-> r.format, blob |-> r.blob, promises |-> r.promises,
                  intact |-> r.intact, twin |-> t, work |-> w]
<1>1. DOMAIN r = fields /\ r = [f \in DOMAIN r |-> r[f]]
  BY DEF IsArtifact
<1>2. x = [f \in fields |-> IF f = "twin" THEN t ELSE r[f]]
  BY <1>1
<1>. HIDE DEF x
<1>3. y = [f \in fields |-> IF f = "work" THEN w ELSE x[f]]
  BY <1>2
<1>4. z = [f \in fields |-> z[f]] /\ \A f \in fields : z[f] = y[f]
  BY <1>2, <1>3
<1>5. [r EXCEPT !.twin = t, !.work = w] = y
  BY DEF x
<1>. QED  BY <1>3, <1>4, <1>5

LEMMA CrearStep ==
  ASSUME IInv, NEW z \in AllSizes, NEW d \in Documents, NEW p \in Passphrases,
         NEW h \in HiddenVolumes, NEW j \in 1..Len(Profiles), Crear(z, d, p, h, Profiles[j])
  PROVE  IInv'
<1>. DEFINE c == Profiles[j]
            r == crear(z, d, p, h, c, n)
            o == {Promise(OfProfile(p, c), <<"decoy", d>>)}
                   \cup {Promise(OfProfile(v[2], c), <<"hidden", v[1]>>) : v \in {h} \ {NoVolume}}
            t == crear(z, d, p, NoVolume, c, n).data
            w == {WorkOfMaking(z, d, h), WorkOfMaking(z, d, NoVolume)}
            a == [Artifact("deniable", r.data, o) EXCEPT !.twin = t, !.work = w]
<1>0. /\ client' \in AllSettings \cup {NoClient} /\ Only({"deniable"}) /\ damage = 0
      /\ n \in Nat /\ n \in 1..n
  BY ClientType, ShelfType DEF Crear, Room, IInv
<1>1. CASE r.status # "ok"
  <2>1. Refuse(0, {}, r)
    BY <1>1 DEF Crear
  <2>2. Clean(r) /\ 0 \in 0..Len(shelf)
    BY CrearForm, ShelfType DEF IInv
  <2>. HIDE DEF r
  <2>. QED  BY <1>0, <2>1, <2>2, Answering DEF Refuse
<1>2. CASE r.status = "ok"
  <2>1. shelf' = Append(shelf, a) /\ UNCHANGED <<damage, service, settings, opened>>
    BY <1>2 DEF Crear
  <2>2. a = [format |-> "deniable", blob |-> r.data, promises |-> o,
             intact |-> TRUE, twin |-> t, work |-> w]
    <3>. DEFINE x == Artifact("deniable", r.data, o)
    <3>1. /\ IsArtifact(x) /\ x.format = "deniable" /\ x.blob = r.data
          /\ x.promises = o /\ x.intact = TRUE
      BY DEF Artifact, IsArtifact
    <3>. HIDE DEF r, o, t, w, x
    <3>2. [x EXCEPT !.twin = t, !.work = w]
            = [format |-> x.format, blob |-> x.blob, promises |-> x.promises,
               intact |-> x.intact, twin |-> t, work |-> w]
      BY <3>1, Retouched
    <3>. QED  BY <3>1, <3>2 DEF x
  <2>3. MadeAsDeniable([format |-> "deniable", blob |-> r.data, promises |-> o,
                        intact |-> TRUE, twin |-> t, work |-> w], n)
    BY <1>2 DEF MadeAsDeniable
  <2>. DEFINE decoy == Region("decoy", d, p, n, z, c)
              hidden == Region("hidden", h[1], h[2], n, z, c)
              region == IF h = NoVolume THEN Noise ELSE hidden.data
  <2>4. /\ decoy.status = "ok" /\ (h # NoVolume => hidden.status = "ok")
        /\ r.data = Container(n, z, decoy.data, region)
    BY <1>2, CrearForm
  <2>5. SealedRegion(decoy.data, n, Promised \cup o)
    BY <1>0, <2>4 DEF SealedRegion
  <2>6. h # NoVolume => SealedRegion(hidden.data, n, Promised \cup o)
    <3>. SUFFICES ASSUME h # NoVolume PROVE SealedRegion(hidden.data, n, Promised \cup o)
      OBVIOUS
    <3>1. h[1] \in Documents /\ h[2] \in Passphrases
      BY DEF HiddenVolumes, Volume
    <3>2. Promise(OfProfile(h[2], c), <<"hidden", h[1]>>) \in Promised \cup o
      OBVIOUS
    <3>. QED  BY <1>0, <2>4, <3>1, <3>2 DEF SealedRegion
  <2>. HIDE DEF decoy, hidden, o
  <2>7. /\ r.data = Container(r.data.salt, r.data.size, r.data.decoy, r.data.hidden)
        /\ r.data.decoy = decoy.data /\ r.data.hidden = region
    BY <2>4 DEF Container
  <2>. HIDE DEF r
  <2>8. Traced("deniable", r.data, n, Promised \cup o)
    BY <2>5, <2>6, <2>7, FormatNames DEF Traced
  <2>. HIDE DEF t, w, a
  <2>9. /\ IsArtifact(a) /\ a.intact = TRUE /\ a.format = "deniable"
        /\ a.blob = r.data /\ a.promises = o /\ MadeAsDeniable(a, n)
    BY <2>2, <2>3 DEF IsArtifact
  <2>. QED  BY <1>0, <2>1, <2>8, <2>9, Making, FormatNames
<1>. QED  BY <1>1, <1>2

LEMMA DjangoClean ==
  ASSUME IInv, NEW p \in Passphrases, NEW w \in Draws
  PROVE  LET r == django_harden(p, w)
         IN  /\ Clean(r)
             /\ r.status = "ok" =>
                  /\ r.data = Hardened(Client.pin, p) /\ Client.pin \in Pins
                  /\ service.state \in {"up", "crossed"}
                  /\ Settings(public_key(service.key), service.api) = Client
<1>. DEFINE r == harden(p, service, Client.pin, w)
<1>1. /\ service \in Services /\ Client.pin \in Pins
      /\ Client = Settings(Client.pin, Client.api)
  BY ClientType DEF IInv, TypeOK, AllSettings, Settings
<1>2. Clean(r)
  BY HardenClean
<1>3. r.status = "ok" =>
        r.data = Hardened(Client.pin, p) /\ Client.pin = public_key(service.key)
          /\ service.state \in {"up", "crossed"}
  BY <1>1, HardenSound
<1>4. django_harden(p, w) =
        IF r.status \in {"network", "denied"} \/ service.api # Client.api THEN Refused("unavailable")
        ELSE IF r.status = "verification" THEN Refused("rejected") ELSE r
  BY DEF django_harden
<1>. HIDE DEF r
<1>. QED  BY <1>1, <1>2, <1>3, <1>4, ResultForm

LEMMA DjangoEncodeStep ==
  ASSUME IInv, NEW p \in Passphrases, NEW w \in Draws, DjangoEncode(p, w)
  PROVE  IInv'
<1>. DEFINE r == django_harden(p, w)
            b == <<n, r.data>>
            o == {Promise(OfLogin(Client.pin, p), <<TRUE>>)}
<1>0. client' \in AllSettings \cup {NoClient} /\ n = 1
  BY ClientType DEF DjangoEncode
<1>1. IF r.status # "ok" THEN Refuse(0, {}, r) ELSE Keep("login", b, o)
  BY DEF DjangoEncode
<1>2. /\ Clean(r)
      /\ r.status = "ok" => r.data = Hardened(Client.pin, p) /\ Client.pin \in Pins
  BY DjangoClean
<1>3. CASE r.status # "ok"
  <2>1. 0 \in 0..Len(shelf)
    BY ShelfType DEF IInv
  <2>. HIDE DEF r
  <2>. QED  BY <1>0, <1>1, <1>2, <1>3, <2>1, Answering DEF Refuse
<1>4. CASE r.status = "ok"
  <2>1. MadeAsLogin(Artifact("login", b, o))
    BY <1>2, <1>4 DEF MadeAsLogin, Artifact
  <2>. HIDE DEF b, o
  <2>2. Traced("login", b, n, Promised \cup o)
    BY FormatNames DEF Traced
  <2>. QED  BY <1>0, <1>1, <1>4, <2>1, <2>2, Empty, Keeping, FormatNames
<1>. QED  BY <1>3, <1>4

-----------------------------------------------------------------------------
(* What is found in an artifact that was damaged is still traced.          *)
LEMMA ContainerForm ==
  ASSUME NEW s, NEW z, NEW d, NEW h, NEW x
  PROVE  LET c == Container(s, z, d, h)
         IN  /\ c.salt = s /\ c.size = z /\ c.decoy = d /\ c.hidden = h
             /\ [c EXCEPT !.salt = x] = Container(x, z, d, h)
             /\ [c EXCEPT !.size = x] = Container(s, x, d, h)
             /\ [c EXCEPT !.decoy = x] = Container(s, z, x, h)
             /\ [c EXCEPT !.hidden = x] = Container(s, z, d, x)
BY DEF Container

LEMMA ContainerTraced ==
  ASSUME IInv, NEW i \in 1..Len(shelf), shelf[i].format = "deniable", NEW b \in ContainersFound(i)
  PROVE  Traced("deniable", b, Len(shelf), Promised)
<1>. DEFINE Sound(r) == r = Noise \/ SealedRegion(r, Len(shelf), Promised)
            c == shelf[i].blob
<1>1. \A j \in 1..Len(shelf) :
        /\ shelf[j].blob = Container(shelf[j].blob.salt, shelf[j].blob.size,
                                     shelf[j].blob.decoy, shelf[j].blob.hidden)
        /\ Sound(shelf[j].blob.decoy) /\ Sound(shelf[j].blob.hidden)
  BY DEF IInv, OneFormat, Provenance, Traced
<1>2. c = Container(c.salt, c.size, c.decoy, c.hidden) /\ Sound(c.decoy) /\ Sound(c.hidden)
  BY <1>1
<1>3. ASSUME NEW s, NEW z, NEW d, NEW h, b = Container(s, z, d, h), Sound(d), Sound(h)
      PROVE  Traced("deniable", b, Len(shelf), Promised)
  <2>1. b.salt = s /\ b.size = z /\ b.decoy = d /\ b.hidden = h
    BY <1>3, ContainerForm
  <2>. QED  BY <1>3, <2>1, FormatNames DEF Traced
<1>. HIDE DEF Sound
<1>4. CASE b \in {[c EXCEPT !.size = @ + 1], [c EXCEPT !.size = MinSize - 1], [c EXCEPT !.salt = 0],
                  [c EXCEPT !.decoy = c.hidden, !.hidden = c.decoy]}
  <2>. HIDE DEF c
  <2>1. \/ b = Container(c.salt, c.size + 1, c.decoy, c.hidden)
        \/ b = Container(c.salt, MinSize - 1, c.decoy, c.hidden)
        \/ b = Container(0, c.size, c.decoy, c.hidden)
        \/ b = Container(c.salt, c.size, c.hidden, c.decoy)
    <3>. DEFINE k == Container(c.salt, c.size, c.decoy, c.hidden)
    <3>1. b \in {[k EXCEPT !.size = c.size + 1], [k EXCEPT !.size = MinSize - 1], [k EXCEPT !.salt = 0],
                 [k EXCEPT !.decoy = c.hidden, !.hidden = c.decoy]}
      BY <1>2, <1>4
    <3>2. /\ [k EXCEPT !.size = c.size + 1] = Container(c.salt, c.size + 1, c.decoy, c.hidden)
          /\ [k EXCEPT !.size = MinSize - 1] = Container(c.salt, MinSize - 1, c.decoy, c.hidden)
          /\ [k EXCEPT !.salt = 0] = Container(0, c.size, c.decoy, c.hidden)
      BY ContainerForm
    <3>3. [k EXCEPT !.decoy = c.hidden, !.hidden = c.decoy] = Container(c.salt, c.size, c.hidden, c.decoy)
      <4>1. [k EXCEPT !.decoy = c.hidden] = Container(c.salt, c.size, c.hidden, c.hidden)
        BY ContainerForm
      <4>2. [Container(c.salt, c.size, c.hidden, c.hidden) EXCEPT !.hidden = c.decoy]
              = Container(c.salt, c.size, c.hidden, c.decoy)
        BY ContainerForm
      <4>. HIDE DEF k
      <4>3. [k EXCEPT !.decoy = c.hidden, !.hidden = c.decoy]
              = [[k EXCEPT !.decoy = c.hidden] EXCEPT !.hidden = c.decoy]
        OBVIOUS
      <4>. QED  BY <4>1, <4>2, <4>3
    <3>. HIDE DEF k
    <3>. QED  BY <3>1, <3>2, <3>3
  <2>. QED  BY <1>2, <1>3, <2>1
<1>5. CASE \E j \in 1..Len(shelf) :
             b \in {[c EXCEPT !.decoy = shelf[j].blob.decoy], [c EXCEPT !.hidden = shelf[j].blob.hidden],
                    [c EXCEPT !.salt = shelf[j].blob.salt]}
  <2>1. PICK j \in 1..Len(shelf) :
             b \in {[c EXCEPT !.decoy = shelf[j].blob.decoy], [c EXCEPT !.hidden = shelf[j].blob.hidden],
                    [c EXCEPT !.salt = shelf[j].blob.salt]}
    BY <1>5
  <2>. DEFINE o == shelf[j].blob
  <2>2. Sound(o.decoy) /\ Sound(o.hidden)
    BY <1>1
  <2>3. b \in {[c EXCEPT !.decoy = o.decoy], [c EXCEPT !.hidden = o.hidden], [c EXCEPT !.salt = o.salt]}
    BY <2>1
  <2>. HIDE DEF c, o
  <2>4. \/ b = Container(c.salt, c.size, o.decoy, c.hidden)
        \/ b = Container(c.salt, c.size, c.decoy, o.hidden)
        \/ b = Container(o.salt, c.size, c.decoy, c.hidden)
    <3>. DEFINE k == Container(c.salt, c.size, c.decoy, c.hidden)
    <3>1. b \in {[k EXCEPT !.decoy = o.decoy], [k EXCEPT !.hidden = o.hidden], [k EXCEPT !.salt = o.salt]}
      BY <1>2, <2>3
    <3>2. /\ [k EXCEPT !.decoy = o.decoy] = Container(c.salt, c.size, o.decoy, c.hidden)
          /\ [k EXCEPT !.hidden = o.hidden] = Container(c.salt, c.size, c.decoy, o.hidden)
          /\ [k EXCEPT !.salt = o.salt] = Container(o.salt, c.size, c.decoy, c.hidden)
      BY ContainerForm
    <3>. HIDE DEF k
    <3>3. \/ b = [k EXCEPT !.decoy = o.decoy] \/ b = [k EXCEPT !.hidden = o.hidden]
          \/ b = [k EXCEPT !.salt = o.salt]
      BY <3>1, Zenon
    <3>. QED  BY <3>2, <3>3, Zenon
  <2>. QED  BY <1>2, <1>3, <2>2, <2>4
<1>. QED  BY <1>4, <1>5 DEF ContainersFound

LEMMA BlobAltered ==
  ASSUME NEW b, IsBlob(b), NEW x
  PROVE  /\ LET r == [b EXCEPT !.cut = TRUE]
            IN  IsBlob(r) /\ r.header = b.header /\ r.body = b.body
         /\ LET r == [b EXCEPT !.body = x]
            IN  IsBlob(r) /\ r.header = b.header /\ r.body = x
         /\ LET r == [b EXCEPT !.header = x]
            IN  IsBlob(r) /\ r.header = x /\ r.body = b.body
<1>. DEFINE fields == {"suite", "header", "body", "cut"}
<1>1. DOMAIN b = fields /\ b = [f \in fields |-> b[f]]
  BY DEF IsBlob
<1>2. ASSUME NEW r, DOMAIN r = fields, r = [f \in fields |-> r[f]] PROVE IsBlob(r)
  <2>. DEFINE z == [suite |-> r.suite, header |-> r.header, body |-> r.body, cut |-> r.cut]
  <2>1. z = [f \in fields |-> z[f]] /\ \A f \in fields : z[f] = r[f]
    OBVIOUS
  <2>. HIDE DEF z
  <2>2. z = r
    BY <1>2, <2>1
  <2>. QED  BY <2>2 DEF IsBlob, z
<1>3. /\ [b EXCEPT !.cut = TRUE] = [f \in fields |-> IF f = "cut" THEN TRUE ELSE b[f]]
      /\ [b EXCEPT !.body = x] = [f \in fields |-> IF f = "body" THEN x ELSE b[f]]
      /\ [b EXCEPT !.header = x] = [f \in fields |-> IF f = "header" THEN x ELSE b[f]]
  BY <1>1
<1>4. LET r == [b EXCEPT !.cut = TRUE] IN IsBlob(r) /\ r.header = b.header /\ r.body = b.body
  <2>. DEFINE r == [b EXCEPT !.cut = TRUE]
  <2>1. r = [f \in fields |-> IF f = "cut" THEN TRUE ELSE b[f]]
    BY <1>3
  <2>. HIDE DEF r
  <2>2. IsBlob(r)
    BY <1>2, <2>1
  <2>3. r.header = b.header /\ r.body = b.body
    BY <2>1
  <2>. QED  BY <2>2, <2>3 DEF r
<1>5. LET r == [b EXCEPT !.body = x] IN IsBlob(r) /\ r.header = b.header /\ r.body = x
  <2>. DEFINE r == [b EXCEPT !.body = x]
  <2>1. r = [f \in fields |-> IF f = "body" THEN x ELSE b[f]]
    BY <1>3
  <2>. HIDE DEF r
  <2>2. IsBlob(r)
    BY <1>2, <2>1
  <2>3. r.header = b.header /\ r.body = x
    BY <2>1
  <2>. QED  BY <2>2, <2>3 DEF r
<1>6. LET r == [b EXCEPT !.header = x] IN IsBlob(r) /\ r.header = x /\ r.body = b.body
  <2>. DEFINE r == [b EXCEPT !.header = x]
  <2>1. r = [f \in fields |-> IF f = "header" THEN x ELSE b[f]]
    BY <1>3
  <2>. HIDE DEF r
  <2>2. IsBlob(r)
    BY <1>2, <2>1
  <2>3. r.header = x /\ r.body = b.body
    BY <2>1
  <2>. QED  BY <2>2, <2>3 DEF r
<1>. QED  BY <1>4, <1>5, <1>6

(* The body of a blob, and what may be in its place.                       *)
BodyTraced(format, body, made, promised) ==
  \/ body = Noise
  \/ format = "sealed" /\ SealedBody(body, made, promised)
  \/ format = "recipient" /\ RecipientBody(body, made, promised)
  \/ format = "cnsa" /\ CnsaBody(body, made, promised)
  \/ format = "signed" /\ SignedBody(body, promised)
  \/ format = "honey" /\ HoneyBody(body)

LEMMA TracedByBody ==
  ASSUME NEW format \in DOMAIN Fields, NEW b, NEW made, NEW promised
  PROVE  Traced(format, b, made, promised) <=>
           /\ IsBlob(b) /\ BodyTraced(format, b.body, made, promised)
           /\ format = "honey" => HoneyHeader(b.header)
BY FormatNames DEF Traced, BodyTraced

LEMMA SignedMixed ==
  ASSUME NEW x, NEW y, NEW promised, SignedBody(x, promised), SignedBody(y, promised)
  PROVE  /\ SignedBody([x EXCEPT ![2] = y[2]], promised)
         /\ SignedBody([x EXCEPT ![3] = y[3]], promised)
         /\ \A h \in DOMAIN x[3] \cap DOMAIN y[3] : SignedBody([x EXCEPT ![3][h] = y[3][h]], promised)
<1>1. ASSUME NEW d, NEW g
      PROVE  LET t == <<"signed", d, g>>
             IN  t[2] = d /\ t[3] = g /\ t = <<"signed", t[2], t[3]>>
  OBVIOUS
<1>2. ASSUME NEW d \in Documents, NEW g, HalvesKept(g, promised)
      PROVE  SignedBody(<<"signed", d, g>>, promised)
  BY <1>1, <1>2 DEF SignedBody
<1>3. PICK d, g : d \in Documents /\ x = <<"signed", d, g>> /\ HalvesKept(g, promised)
  BY DEF SignedBody
<1>4. PICK e, k : e \in Documents /\ y = <<"signed", e, k>> /\ HalvesKept(k, promised)
  BY DEF SignedBody
<1>5. x[3] = g /\ y[2] = e /\ y[3] = k
  BY <1>3, <1>4
<1>6. SignedBody([x EXCEPT ![2] = y[2]], promised)
  <2>1. [x EXCEPT ![2] = e] = <<"signed", e, g>>
    BY <1>3
  <2>. QED  BY <1>2, <1>3, <1>4, <1>5, <2>1
<1>7. SignedBody([x EXCEPT ![3] = y[3]], promised)
  <2>1. [x EXCEPT ![3] = k] = <<"signed", d, k>>
    BY <1>3
  <2>2. SignedBody(<<"signed", d, k>>, promised)
    BY <1>2, <1>3, <1>4
  <2>3. y[3] = k
    BY <1>5
  <2>. QED  BY <2>1, <2>2, <2>3
<1>8. ASSUME NEW h \in DOMAIN g \cap DOMAIN k
      PROVE  SignedBody([x EXCEPT ![3][h] = y[3][h]], promised)
  <2>. DEFINE z == [g EXCEPT ![h] = k[h]]
  <2>1. HalvesKept(z, promised)
    <3>1. z = [m \in DOMAIN g |-> IF m = h THEN k[h] ELSE g[m]]
      OBVIOUS
    <3>. HIDE DEF z
    <3>2. DOMAIN z = DOMAIN g /\ \A m \in DOMAIN z : z[m] = IF m = h THEN k[h] ELSE g[m]
      BY <3>1
    <3>. QED  BY <1>3, <1>4, <1>8, <3>2 DEF HalvesKept
  <2>2. [x EXCEPT ![3] = [x[3] EXCEPT ![h] = y[3][h]]] = [x EXCEPT ![3] = z]
    BY <1>5
  <2>. HIDE DEF z
  <2>3. [x EXCEPT ![3] = z] = <<"signed", d, z>>
    BY <1>3
  <2>4. SignedBody(<<"signed", d, z>>, promised)
    BY <1>2, <1>3, <2>1
  <2>5. [x EXCEPT ![3] = [x[3] EXCEPT ![h] = y[3][h]]] = <<"signed", d, z>>
    BY <2>2, <2>3
  <2>. QED  BY <2>4, <2>5
<1>. QED  BY <1>5, <1>6, <1>7, <1>8

LEMMA BodyFound ==
  ASSUME IInv, NEW i \in 1..Len(shelf), shelf[i].format \in DOMAIN Fields, NEW body \in BodiesFound(i)
  PROVE  BodyTraced(shelf[i].format, body, Len(shelf), Promised)
<1>. DEFINE format == shelf[i].format
<1>1. ASSUME NEW j \in 1..Len(shelf)
      PROVE  BodyTraced(format, shelf[j].blob.body, Len(shelf), Promised)
  <2>1. shelf[j].format = format /\ Traced(shelf[j].format, shelf[j].blob, Len(shelf), Promised)
    BY DEF IInv, OneFormat, Provenance
  <2>. HIDE DEF format
  <2>2. format \in DOMAIN Fields
    BY DEF format
  <2>. QED  BY <2>1, <2>2, TracedByBody
<1>2. CASE body = Noise \/ body \in {shelf[j].blob.body : j \in 1..Len(shelf)}
  BY <1>1, <1>2 DEF BodyTraced
<1>3. ASSUME NEW j \in 1..Len(shelf), format = "signed", Noise \notin {shelf[i].blob.body, shelf[j].blob.body},
             LET own == shelf[i].blob.body
                 other == shelf[j].blob.body
             IN  body \in {[own EXCEPT ![2] = other[2]], [own EXCEPT ![3] = other[3]]}
                   \cup {[own EXCEPT ![3][h] = other[3][h]] : h \in DOMAIN own[3] \cap DOMAIN other[3]}
      PROVE  BodyTraced(format, body, Len(shelf), Promised)
  <2>. DEFINE own == shelf[i].blob.body
              other == shelf[j].blob.body
  <2>1. SignedBody(own, Promised) /\ SignedBody(other, Promised)
    BY <1>1, <1>3 DEF BodyTraced
  <2>2. \/ body = [own EXCEPT ![2] = other[2]] \/ body = [own EXCEPT ![3] = other[3]]
        \/ \E h \in DOMAIN own[3] \cap DOMAIN other[3] : body = [own EXCEPT ![3][h] = other[3][h]]
    BY <1>3
  <2>. HIDE DEF own, other
  <2>3. /\ SignedBody([own EXCEPT ![2] = other[2]], Promised)
        /\ SignedBody([own EXCEPT ![3] = other[3]], Promised)
        /\ \A h \in DOMAIN own[3] \cap DOMAIN other[3] :
             SignedBody([own EXCEPT ![3][h] = other[3][h]], Promised)
    BY <2>1, SignedMixed
  <2>4. SignedBody(body, Promised)
    BY <2>2, <2>3
  <2>. QED  BY <1>3, <2>4 DEF BodyTraced
<1>. QED  BY <1>2, <1>3 DEF BodiesFound

LEMMA HeaderFound ==
  ASSUME OneFormat, NEW h, HoneyHeader(h), NEW f \in Fields["honey"], NEW v \in Found[f]
  PROVE  HoneyHeader([h EXCEPT ![f] = v])
<1>1. /\ Fields["honey"] = {"magic", "version", "salt", "params", "alphabet", "length"}
      /\ Found["salt"] = {0} \cup 1..Len(shelf) /\ Found["length"] = 0..2
      /\ Found["alphabet"] = {0, 5, 16}
  BY DEF Fields, Found
<1>2. Len(shelf) \in Nat
  BY ShelfType
<1>3. /\ f = "salt" => v \in Nat
      /\ f = "alphabet" => v \in Nat
      /\ f = "length" => v \in Int
  BY <1>1, <1>2
<1>. DEFINE g == [h EXCEPT ![f] = v]
<1>4. /\ h = [x \in DOMAIN Blank |-> h[x]]
      /\ h["salt"] \in Nat /\ h["alphabet"] \in Nat /\ h["length"] \in Int
  BY DEF HoneyHeader
<1>5. /\ {"salt", "alphabet", "length"} \subseteq DOMAIN Blank
      /\ g = [x \in DOMAIN Blank |-> IF x = f THEN v ELSE h[x]]
  BY <1>4, BlankForm
<1>. HIDE DEF g
<1>6. g = [x \in DOMAIN Blank |-> g[x]]
  BY <1>5
<1>7. g["salt"] \in Nat /\ g["alphabet"] \in Nat /\ g["length"] \in Int
  BY <1>3, <1>4, <1>5
<1>8. HoneyHeader(g)
  BY <1>6, <1>7 DEF HoneyHeader
<1>. QED  BY <1>8 DEF g

LEMMA BlobTraced ==
  ASSUME IInv, NEW i \in 1..Len(shelf), shelf[i].format \notin {"online", "login"}, NEW b \in BlobsFound(i)
  PROVE  Traced(shelf[i].format, b, Len(shelf), Promised)
<1>. DEFINE format == shelf[i].format
            o == shelf[i].blob
<1>1. format \in Formats /\ Traced(format, o, Len(shelf), Promised)
  BY DEF IInv, TypeOK, Provenance
<1>2. CASE format = "deniable"
  BY <1>2, ContainerTraced DEF BlobsFound
<1>3. CASE format # "deniable"
  <2>1. format \in DOMAIN Fields
    BY <1>1, <1>3, FormatNames
  <2>2. /\ IsBlob(o) /\ BodyTraced(format, o.body, Len(shelf), Promised)
        /\ format = "honey" => HoneyHeader(o.header)
    <3>. HIDE DEF format, o
    <3>. QED  BY <1>1, <2>1, TracedByBody
  <2>3. \/ b = [o EXCEPT !.cut = TRUE]
        \/ \E body \in BodiesFound(i) : b = [o EXCEPT !.body = body]
        \/ \E f \in Fields[format] : \E v \in Found[f] : b = [o EXCEPT !.header[f] = v]
    BY <1>3 DEF BlobsFound
  <2>4. \A body \in BodiesFound(i) : BodyTraced(format, body, Len(shelf), Promised)
    BY <2>1, BodyFound
  <2>. HIDE DEF format, o
  <2>5. /\ IsBlob(b) /\ BodyTraced(format, b.body, Len(shelf), Promised)
        /\ format = "honey" => HoneyHeader(b.header)
    <3>1. CASE b = [o EXCEPT !.cut = TRUE]
      BY <2>2, <3>1, BlobAltered
    <3>2. CASE \E body \in BodiesFound(i) : b = [o EXCEPT !.body = body]
      <4>1. PICK body \in BodiesFound(i) : b = [o EXCEPT !.body = body]
        BY <3>2
      <4>2. IsBlob(b) /\ b.header = o.header /\ b.body = body
        BY <2>2, <4>1, BlobAltered, ZenonT(30)
      <4>. QED  BY <2>2, <2>4, <4>2
    <3>3. CASE \E f \in Fields[format] : \E v \in Found[f] : b = [o EXCEPT !.header[f] = v]
      <4>0. PICK f \in Fields[format] : \E v \in Found[f] : b = [o EXCEPT !.header[f] = v]
        BY <3>3
      <4>1. PICK v \in Found[f] : b = [o EXCEPT !.header[f] = v]
        BY <4>0
      <4>. DEFINE h == [o.header EXCEPT ![f] = v]
      <4>2. b = [o EXCEPT !.header = h]
        BY <4>1
      <4>3. format = "honey" => HoneyHeader(h)
        BY <2>2, HeaderFound DEF IInv
      <4>. HIDE DEF h
      <4>4. IsBlob(b) /\ b.header = h /\ b.body = o.body
        BY <2>2, <4>2, BlobAltered, ZenonT(30)
      <4>. QED  BY <2>2, <4>3, <4>4
    <3>. QED  BY <2>3, <3>1, <3>2, <3>3
  <2>6. Traced(format, b, Len(shelf), Promised)
    BY <2>1, <2>5, TracedByBody
  <2>. QED  BY <2>6 DEF format
<1>. QED  BY <1>2, <1>3

LEMMA DamageStep ==
  ASSUME IInv, NEW i \in 1..Len(shelf), Damage(i)
  PROVE  IInv'
<1>1. PICK b \in BlobsFound(i) \ {shelf[i].blob} :
        shelf' = [shelf EXCEPT ![i].blob = b, ![i].intact = FALSE]
  BY DEF Damage
<1>2. /\ damage < MaxDamage /\ damage' = damage + 1 /\ shelf[i].format \notin {"online", "login"}
      /\ UNCHANGED <<service, settings, client, opened>>
  BY DEF Damage
<1>3. /\ shelf' \in Seq({shelf'[j] : j \in 1..Len(shelf')})
      /\ Len(shelf') = Len(shelf)
      /\ \A j \in 1..Len(shelf) : j # i => shelf'[j] = shelf[j]
      /\ shelf'[i] = [format |-> shelf[i].format, blob |-> b, promises |-> shelf[i].promises,
                      intact |-> FALSE, twin |-> shelf[i].twin, work |-> shelf[i].work]
  BY <1>1, Altered DEF IInv
<1>4. /\ shelf'[i].format = shelf[i].format /\ shelf'[i].blob = b
      /\ shelf'[i].promises = shelf[i].promises /\ shelf'[i].intact = FALSE /\ IsArtifact(shelf'[i])
  BY <1>3 DEF IsArtifact
<1>5. Len(shelf) \in Nat /\ 1 \in 1..Len(shelf)
  BY ShelfType DEF IInv
<1>5a. \A j \in 1..Len(shelf) :
        shelf'[j].format = shelf[j].format /\ shelf'[j].promises = shelf[j].promises
  <2>. SUFFICES ASSUME NEW j \in 1..Len(shelf)
       PROVE  shelf'[j].format = shelf[j].format /\ shelf'[j].promises = shelf[j].promises
    OBVIOUS
  <2>1. CASE j = i
    BY <1>4, <2>1
  <2>2. CASE j # i
    BY <1>3, <2>2
  <2>. QED  BY <2>1, <2>2
<1>6. OneFormat'
  <2>1. \A j \in 1..Len(shelf) :
          IsArtifact(shelf'[j]) /\ shelf'[j].intact \in BOOLEAN /\ shelf'[j].format = shelf[j].format
    BY <1>3, <1>4 DEF IInv, OneFormat
  <2>2. \A j \in 1..Len(shelf') :
          IsArtifact(shelf'[j]) /\ shelf'[j].intact \in BOOLEAN /\ shelf'[j].format = shelf'[1].format
    BY <1>3, <1>5, <2>1 DEF IInv, OneFormat
  <2>. QED  BY <1>3, <2>2 DEF OneFormat, IsArtifact
<1>7. Provenance'
  <2>1. Promised' = Promised
    <3>1. {shelf'[j].promises : j \in 1..Len(shelf')} = {shelf[j].promises : j \in 1..Len(shelf)}
      BY <1>3, <1>5a, SMTT(30)
    <3>. QED  BY <3>1 DEF Promised
  <2>2. Traced(shelf[i].format, b, Len(shelf), Promised)
    BY <1>2, BlobTraced
  <2>3. \A j \in 1..Len(shelf') : Traced(shelf'[j].format, shelf'[j].blob, Len(shelf'), Promised')
    BY <1>3, <1>4, <2>1, <2>2 DEF IInv, Provenance
  <2>. QED  BY <2>3 DEF Provenance
<1>8. Twins'
  <2>. SUFFICES ASSUME NEW j \in 1..Len(shelf), shelf'[j].format = "deniable", shelf'[j].intact
       PROVE  MadeAsDeniable(shelf'[j], j)
    BY <1>3 DEF Twins
  <2>. QED  BY <1>3, <1>4 DEF IInv, Twins
<1>9. Logins'
  <2>. SUFFICES ASSUME NEW j \in 1..Len(shelf), shelf'[j].format = "login"
       PROVE  MadeAsLogin(shelf'[j])
    BY <1>3 DEF Logins
  <2>. QED  BY <1>2, <1>3, <1>4 DEF IInv, Logins
<1>10. TypeOK'
  <2>1. damage \in 0..MaxDamage /\ MaxDamage \in Nat
    BY VaultAssumption DEF IInv, TypeOK
  <2>2. damage' \in 0..MaxDamage /\ damage' # 0
    BY <1>2, <2>1
  <2>3. ~ \A j \in 1..Len(shelf') : shelf'[j].intact
    BY <1>3, <1>4
  <2>4. \A j \in 1..Len(shelf') : shelf'[j].format \in Formats
    <3>1. \A j \in 1..Len(shelf) : shelf[j].format \in Formats
      BY DEF IInv, TypeOK
    <3>2. Len(shelf') = Len(shelf)
      BY <1>3
    <3>. QED  BY <1>5a, <3>1, <3>2
  <2>. QED  BY <1>2, <1>3, <2>2, <2>3, <2>4 DEF IInv, TypeOK
<1>. QED  BY <1>6, <1>7, <1>8, <1>9, <1>10 DEF IInv

-----------------------------------------------------------------------------
(* Every action that opens something.                                      *)
LEMMA OpeningsClean ==
  /\ \A s, b, p, f, e : Clean(decode_from_blob(s, b, p, f, e))
  /\ \A b, r : Clean(decode_as_recipient(b, r)) /\ Clean(descifrar(b, r))
  /\ \A m, b, v : Clean(decode_verified(m, b, v)) /\ Clean(verificar(b, v))
  /\ \A b, p, e : Clean(honey_decrypt(b, p, e))
  /\ \A c, p, q : Clean(intentar(c, p, q))
<1>1. \A k, v, body, d : Clean(decrypt(k, v, body, d)) /\ Clean(Unframed(decrypt(k, v, body, d)))
  BY DecryptClean
<1>2. \A s, b, p, f, e : Clean(decode_from_blob(s, b, p, f, e))
  BY <1>1, ResultForm DEF decode_from_blob
<1>3. \A b, r : Clean(decode_as_recipient(b, r)) /\ Clean(descifrar(b, r))
  BY <1>1, ResultForm DEF decode_as_recipient, descifrar
<1>4. \A m, b, v : Clean(decode_verified(m, b, v)) /\ Clean(verificar(b, v))
  BY ResultForm DEF decode_verified, verificar
<1>5. \A b, p, e : Clean(honey_decrypt(b, p, e))
  BY ResultForm DEF honey_decrypt
<1>6. \A c, p, q : Clean(intentar(c, p, q))
  BY ResultForm DEF intentar
<1>. QED  BY <1>2, <1>3, <1>4, <1>5, <1>6

LEMMA AbrirClean ==
  ASSUME NEW c, NEW p, NEW hint
  PROVE  Clean(abrir(c, p, hint))
<1>1. \A q : Clean(intentar(c, p, q))
  BY OpeningsClean
<1>. QED  BY <1>1, ResultForm DEF abrir

LEMMA VerifyClean ==
  ASSUME IInv, NEW b, NEW p \in Passphrases, NEW w \in Draws
  PROVE  Clean(django_verify(b, p, w))
<1>1. Clean(django_harden(p, w))
  BY DjangoClean
<1>. QED  BY <1>1, ResultForm DEF django_verify

LEMMA OpenStep ==
  ASSUME IInv, Open
  PROVE  IInv'
<1>1. PICK i \in 1..Len(shelf) :
        \/ \E p \in Passphrases, e \in Peppers, f \in Dictionaries :
             \/ \E s \in Suites : Decode(i, s, p, e, f)
             \/ \E k \in Pins, w \in Draws : DecodeOnline(i, p, e, f, k, w)
        \/ \E r \in Recipients : DecodeAsRecipient(i, r) \/ Descifrar(i, r)
        \/ \E v \in Signers : DecodeVerified(i, v)
        \/ \E p \in Passphrases : HoneyDecrypt(i, p)
        \/ \E p \in Passphrases, h \in Hints : Abrir(i, p, h)
        \/ \E p \in Passphrases, w \in Draws : DjangoVerify(i, p, w)
  BY DEF Open
<1>2. i \in 0..Len(shelf) /\ client \in AllSettings \cup {NoClient}
      /\ Client \in AllSettings \cup {NoClient}
  BY ClientType, ShelfType DEF IInv
<1>3. ASSUME NEW tried, NEW r, Clean(r), Refuse(i, tried, r), client' \in {client, Client}
      PROVE  IInv'
  BY <1>2, <1>3, Answering DEF Refuse
<1>4. ASSUME NEW p \in Passphrases, NEW e \in Peppers, NEW f \in Dictionaries, NEW s \in Suites,
             Decode(i, s, p, e, f)
      PROVE  IInv'
  BY <1>3, <1>4, OpeningsClean DEF Decode
<1>5. ASSUME NEW p \in Passphrases, NEW e \in Peppers, NEW f \in Dictionaries, NEW k \in Pins,
             NEW w \in Draws, DecodeOnline(i, p, e, f, k, w)
      PROVE  IInv'
  <2>. DEFINE r == harden(p, service, k, w)
              q == IF r.status # "ok" THEN r
                   ELSE decode_from_blob("quipu", shelf[i].blob, p, f, e \o <<r.data>>)
  <2>1. Clean(q)
    BY HardenClean, OpeningsClean
  <2>2. \E tried : Refuse(i, tried, q)
    BY <1>5 DEF DecodeOnline
  <2>3. client' = client
    BY <1>5 DEF DecodeOnline
  <2>. HIDE DEF q
  <2>. QED  BY <1>3, <2>1, <2>2, <2>3
<1>6. ASSUME NEW r \in Recipients, DecodeAsRecipient(i, r) \/ Descifrar(i, r)
      PROVE  IInv'
  BY <1>3, <1>6, OpeningsClean DEF DecodeAsRecipient, Descifrar
<1>7. ASSUME NEW v \in Signers, DecodeVerified(i, v)
      PROVE  IInv'
  <2>. DEFINE q == IF DOMAIN v = {"ml"} THEN verificar(shelf[i].blob, v)
                   ELSE decode_verified(Magic(v), shelf[i].blob, v)
  <2>1. Clean(q)
    BY OpeningsClean
  <2>2. Refuse(i, {OfSigner(v)}, q) /\ client' = client
    BY <1>7 DEF DecodeVerified
  <2>. HIDE DEF q
  <2>. QED  BY <1>3, <2>1, <2>2
<1>8. ASSUME NEW p \in Passphrases, HoneyDecrypt(i, p)
      PROVE  IInv'
  BY <1>3, <1>8, OpeningsClean DEF HoneyDecrypt
<1>9. ASSUME NEW p \in Passphrases, NEW h \in Hints, Abrir(i, p, h)
      PROVE  IInv'
  BY <1>2, <1>9, AbrirClean, Answering DEF Abrir
<1>10. ASSUME NEW p \in Passphrases, NEW w \in Draws, DjangoVerify(i, p, w)
      PROVE  IInv'
  <2>1. Clean(django_verify(shelf[i].blob, p, w))
    BY VerifyClean
  <2>2. /\ Refuse(i, {OfLogin(Client.pin, p)}, django_verify(shelf[i].blob, p, w))
        /\ client' = Client
    BY <1>10 DEF DjangoVerify
  <2>. QED  BY <1>3, <2>1, <2>2
<1>. QED  BY <1>1, <1>4, <1>5, <1>6, <1>7, <1>8, <1>9, <1>10

-----------------------------------------------------------------------------
(* What befalls the service and the site, and the answers.                 *)
LEMMA PinNotIdentity ==
  ASSUME NEW s \in AllSettings
  PROVE  s # NoClient /\ s.pin \in Pins /\ s.api \in ApiKeys
<1>1. PICK k \in Keys, a \in ApiKeys : s = Settings(public_key(k), a)
  BY DEF AllSettings, Pins
<1>2. public_key(k) # 0
  BY KeyOfPin
<1>. QED  BY <1>1, <1>2 DEF Settings, NoClient, Identity, Pins

LEMMA NotOpenedForm ==
  NotOpened.item = 0 /\ NotOpened.status = "none" /\ NotOpened.data = <<>> /\ NotOpened.tried = {}
BY DEF NotOpened, Opening, Refused

LEMMA SiteStep ==
  ASSUME IInv,
         \/ \E s \in Services : ServiceBecomes(s)
         \/ \E p \in Pins, a \in ApiKeys : Configure(Settings(p, a))
         \/ reset_client
         \/ Answer
  PROVE  IInv'
<1>1. CASE \E s \in Services : ServiceBecomes(s)
  <2>1. service' \in Services /\ UNCHANGED <<shelf, damage, settings, client, opened>>
    BY <1>1 DEF ServiceBecomes
  <2>2. TypeOK'
    BY <2>1 DEF IInv, TypeOK
  <2>. QED  BY <2>1, <2>2, SameShelf DEF IInv
<1>2. CASE \E p \in Pins, a \in ApiKeys : Configure(Settings(p, a))
  <2>1. settings' \in AllSettings /\ UNCHANGED <<shelf, damage, service, client, opened>>
    BY <1>2 DEF Configure, AllSettings
  <2>2. settings' # NoClient
    BY <2>1, PinNotIdentity
  <2>3. TypeOK'
    BY <2>1, <2>2 DEF IInv, TypeOK, AllSettings
  <2>. QED  BY <2>1, <2>3, SameShelf DEF IInv
<1>3. CASE reset_client
  <2>1. client' = NoClient /\ UNCHANGED <<shelf, damage, service, settings, opened>>
    BY <1>3 DEF reset_client
  <2>2. TypeOK'
    BY <2>1 DEF IInv, TypeOK
  <2>. QED  BY <2>1, <2>2, SameShelf DEF IInv
<1>4. CASE Answer
  <2>1. opened' = NotOpened /\ UNCHANGED <<shelf, damage, service, settings, client>>
    BY <1>4 DEF Answer
  <2>2. opened'.item \in 0..Len(shelf) /\ (opened'.status # "ok" => opened'.data = <<>>)
    BY <2>1, NotOpenedForm, ShelfType DEF IInv
  <2>3. TypeOK'
    BY <2>1, <2>2 DEF IInv, TypeOK
  <2>. QED  BY <2>1, <2>3, SameShelf DEF IInv
<1>. QED  BY <1>1, <1>2, <1>3, <1>4

LEMMA MakeStep ==
  ASSUME IInv, Make
  PROVE  IInv'
<1>1. CASE \E d \in Documents, p \in Passphrases, e \in Peppers, c \in Costs, f \in Dictionaries :
             \/ \E s \in Suites : Encode(s, d, p, e, c, f)
             \/ \E k \in Pins, w \in Draws : EncodeOnline(d, p, e, c, f, k, w)
  BY <1>1, EncodeStep, EncodeOnlineStep
<1>2. CASE \E d \in Documents, r \in Recipients : EncodeToRecipient(d, r) \/ CifrarPara(d, r)
  BY <1>2, RecipientStep
<1>3. CASE \E d \in Documents :
             \/ \E v \in Signers : EncodeSigned(d, v)
             \/ \E c \in Custodians : EncodeSignedConCustodio(d, c)
  BY <1>3, SignedStep, CustodyStep
<1>4. CASE \E t \in Secrets, p \in Passphrases, c \in Costs : HoneyEncrypt(t, p, c)
  BY <1>4, HoneyStep
<1>5. CASE \E z \in AllSizes, d \in Documents, p \in Passphrases, h \in HiddenVolumes :
             \E k \in 1..Len(Profiles) : Crear(z, d, p, h, Profiles[k])
  BY <1>5, CrearStep
<1>6. CASE \E p \in Passphrases, w \in Draws : DjangoEncode(p, w)
  BY <1>6, DjangoEncodeStep
<1>. QED  BY <1>1, <1>2, <1>3, <1>4, <1>5, <1>6 DEF Make, AllSizes

LEMMA InitIInv ==
  ASSUME Init
  PROVE  IInv
<1>1. Len(shelf) = 0 /\ shelf \in Seq({shelf[i] : i \in 1..Len(shelf)})
  BY DEF Init
<1>2. \A i \in 1..Len(shelf) : FALSE
  BY <1>1
<1>3. OneFormat /\ Provenance /\ Twins /\ Logins
  BY <1>1, <1>2 DEF OneFormat, Provenance, Twins, Logins
<1>4. FirstKey \in Keys /\ AtFirst \in AllSettings /\ AtFirst.api \in ApiKeys
  <2>. DEFINE first == CHOOSE a \in ApiKeys : TRUE
  <2>1. FirstKey \in Keys /\ first \in ApiKeys /\ AtFirst = Settings(public_key(FirstKey), first)
    BY VaultAssumption DEF FirstKey, Keys, AtFirst
  <2>. HIDE DEF first
  <2>2. public_key(FirstKey) \in Pins
    BY <2>1 DEF Pins
  <2>3. AtFirst \in AllSettings
    BY <2>1, <2>2 DEF AllSettings
  <2>4. AtFirst.api \in ApiKeys
    BY <2>3, PinNotIdentity
  <2>. QED  BY <2>1, <2>3, <2>4
<1>5. service \in Services
  BY <1>4 DEF Init, Services, ServiceStates
<1>6. settings \in AllSettings /\ settings # NoClient /\ client = NoClient
  BY <1>4, PinNotIdentity DEF Init
<1>7. opened.item = 0 /\ opened.status = "none" /\ opened.data = <<>> /\ damage = 0
  BY NotOpenedForm DEF Init
<1>8. 0 \in 0..MaxDamage
  BY VaultAssumption
<1>9. TypeOK
  BY <1>1, <1>2, <1>5, <1>6, <1>7, <1>8 DEF TypeOK, AllSettings
<1>. QED  BY <1>3, <1>9 DEF IInv

LEMMA StutterIInv ==
  ASSUME IInv, UNCHANGED vars
  PROVE  IInv'
<1>1. TypeOK'
  BY DEF IInv, TypeOK, vars
<1>. QED  BY <1>1, SameShelf DEF IInv, vars

LEMMA NextIInv == IInv /\ [Next]_vars => IInv'
<1>. SUFFICES ASSUME IInv, [Next]_vars PROVE IInv'
  OBVIOUS
<1>1. CASE UNCHANGED vars
  BY <1>1, StutterIInv
<1>2. CASE Make
  BY <1>2, MakeStep
<1>3. CASE Open
  BY <1>3, OpenStep
<1>4. CASE \E i \in 1..Len(shelf) : Damage(i)
  BY <1>4, DamageStep
<1>5. CASE \/ \E s \in Services : ServiceBecomes(s)
           \/ \E p \in Pins, a \in ApiKeys : Configure(Settings(p, a))
           \/ reset_client
           \/ Answer
  BY <1>5, SiteStep
<1>. QED  BY <1>1, <1>2, <1>3, <1>4, <1>5 DEF Next, Call

LEMMA SpecIInv == Spec => []IInv
<1>1. Init => IInv
  BY InitIInv
<1>. QED  BY <1>1, NextIInv, PTL DEF Spec

(* The shelf holds what the operations make, the count of what was damaged *)
(* agrees with it, and the service, the settings, the memoised client and  *)
(* the last answer are what they can be.                                   *)
THEOREM TypeCorrect == Spec => []TypeOK
<1>1. IInv => TypeOK
  BY DEF IInv
<1>. QED  BY <1>1, SpecIInv, PTL

-----------------------------------------------------------------------------
(* What opens, and for whom.                                               *)
LEMMA PadForm ==
  ASSUME NEW d
  PROVE  pad(d).declared = Len(d) /\ pad(d).content = d
BY DEF pad, Framed

(* What comes out of a box, framed or not.                                 *)
LEMMA BoxGives ==
  ASSUME NEW key, NEW nonce, NEW plain, NEW ad, NEW k, NEW v, NEW d,
         decrypt(k, v, encrypt(key, nonce, plain, ad), d).status = "ok"
  PROVE  /\ k = key /\ v = nonce /\ d = ad
         /\ decrypt(k, v, encrypt(key, nonce, plain, ad), d).data = plain
<1>1. decrypt(k, v, encrypt(key, nonce, plain, ad), d) =
        IF k = key /\ v = nonce /\ d = ad THEN Done(plain) ELSE Refused("decrypt")
  BY BoxOpens
<1>2. Refused("decrypt").status # "ok" /\ Done(plain).data = plain
  BY ResultForm
<1>3. k = key /\ v = nonce /\ d = ad
  BY <1>1, <1>2
<1>. QED  BY <1>1, <1>2, <1>3

LEMMA FrameGives ==
  ASSUME NEW key, NEW nonce, NEW frame, NEW ad, NEW k, NEW v, NEW d, NEW data \in Seq(Characters),
         frame.declared = Len(data), frame.content = data,
         Unframed(decrypt(k, v, encrypt(key, nonce, frame, ad), d)).status = "ok"
  PROVE  /\ k = key /\ v = nonce /\ d = ad
         /\ Unframed(decrypt(k, v, encrypt(key, nonce, frame, ad), d)).data = data
<1>. DEFINE r == decrypt(k, v, encrypt(key, nonce, frame, ad), d)
<1>1. r.status = "ok" /\ Unframed(r) = unpad(r.data)
  BY DEF Unframed
<1>2. k = key /\ v = nonce /\ d = ad /\ r.data = frame
  BY <1>1, BoxGives
<1>. HIDE DEF r
<1>3. unpad(frame).status = "ok" /\ Unframed(r) = unpad(frame)
  BY <1>1, <1>2 DEF r
<1>4. unpad(frame).data = data
  BY <1>3, FrameOpens
<1>. QED  BY <1>2, <1>3, <1>4 DEF r

LEMMA NoiseGivesNothing ==
  ASSUME NEW k, NEW v, NEW d
  PROVE  decrypt(k, v, Noise, d).status # "ok" /\ Unframed(decrypt(k, v, Noise, d)).status # "ok"
BY NoiseOpens, ResultForm DEF Unframed

LEMMA BlankSealed ==
  ASSUME NEW f, NEW k, NEW c
  PROVE  [Blank EXCEPT !.magic = "QUIP", !.fingerprint = f, !.salt = k, !.nonce = k,
                       !.params = c].fingerprint = f
BY DEF Blank

(* A container of a passphrase opens only with what it was sealed with.    *)
LEMMA SecretOpens ==
  ASSUME NEW b, NEW s \in Suites, NEW p \in Passphrases, NEW e, NEW f,
         NEW t \in Suites, NEW d \in Documents, NEW q \in Passphrases, NEW g, NEW c, NEW x, NEW k,
         b.body = encode_to_blob(t, d, q, x, g, c, k).body,
         decode_from_blob(s, b, p, f, e).status = "ok"
  PROVE  /\ OfSecret(s, p, e, f) = OfSecret(t, q, g, x)
         /\ decode_from_blob(s, b, p, f, e).data = d
<1>. DEFINE h == FieldsRead(s, b)
            y == [Blank EXCEPT !.magic = "QUIP", !.fingerprint = x, !.salt = k, !.nonce = k,
                               !.params = c]
            key == CipherKey(t, q, k, g, c)
            mine == CipherKey(s, p, h.salt, e, h.params)
            box == encrypt(key, k, pad(d), aad(y))
            r == Unframed(decrypt(mine, h.nonce, box, aad(h)))
<1>1. b.body = box
  BY DEF encode_to_blob, Blob
<1>2. h.fingerprint = f /\ decode_from_blob(s, b, p, f, e) = r
  <2>1. \A m : Refused(m).status = m
    BY ResultForm
  <2>2. decode_from_blob(s, b, p, f, e) =
          IF parse(b) # "ok" THEN Refused(parse(b))
          ELSE IF h.fingerprint # f THEN Refused("codebook")
          ELSE IF ~is_sane(s, h.params) THEN Refused("decrypt") ELSE r
    BY <1>1 DEF decode_from_blob
  <2>. HIDE DEF r, h
  <2>. QED  BY <2>1, <2>2
<1>3. d \in Seq(Characters) /\ pad(d).declared = Len(d) /\ pad(d).content = d
  BY VaultAssumption, PadForm
<1>4. y.fingerprint = x
  BY BlankSealed
<1>5. r.status = "ok"
  BY <1>2
<1>. HIDE DEF h, y, key, mine
<1>6. mine = key /\ aad(h) = aad(y) /\ r.data = d
  BY <1>3, <1>5, FrameGives
<1>7. x = f
  BY <1>2, <1>4, <1>6 DEF aad
<1>8. s = t /\ Normal[p] \o e = Normal[q] \o g
  BY <1>6 DEF key, mine, CipherKey, derive_subkey, derive_master_key
<1>. QED  BY <1>2, <1>6, <1>7, <1>8 DEF OfSecret

LEMMA SecretOwned ==
  ASSUME IInv, NEW i \in 1..Len(shelf), shelf[i].format \in {"sealed", "online"},
         NEW s \in Suites, NEW p \in Passphrases, NEW e, NEW f,
         decode_from_blob(s, shelf[i].blob, p, f, e).status = "ok"
  PROVE  Rightful(OfSecret(s, p, e, f), decode_from_blob(s, shelf[i].blob, p, f, e).data)
<1>. DEFINE b == shelf[i].blob
            r == decode_from_blob(s, b, p, f, e)
<1>1. \/ b.body = Noise
      \/ SealedBody(b.body, Len(shelf), Promised)
      \/ OnlineBody(b.body, Promised)
  BY DEF IInv, Provenance, Traced
<1>2. r.status = "ok"
  OBVIOUS
<1>. HIDE DEF b
<1>3. b.body # Noise
  BY <1>2, NoiseGivesNothing, ResultForm DEF decode_from_blob
<1>4. Promise(OfSecret(s, p, e, f), r.data) \in Promised
  <2>1. CASE SealedBody(b.body, Len(shelf), Promised)
    <3>1. PICK t \in Suites, d \in Documents, q \in Passphrases, g \in Peppers, c \in Costs,
               x \in Dictionaries : \E k \in 1..Len(shelf) :
            /\ b.body = encode_to_blob(t, d, q, x, g, c, k).body
            /\ Promise(OfSecret(t, q, g, x), d) \in Promised
      BY <2>1 DEF SealedBody
    <3>2. OfSecret(s, p, e, f) = OfSecret(t, q, g, x) /\ r.data = d
      BY <1>2, <3>1, SecretOpens
    <3>. QED  BY <3>1, <3>2
  <2>2. CASE OnlineBody(b.body, Promised)
    <3>1. PICK d \in Documents, q \in Passphrases, g \in Peppers, c \in Costs, x \in Dictionaries,
               pin \in Pins :
            /\ b.body = encode_to_blob("quipu", d, q, x, g \o <<Hardened(pin, q)>>, c, 1).body
            /\ Promise(OfSecret("quipu", q, g \o <<Hardened(pin, q)>>, x), d) \in Promised
      BY <2>2 DEF OnlineBody
    <3>2. "quipu" \in Suites
      BY DEF Suites
    <3>3. OfSecret(s, p, e, f) = OfSecret("quipu", q, g \o <<Hardened(pin, q)>>, x) /\ r.data = d
      BY <1>2, <3>1, <3>2, SecretOpens
    <3>. QED  BY <3>1, <3>3
  <2>. QED  BY <1>1, <1>3, <2>1, <2>2
<1>. QED  BY <1>4 DEF Rightful, OfSecret, b

LEMMA RecipientOwned ==
  ASSUME IInv, NEW i \in 1..Len(shelf), shelf[i].format = "recipient", NEW r,
         decode_as_recipient(shelf[i].blob, r).status = "ok"
  PROVE  Rightful(OfRecipient(r), decode_as_recipient(shelf[i].blob, r).data)
<1>. DEFINE b == shelf[i].blob
            h == b.header
            mine == decapsulate(r, h.encapsulation[1])
            opens == Unframed(decrypt(mine, h.nonce, b.body, aad(h)))
<1>1. b.body = Noise \/ RecipientBody(b.body, Len(shelf), Promised)
  BY DEF IInv, Provenance, Traced
<1>2. decode_as_recipient(b, r) = opens /\ opens.status = "ok"
  BY ResultForm DEF decode_as_recipient
<1>. HIDE DEF b, h, mine
<1>3. b.body # Noise
  BY <1>2, NoiseGivesNothing
<1>4. PICK d \in Documents, q \in Recipients : \E k \in 1..Len(shelf) :
        /\ b.body = encode_to_recipient(d, q, k).body
        /\ Promise(OfRecipient(q), d) \in Promised
  BY <1>1, <1>3 DEF RecipientBody
<1>5. PICK k \in 1..Len(shelf) : b.body = encode_to_recipient(d, q, k).body
  BY <1>4
<1>. DEFINE y == [Blank EXCEPT !.magic = "QPQ1", !.nonce = k, !.encapsulation = <<Encapsulation(k)>>]
            key == encapsulate(q, k)
<1>6. b.body = encrypt(key, k, pad(d), aad(y))
  BY <1>5 DEF encode_to_recipient, Blob
<1>. HIDE DEF y, key
<1>7. mine = key /\ opens.data = d
  BY <1>2, <1>6, FrameGives, VaultAssumption, PadForm
<1>8. r = q
  BY <1>7 DEF mine, key, decapsulate, encapsulate, combine
<1>. QED  BY <1>2, <1>4, <1>7, <1>8 DEF Rightful, OfRecipient, b

LEMMA CnsaOwned ==
  ASSUME IInv, NEW i \in 1..Len(shelf), shelf[i].format = "cnsa", NEW r,
         descifrar(shelf[i].blob, r).status = "ok"
  PROVE  Rightful(OfRecipient(r.ml), descifrar(shelf[i].blob, r).data)
<1>. DEFINE b == shelf[i].blob
            encapsulated == b.header.encapsulation[1].ml
            mine == clave_de_contenido(encapsulated, r.ml)
            opens == decrypt(mine, b.header.nonce, b.body, <<encapsulated>>)
<1>1. b.body = Noise \/ CnsaBody(b.body, Len(shelf), Promised)
  BY DEF IInv, Provenance, Traced
<1>2. descifrar(b, r) = opens /\ opens.status = "ok"
  BY ResultForm DEF descifrar
<1>. HIDE DEF b, encapsulated, mine
<1>3. b.body # Noise
  BY <1>2, NoiseGivesNothing
<1>4. PICK d \in Documents, q \in Recipients : \E k \in 1..Len(shelf) :
        b.body = cifrar_para(d, q, k).body /\ Promise(OfRecipient(q.ml), d) \in Promised
  BY <1>1, <1>3 DEF CnsaBody
<1>5. PICK k \in 1..Len(shelf) : b.body = cifrar_para(d, q, k).body
  BY <1>4
<1>. DEFINE key == clave_de_contenido(k, q.ml)
<1>6. b.body = encrypt(key, k, d, <<k>>)
  BY <1>5 DEF cifrar_para, Blob
<1>. HIDE DEF key
<1>7. mine = key /\ opens.data = d
  BY <1>2, <1>6, BoxGives
<1>8. r.ml = q.ml
  BY <1>7 DEF mine, key, clave_de_contenido
<1>. QED  BY <1>2, <1>4, <1>7, <1>8 DEF Rightful, OfRecipient, b

LEMMA SignedOwned ==
  ASSUME IInv, NEW i \in 1..Len(shelf), shelf[i].format = "signed", NEW v \in Signers, NEW r,
         r \in {verificar(shelf[i].blob, v), decode_verified(Magic(v), shelf[i].blob, v)},
         r.status = "ok"
  PROVE  Rightful(OfSigner(v), r.data)
<1>. DEFINE b == shelf[i].blob
<1>1. b.body = Noise \/ SignedBody(b.body, Promised)
  BY DEF IInv, Provenance, Traced
<1>. HIDE DEF b
<1>2. /\ b.body[1] = "signed" /\ DOMAIN b.body[3] = DOMAIN v
      /\ verify(v, b.body[2], b.body[3]) /\ r.data = b.body[2]
  <2>1. CASE r = verificar(shelf[i].blob, v)
    BY <2>1, ResultForm DEF verificar, b
  <2>2. CASE r = decode_verified(Magic(v), shelf[i].blob, v)
    BY <2>2, ResultForm DEF decode_verified, b
  <2>. QED  BY <2>1, <2>2
<1>3. SignedBody(b.body, Promised)
  BY <1>1, <1>2 DEF Noise
<1>4. \A h \in DOMAIN v : Promise(OfHalf(h, v), b.body[2]) \in Promised
  BY <1>2, <1>3 DEF SignedBody, HalvesKept, verify
<1>. QED  BY <1>2, <1>4 DEF Rightful, OfSigner

-----------------------------------------------------------------------------
(* Deniable containers: each region with its volume, its passphrase and    *)
(* its profile, and for nothing else.                                      *)
LEMMA NormalIsSeq ==
  ASSUME NEW p \in Passphrases
  PROVE  Normal[p] \in Seq(Characters) /\ Normal[p] \o <<>> = Normal[p]
BY SealingAssumption, ConcatEmptySeq

(* What intentar finds in one region.                                      *)
Tries(v, c, p, q) ==
  Unframed(decrypt(RegionKey(v, p, c.salt, q), RegionNonce(v, p, c.salt, q), c[v],
                   dato_autenticado(c.salt, c.size)))

LEMMA IntentarForm ==
  ASSUME NEW c, NEW p, NEW q
  PROVE  intentar(c, p, q) =
           IF Tries("hidden", c, p, q).status = "ok" THEN Done(<<"hidden", Tries("hidden", c, p, q).data>>)
           ELSE IF Tries("decoy", c, p, q).status = "ok" THEN Done(<<"decoy", Tries("decoy", c, p, q).data>>)
           ELSE Refused("does not open")
BY DEF intentar, Tries

LEMMA RegionOpens ==
  ASSUME NEW v, NEW c, NEW p, NEW q, NEW w, NEW d, NEW g, NEW k, NEW z, NEW x,
         p \in Passphrases, d \in Documents, g \in Passphrases,
         Region(w, d, g, k, z, x).status = "ok", c[v] = Region(w, d, g, k, z, x).data,
         Tries(v, c, p, q).status = "ok"
  PROVE  /\ v = w /\ Normal[p] = Normal[g] /\ q = x /\ c.salt = k /\ c.size = z
         /\ Tries(v, c, p, q).data = d
<1>. DEFINE plain == claro_de_region(d, RegionLength(w, z) - TagLength)
            key == RegionKey(w, g, k, x)
            nonce == RegionNonce(w, g, k, x)
            mine == RegionKey(v, p, c.salt, q)
            own == RegionNonce(v, p, c.salt, q)
            ad == dato_autenticado(k, z)
            given == dato_autenticado(c.salt, c.size)
<1>1. plain.status = "ok" /\ c[v] = encrypt(key, nonce, plain.data, ad)
  BY ResultForm DEF Region
<1>2. plain.data.declared = Len(d) /\ plain.data.content = d
  <2>. DEFINE room == RegionLength(w, z) - TagLength
              y == [pad(d) EXCEPT !.size = room]
              large == pad(d).size > room
  <2>1. plain = IF large THEN Refused("no room") ELSE Done(y)
    BY DEF claro_de_region
  <2>. HIDE DEF room
  <2>2. y.declared = Len(d) /\ y.content = d
    BY DEF pad, Framed
  <2>. HIDE DEF y, plain, large
  <2>3. Refused("no room").status = "no room" /\ Done(y).data = y
    BY ResultForm
  <2>4. plain.status = "ok"
    BY <1>1
  <2>5. plain.data = y
    BY <2>1, <2>3, <2>4
  <2>. QED  BY <2>2, <2>5
<1>3. d \in Seq(Characters)
  BY VaultAssumption
<1>4. Tries(v, c, p, q) = Unframed(decrypt(mine, own, c[v], given))
  BY DEF Tries
<1>. HIDE DEF plain, key, nonce, mine, own, ad, given
<1>5. mine = key /\ given = ad /\ Tries(v, c, p, q).data = d
  BY <1>1, <1>2, <1>3, <1>4, FrameGives
<1>6. v = w /\ Normal[p] \o <<>> = Normal[g] \o <<>> /\ q = x
  BY <1>5 DEF mine, key, RegionKey, derive_subkey, derive_master_key
<1>7. Normal[p] = Normal[g]
  BY <1>6, NormalIsSeq
<1>8. c.salt = k /\ c.size = z
  BY <1>5 DEF given, ad, dato_autenticado
<1>. QED  BY <1>5, <1>6, <1>7, <1>8

LEMMA IntentarOwned ==
  ASSUME IInv, NEW i \in 1..Len(shelf), shelf[i].format = "deniable",
         NEW p \in Passphrases, NEW q, intentar(shelf[i].blob, p, q).status = "ok"
  PROVE  Rightful(OfProfile(p, q), intentar(shelf[i].blob, p, q).data)
<1>. DEFINE c == shelf[i].blob
<1>1. /\ c = Container(c.salt, c.size, c.decoy, c.hidden)
      /\ \A r \in {c.decoy, c.hidden} : r = Noise \/ SealedRegion(r, Len(shelf), Promised)
  BY DEF IInv, Provenance, Traced
<1>. HIDE DEF c
<1>2. c["decoy"] = c.decoy /\ c["hidden"] = c.hidden
  OBVIOUS
<1>3. \E v \in {"decoy", "hidden"} :
        Tries(v, c, p, q).status = "ok" /\ intentar(c, p, q).data = <<v, Tries(v, c, p, q).data>>
  BY IntentarForm, ResultForm DEF c
<1>4. PICK v \in {"decoy", "hidden"} :
        Tries(v, c, p, q).status = "ok" /\ intentar(c, p, q).data = <<v, Tries(v, c, p, q).data>>
  BY <1>3
<1>5. c[v] # Noise
  BY <1>4, NoiseGivesNothing DEF Tries
<1>6. SealedRegion(c[v], Len(shelf), Promised)
  BY <1>1, <1>2, <1>5
<1>7. PICK w \in {"decoy", "hidden"}, d \in Documents, g \in Passphrases, z \in AllSizes :
        \E k \in 1..Len(shelf), j \in 1..Len(Profiles) :
          /\ Region(w, d, g, k, z, Profiles[j]).status = "ok"
          /\ c[v] = Region(w, d, g, k, z, Profiles[j]).data
          /\ Promise(OfProfile(g, Profiles[j]), <<w, d>>) \in Promised
  BY <1>6 DEF SealedRegion
<1>8. PICK k \in 1..Len(shelf), j \in 1..Len(Profiles) :
          /\ Region(w, d, g, k, z, Profiles[j]).status = "ok"
          /\ c[v] = Region(w, d, g, k, z, Profiles[j]).data
          /\ Promise(OfProfile(g, Profiles[j]), <<w, d>>) \in Promised
  BY <1>7
<1>9. v = w /\ Normal[p] = Normal[g] /\ q = Profiles[j] /\ Tries(v, c, p, q).data = d
  BY <1>4, <1>7, <1>8, RegionOpens
<1>10. Promise(OfProfile(p, q), intentar(c, p, q).data) \in Promised
  BY <1>4, <1>8, <1>9 DEF OfProfile
<1>. QED  BY <1>10 DEF Rightful, OfProfile, c

(* Opening takes the first of the profiles tried that opens.               *)
LEMMA LeastOfNaturals ==
  ASSUME NEW T \in SUBSET Nat, T # {}
  PROVE  \E m \in T : \A k \in T : m <= k
<1>. DEFINE R == {p \in Nat \X Nat : p[1] < p[2]}
<1>1. IsWellFoundedOn(R, Nat)
  BY NatLessThanWellFounded DEF OpToRel
<1>2. \E m \in T : \A k \in T : ~ (<<k, m>> \in R)
  <2>. HIDE DEF R
  <2>. QED  BY <1>1, WFMin
<1>3. PICK m \in T : \A k \in T : ~ (<<k, m>> \in R)
  BY <1>2
<1>4. ASSUME NEW k \in T PROVE m <= k
  <2>1. <<k, m>> \in Nat \X Nat /\ <<k, m>>[1] = k /\ <<k, m>>[2] = m
    OBVIOUS
  <2>2. ~ (k < m)
    BY <1>3, <2>1
  <2>. QED  BY <2>2
<1>. QED  BY <1>4

LEMMA TriedForm ==
  ASSUME NEW h \in Hints
  PROVE  Len(Tried(h)) \in Nat
<1>1. CASE h = <<>>
  BY <1>1, NegacionAssumption DEF Tried
<1>2. CASE \E k \in 1..Len(Profiles) : h = <<Profiles[k]>>
  <2>1. PICK x : h = <<x>>
    BY <1>2
  <2>2. h # <<>> /\ Len(h) = 1
    BY <2>1
  <2>. QED  BY <2>2 DEF Tried
<1>. QED  BY <1>1, <1>2 DEF Hints

LEMMA AbrirOpens ==
  ASSUME NEW c, NEW p, NEW h \in Hints, abrir(c, p, h).status = "ok"
  PROVE  \E k \in 1..Len(Tried(h)) :
           /\ abrir(c, p, h) = intentar(c, p, Tried(h)[k])
           /\ \A j \in 1..Len(Tried(h)) : intentar(c, p, Tried(h)[j]).status = "ok" => k <= j
<1>. DEFINE S == {i \in 1..Len(Tried(h)) : intentar(c, p, Tried(h)[i]).status = "ok"}
            k == CHOOSE i \in S : \A j \in S : i <= j
<1>1. S # {} /\ abrir(c, p, h) = intentar(c, p, Tried(h)[k])
  <2>1. abrir(c, p, h) =
          IF c.size < MinSize THEN Refused("short")
          ELSE IF S = {} THEN Refused("does not open") ELSE intentar(c, p, Tried(h)[k])
    BY DEF abrir
  <2>. DEFINE first == intentar(c, p, Tried(h)[k])
  <2>. HIDE DEF S, first
  <2>2. Refused("short").status # "ok" /\ Refused("does not open").status # "ok"
    BY DEF Refused
  <2>3. abrir(c, p, h) = IF c.size < MinSize THEN Refused("short")
                         ELSE IF S = {} THEN Refused("does not open") ELSE first
    BY <2>1 DEF first
  <2>4. S # {} /\ abrir(c, p, h) = first
    BY <2>2, <2>3
  <2>. QED  BY <2>4 DEF first
<1>2. S \in SUBSET Nat
  BY TriedForm
<1>3. \E i \in S : \A j \in S : i <= j
  <2>. HIDE DEF S
  <2>. QED  BY <1>1, <1>2, LeastOfNaturals
<1>4. k \in S /\ \A j \in S : k <= j
  <2>. HIDE DEF S
  <2>. QED  BY <1>3
<1>. HIDE DEF k
<1>. QED  BY <1>1, <1>4

LEMMA AbrirOwned ==
  ASSUME IInv, NEW i \in 1..Len(shelf), shelf[i].format = "deniable",
         NEW p \in Passphrases, NEW h \in Hints, abrir(shelf[i].blob, p, h).status = "ok"
  PROVE  \E c \in {OfProfile(p, Tried(h)[k]) : k \in 1..Len(Tried(h))} :
           Rightful(c, abrir(shelf[i].blob, p, h).data)
<1>1. PICK k \in 1..Len(Tried(h)) :
        abrir(shelf[i].blob, p, h) = intentar(shelf[i].blob, p, Tried(h)[k])
  BY AbrirOpens
<1>2. Rightful(OfProfile(p, Tried(h)[k]), abrir(shelf[i].blob, p, h).data)
  BY <1>1, IntentarOwned
<1>. QED  BY <1>2

-----------------------------------------------------------------------------
(* Only what is answered of an artifact can say something of it.           *)
LEMMA MakingOpensNothing ==
  ASSUME Make, opened = NotOpened
  PROVE  opened'.item = 0
<1>1. opened.item = 0
  BY NotOpenedForm
<1>2. \A r : Refuse(0, {}, r) => opened'.item = 0
  BY DEF Refuse, Opening
<1>3. \A f, b, o : Keep(f, b, o) => opened'.item = 0
  BY <1>1 DEF Keep
<1>4. \A s, d, p, e, c, f : Encode(s, d, p, e, c, f) => opened'.item = 0
  BY <1>3 DEF Encode
<1>5. \A d, p, e, c, f, k, w : EncodeOnline(d, p, e, c, f, k, w) => opened'.item = 0
  BY <1>2, <1>3 DEF EncodeOnline
<1>6. \A d, r : EncodeToRecipient(d, r) \/ CifrarPara(d, r) => opened'.item = 0
  BY <1>3 DEF EncodeToRecipient, CifrarPara
<1>7. \A d, v : EncodeSigned(d, v) => opened'.item = 0
  BY <1>3 DEF EncodeSigned
<1>8. \A d, c : EncodeSignedConCustodio(d, c) => opened'.item = 0
  BY <1>2, <1>3 DEF EncodeSignedConCustodio, Then
<1>9. \A t, p, c : HoneyEncrypt(t, p, c) => opened'.item = 0
  BY <1>2, <1>3 DEF HoneyEncrypt
<1>10. \A z, d, p, h, c : Crear(z, d, p, h, c) => opened'.item = 0
  BY <1>1, <1>2 DEF Crear
<1>11. \A p, w : DjangoEncode(p, w) => opened'.item = 0
  BY <1>2, <1>3 DEF DjangoEncode
<1>. QED  BY <1>4, <1>5, <1>6, <1>7, <1>8, <1>9, <1>10, <1>11 DEF Make

(* To open something leaves the shelf as it is.                            *)
LEMMA OpenKeeps ==
  ASSUME Open
  PROVE  shelf' = shelf
<1>1. \A i, c, r : Refuse(i, c, r) => shelf' = shelf
  BY DEF Refuse
<1>2. \A i, s, p, e, f : Decode(i, s, p, e, f) => shelf' = shelf
  BY <1>1 DEF Decode
<1>3. \A i, p, e, f, k, w : DecodeOnline(i, p, e, f, k, w) => shelf' = shelf
  BY <1>1 DEF DecodeOnline
<1>4. \A i, r : DecodeAsRecipient(i, r) \/ Descifrar(i, r) => shelf' = shelf
  BY <1>1 DEF DecodeAsRecipient, Descifrar
<1>5. \A i, v : DecodeVerified(i, v) => shelf' = shelf
  BY <1>1 DEF DecodeVerified
<1>6. \A i, p : HoneyDecrypt(i, p) => shelf' = shelf
  BY <1>1 DEF HoneyDecrypt
<1>7. \A i, p, h : Abrir(i, p, h) => shelf' = shelf
  BY DEF Abrir
<1>8. \A i, p, w : DjangoVerify(i, p, w) => shelf' = shelf
  BY <1>1 DEF DjangoVerify
<1>. QED  BY <1>2, <1>3, <1>4, <1>5, <1>6, <1>7, <1>8 DEF Open

LEMMA NextOpens ==
  ASSUME [Next]_vars
  PROVE  UNCHANGED vars \/ opened'.item = 0 \/ (Open /\ shelf' = shelf)
<1>1. CASE UNCHANGED vars
  BY <1>1
<1>2. CASE opened = NotOpened /\ Make
  BY <1>2, MakingOpensNothing
<1>3. CASE Open
  BY <1>3, OpenKeeps
<1>4. CASE /\ opened = NotOpened
           /\ \/ \E i \in 1..Len(shelf) : Damage(i)
              \/ \E s \in Services : ServiceBecomes(s)
              \/ \E p \in Pins, a \in ApiKeys : Configure(Settings(p, a))
              \/ reset_client
  <2>1. opened' = opened
    BY <1>4 DEF Damage, ServiceBecomes, Configure, reset_client
  <2>. QED  BY <1>4, <2>1, NotOpenedForm
<1>5. CASE Answer
  BY <1>5, NotOpenedForm DEF Answer
<1>. QED  BY <1>1, <1>2, <1>3, <1>4, <1>5 DEF Next, Call

LEMMA OwnedAnswer ==
  ASSUME NEW i, NEW tried, NEW r, NEW w,
         opened' = Opening(i, tried, r, w), shelf' = shelf,
         shelf[i].format \notin {"honey", "login"} /\ r.status = "ok" =>
           \E c \in tried : Rightful(c, r.data)
  PROVE  OnlyTheOwnerOpens'
<1>1. opened'.item = i /\ opened'.tried = tried /\ opened'.status = r.status /\ opened'.data = r.data
  BY DEF Opening
<1>2. Promised' = Promised
  BY DEF Promised
<1>3. ASSUME NEW c, Rightful(c, r.data)
      PROVE  Rightful(c, opened.data)'
  BY <1>1, <1>2, <1>3 DEF Rightful
<1>4. ASSUME HasOpened(Formats \ {"honey", "login"})', opened'.status = "ok"
      PROVE  \E c \in opened'.tried : Rightful(c, opened.data)'
  <2>1. shelf[i].format \notin {"honey", "login"} /\ r.status = "ok"
    BY <1>1, <1>4 DEF HasOpened
  <2>2. PICK c \in tried : Rightful(c, r.data)
    BY <2>1
  <2>3. Rightful(c, opened.data)'
    BY <1>3, <2>2
  <2>. QED  BY <1>1, <2>2, <2>3
<1>. QED  BY <1>4 DEF OnlyTheOwnerOpens

LEMMA OpenOwned ==
  ASSUME IInv, Open
  PROVE  OnlyTheOwnerOpens'
<1>1. PICK i \in 1..Len(shelf) :
        \/ \E p \in Passphrases, e \in Peppers, f \in Dictionaries :
             \/ \E s \in Suites : Decode(i, s, p, e, f)
             \/ \E k \in Pins, w \in Draws : DecodeOnline(i, p, e, f, k, w)
        \/ \E r \in Recipients : DecodeAsRecipient(i, r) \/ Descifrar(i, r)
        \/ \E v \in Signers : DecodeVerified(i, v)
        \/ \E p \in Passphrases : HoneyDecrypt(i, p)
        \/ \E p \in Passphrases, h \in Hints : Abrir(i, p, h)
        \/ \E p \in Passphrases, w \in Draws : DjangoVerify(i, p, w)
  BY DEF Open
<1>2. ASSUME NEW c, NEW r, Refuse(i, {c}, r),
             shelf[i].format \in {"honey", "login"} \/ (r.status = "ok" => Rightful(c, r.data))
      PROVE  OnlyTheOwnerOpens'
  <2>1. opened' = Opening(i, {c}, r, NoClient) /\ shelf' = shelf
    BY <1>2 DEF Refuse
  <2>. QED  BY <1>2, <2>1, OwnedAnswer
<1>3. ASSUME NEW p \in Passphrases, NEW e \in Peppers, NEW f \in Dictionaries, NEW s \in Suites,
             Decode(i, s, p, e, f)
      PROVE  OnlyTheOwnerOpens'
  <2>. DEFINE r == decode_from_blob(s, shelf[i].blob, p, f, e)
  <2>1. shelf[i].format \in {"sealed", "online"} /\ Refuse(i, {OfSecret(s, p, e, f)}, r)
    BY <1>3 DEF Decode
  <2>2. r.status = "ok" => Rightful(OfSecret(s, p, e, f), r.data)
    BY <2>1, SecretOwned
  <2>. HIDE DEF r
  <2>. QED  BY <1>2, <2>1, <2>2
<1>4. ASSUME NEW p \in Passphrases, NEW e \in Peppers, NEW f \in Dictionaries, NEW k \in Pins,
             NEW w \in Draws, DecodeOnline(i, p, e, f, k, w)
      PROVE  OnlyTheOwnerOpens'
  <2>. DEFINE h == harden(p, service, k, w)
              c == OfSecret("quipu", p, e \o <<Hardened(k, p)>>, f)
              r == IF h.status # "ok" THEN h
                   ELSE decode_from_blob("quipu", shelf[i].blob, p, f, e \o <<h.data>>)
  <2>1. shelf[i].format = "online" /\ Refuse(i, {c}, r)
    BY <1>4 DEF DecodeOnline
  <2>2. ASSUME r.status = "ok" PROVE Rightful(c, r.data)
    <3>1. h.status = "ok"
      BY <2>2
    <3>2. service \in Services
      BY DEF IInv, TypeOK
    <3>3. h.data = Hardened(k, p)
      BY <3>1, <3>2, HardenSound
    <3>4. r = decode_from_blob("quipu", shelf[i].blob, p, f, e \o <<Hardened(k, p)>>)
      BY <3>1, <3>3
    <3>5. "quipu" \in Suites
      BY DEF Suites
    <3>. HIDE DEF h, r
    <3>. QED  BY <2>1, <2>2, <3>4, <3>5, SecretOwned
  <2>. HIDE DEF r, c
  <2>. QED  BY <1>2, <2>1, <2>2
<1>5. ASSUME NEW x \in Recipients, DecodeAsRecipient(i, x)
      PROVE  OnlyTheOwnerOpens'
  <2>1. decode_as_recipient(shelf[i].blob, x).status = "ok" =>
          Rightful(OfRecipient(x), decode_as_recipient(shelf[i].blob, x).data)
    BY <1>5, RecipientOwned DEF DecodeAsRecipient
  <2>. QED  BY <1>2, <1>5, <2>1 DEF DecodeAsRecipient
<1>6. ASSUME NEW x \in Recipients, Descifrar(i, x)
      PROVE  OnlyTheOwnerOpens'
  <2>1. descifrar(shelf[i].blob, x).status = "ok" =>
          Rightful(OfRecipient(x.ml), descifrar(shelf[i].blob, x).data)
    BY <1>6, CnsaOwned DEF Descifrar
  <2>. QED  BY <1>2, <1>6, <2>1 DEF Descifrar
<1>7. ASSUME NEW v \in Signers, DecodeVerified(i, v)
      PROVE  OnlyTheOwnerOpens'
  <2>. DEFINE r == IF DOMAIN v = {"ml"} THEN verificar(shelf[i].blob, v)
                   ELSE decode_verified(Magic(v), shelf[i].blob, v)
  <2>1. shelf[i].format = "signed" /\ Refuse(i, {OfSigner(v)}, r)
    BY <1>7 DEF DecodeVerified
  <2>2. r \in {verificar(shelf[i].blob, v), decode_verified(Magic(v), shelf[i].blob, v)}
    OBVIOUS
  <2>. HIDE DEF r
  <2>3. r.status = "ok" => Rightful(OfSigner(v), r.data)
    BY <2>1, <2>2, SignedOwned
  <2>. QED  BY <1>2, <2>1, <2>3
<1>8. ASSUME NEW p \in Passphrases, HoneyDecrypt(i, p)
      PROVE  OnlyTheOwnerOpens'
  BY <1>2, <1>8 DEF HoneyDecrypt
<1>9. ASSUME NEW p \in Passphrases, NEW h \in Hints, Abrir(i, p, h)
      PROVE  OnlyTheOwnerOpens'
  <2>. DEFINE r == abrir(shelf[i].blob, p, h)
              w == WorkOfOpening(shelf[i].blob, p, h)
              tried == {OfProfile(p, Tried(h)[k]) : k \in 1..Len(Tried(h))}
  <2>1. shelf[i].format = "deniable" /\ opened' = Opening(i, tried, r, w) /\ shelf' = shelf
    BY <1>9 DEF Abrir
  <2>2. r.status = "ok" => \E c \in tried : Rightful(c, r.data)
    BY <2>1, AbrirOwned
  <2>. HIDE DEF r, w, tried
  <2>. QED  BY <2>1, <2>2, OwnedAnswer
<1>10. ASSUME NEW p \in Passphrases, NEW w \in Draws, DjangoVerify(i, p, w)
      PROVE  OnlyTheOwnerOpens'
  BY <1>2, <1>10 DEF DjangoVerify
<1>. QED  BY <1>1, <1>3, <1>4, <1>5, <1>6, <1>7, <1>8, <1>9, <1>10

(* Whatever is damaged or mixed up, what opens is data that was sealed for *)
(* the credentials given, or signed by each half of that very key.         *)
THEOREM OwnersOnly == Spec => []OnlyTheOwnerOpens
<1>1. Init => OnlyTheOwnerOpens
  BY NotOpenedForm DEF Init, OnlyTheOwnerOpens, HasOpened
<1>2. IInv /\ OnlyTheOwnerOpens /\ [Next]_vars => OnlyTheOwnerOpens'
  <2>. SUFFICES ASSUME IInv, OnlyTheOwnerOpens, [Next]_vars PROVE OnlyTheOwnerOpens'
    OBVIOUS
  <2>1. CASE UNCHANGED vars
    BY <2>1 DEF vars, OnlyTheOwnerOpens, HasOpened, Rightful, Promised
  <2>2. CASE opened'.item = 0
    BY <2>2 DEF OnlyTheOwnerOpens, HasOpened
  <2>3. CASE Open
    BY <2>3, OpenOwned
  <2>. QED  BY <2>1, <2>2, <2>3, NextOpens
<1>. QED  BY <1>1, <1>2, SpecIInv, PTL DEF Spec

-----------------------------------------------------------------------------
(* The Django site.                                                        *)
LEMMA WrongPassword ==
  ASSUME IInv, NEW i \in 1..Len(shelf), NEW p \in Passphrases, NEW w \in Draws, DjangoVerify(i, p, w)
  PROVE  AnOutageIsNotAWrongPassword'
<1>. DEFINE h == django_harden(p, w)
            b == shelf[i].blob
            r == django_verify(b, p, w)
            tried == {OfLogin(Client.pin, p)}
<1>1. shelf[i].format = "login" /\ Refuse(i, tried, r) /\ client' = Client
  BY DEF DjangoVerify
<1>2. /\ opened'.item = i /\ opened'.tried = tried /\ opened'.data = r.data
      /\ UNCHANGED <<shelf, damage, service, settings>>
  BY <1>1 DEF Refuse, Opening
<1>3. /\ Clean(h)
      /\ h.status = "ok" =>
           /\ h.data = Hardened(Client.pin, p)
           /\ service.state \in {"up", "crossed"}
           /\ Settings(public_key(service.key), service.api) = Client
  BY DjangoClean
<1>4. PICK pin \in Pins, q \in Passphrases :
        b[2] = Hardened(pin, q) /\ shelf[i].promises = {Promise(OfLogin(pin, q), <<TRUE>>)}
  BY <1>1 DEF IInv, Logins, MadeAsLogin
<1>5. r = IF h.status # "ok" THEN h ELSE Done(<<b[2] = h.data>>)
  BY DEF django_verify
<1>6. ASSUME r.data = <<FALSE>>
      PROVE  /\ \A x \in shelf[i].promises : x.credential \notin tried
             /\ service.state \in {"up", "crossed"}
             /\ Settings(public_key(service.key), service.api) = Client
  <2>1. h.status = "ok"
    <3>1. <<FALSE>> # <<>>
      OBVIOUS
    <3>. HIDE DEF h, r, b
    <3>2. ASSUME h.status # "ok" PROVE FALSE
      <4>1. r.data = <<>>
        BY <1>3, <1>5, <3>2 DEF Clean
      <4>. QED  BY <1>6, <3>1, <4>1
    <3>. QED  BY <3>2
  <2>2. r.data = <<b[2] = h.data>>
    <3>. HIDE DEF h, r, b
    <3>. QED  BY <1>5, <2>1, ResultForm
  <2>3. b[2] # h.data
    <3>. DEFINE same == b[2] = h.data
    <3>1. <<same>> = <<FALSE>>
      BY <1>6, <2>2
    <3>. HIDE DEF same
    <3>2. same = FALSE
      BY <3>1
    <3>. QED  BY <3>2 DEF same
  <2>4. ~(pin = Client.pin /\ q = p)
    BY <1>3, <1>4, <2>1, <2>3
  <2>5. OfLogin(pin, q) # OfLogin(Client.pin, p)
    BY <2>4 DEF OfLogin
  <2>6. \A x \in shelf[i].promises : x.credential \notin tried
    BY <1>4, <2>5 DEF Promise
  <2>. QED  BY <1>3, <2>1, <2>6
<1>. HIDE DEF r, tried
<1>7. ASSUME opened'.data = <<FALSE>>
      PROVE  /\ Owed' = {} /\ service'.state \in {"up", "crossed"}
             /\ Settings(public_key(service'.key), service'.api) = client'
  <2>1. r.data = <<FALSE>>
    BY <1>2, <1>7
  <2>2. Owed' = {x \in shelf[i].promises : x.credential \in tried}
    BY <1>2 DEF Owed
  <2>3. Owed' = {}
    BY <1>6, <2>1, <2>2
  <2>4. service' = service /\ client' = Client
    BY <1>1, <1>2
  <2>. QED  BY <1>6, <2>1, <2>3, <2>4
<1>. QED  BY <1>7 DEF AnOutageIsNotAWrongPassword

(* A password is called wrong only by a service that answered with the key *)
(* that is pinned and took the API key, and never when it is right.        *)
THEOREM OutagesAreNotWrongPasswords == Spec => []AnOutageIsNotAWrongPassword
<1>1. Init => AnOutageIsNotAWrongPassword
  BY NotOpenedForm DEF Init, AnOutageIsNotAWrongPassword, HasOpened
<1>2. IInv /\ AnOutageIsNotAWrongPassword /\ [Next]_vars => AnOutageIsNotAWrongPassword'
  <2>. SUFFICES ASSUME IInv, AnOutageIsNotAWrongPassword, [Next]_vars
       PROVE  AnOutageIsNotAWrongPassword'
    OBVIOUS
  <2>1. CASE UNCHANGED vars
    BY <2>1 DEF vars, AnOutageIsNotAWrongPassword, HasOpened, Owed
  <2>2. CASE opened'.item = 0
    BY <2>2 DEF AnOutageIsNotAWrongPassword, HasOpened
  <2>3. CASE Open
    <3>1. PICK i \in 1..Len(shelf) :
            \/ \E p \in Passphrases, e \in Peppers, f \in Dictionaries :
                 \/ \E s \in Suites : Decode(i, s, p, e, f)
                 \/ \E k \in Pins, w \in Draws : DecodeOnline(i, p, e, f, k, w)
            \/ \E r \in Recipients : DecodeAsRecipient(i, r) \/ Descifrar(i, r)
            \/ \E v \in Signers : DecodeVerified(i, v)
            \/ \E p \in Passphrases : HoneyDecrypt(i, p)
            \/ \E p \in Passphrases, h \in Hints : Abrir(i, p, h)
            \/ \E p \in Passphrases, w \in Draws : DjangoVerify(i, p, w)
      BY <2>3 DEF Open
    <3>2. ASSUME shelf[i].format # "login", opened'.item = i, shelf' = shelf
          PROVE  AnOutageIsNotAWrongPassword'
      BY <3>2 DEF AnOutageIsNotAWrongPassword, HasOpened
    <3>3. \A c, r : Refuse(i, c, r) => opened'.item = i /\ shelf' = shelf
      BY DEF Refuse, Opening
    <3>4. \A s, p, e, f : Decode(i, s, p, e, f) => AnOutageIsNotAWrongPassword'
      BY <3>2, <3>3 DEF Decode
    <3>5. \A p, e, f, k, w : DecodeOnline(i, p, e, f, k, w) => AnOutageIsNotAWrongPassword'
      BY <3>2, <3>3 DEF DecodeOnline
    <3>6. \A r : DecodeAsRecipient(i, r) \/ Descifrar(i, r) => AnOutageIsNotAWrongPassword'
      BY <3>2, <3>3 DEF DecodeAsRecipient, Descifrar
    <3>7. \A v : DecodeVerified(i, v) => AnOutageIsNotAWrongPassword'
      BY <3>2, <3>3 DEF DecodeVerified
    <3>8. \A p : HoneyDecrypt(i, p) => AnOutageIsNotAWrongPassword'
      BY <3>2, <3>3 DEF HoneyDecrypt
    <3>9. \A p, h : Abrir(i, p, h) => AnOutageIsNotAWrongPassword'
      BY <3>2 DEF Abrir, Opening
    <3>. QED  BY <3>1, <3>4, <3>5, <3>6, <3>7, <3>8, <3>9, WrongPassword
  <2>. QED  BY <2>1, <2>2, <2>3, NextOpens
<1>. QED  BY <1>1, <1>2, SpecIInv, PTL DEF Spec

-----------------------------------------------------------------------------
(* Honey: what is answered does not depend on the passphrase.              *)
HoneyRefused(b) ==
  \/ b.cut \/ b.header.magic # "QHNY" \/ b.header.version # Version \/ b.header.alphabet < 2
  \/ b.header.length \notin 1..MaxTokens \/ ~is_sane("quipu", b.header.params)
  \/ b.body[1] # "tokens" \/ Len(b.body[2]) < b.header.length
HoneyDigits(b, p, e) ==
  keystream_digits(p, b.header.salt, e, b.header.params, b.header.alphabet, b.header.length)
HoneyTokens(b, p, e) ==
  [i \in 1..b.header.length |-> Token(b.body[2][i], HoneyDigits(b, p, e)[i], b.header.alphabet)]

LEMMA HoneyForm ==
  ASSUME NEW b
  PROVE  /\ ~HoneyRefused(b) => \A p, e : honey_decrypt(b, p, e) = Done(HoneyTokens(b, p, e))
         /\ HoneyRefused(b) => \E m : m # "ok" /\ \A p, e : honey_decrypt(b, p, e) = Refused(m)
<1>. DEFINE h == b.header
            Given(q, g) == Done(HoneyTokens(b, q, g))
<1>1. \A q, g : honey_decrypt(b, q, g) =
        IF b.cut THEN Refused("truncated")
        ELSE IF h.magic # "QHNY" THEN Refused("magic")
        ELSE IF h.version # Version THEN Refused("version")
        ELSE IF h.alphabet < 2 THEN Refused("alphabet")
        ELSE IF h.length \notin 1..MaxTokens THEN Refused("length")
        ELSE IF ~is_sane("quipu", h.params) THEN Refused("kdf")
        ELSE IF b.body[1] # "tokens" \/ Len(b.body[2]) < h.length THEN Refused("truncated")
        ELSE Given(q, g)
  BY DEF honey_decrypt, HoneyTokens, HoneyDigits
<1>2. HoneyRefused(b) <=>
        \/ b.cut \/ h.magic # "QHNY" \/ h.version # Version \/ h.alphabet < 2
        \/ h.length \notin 1..MaxTokens \/ ~is_sane("quipu", h.params)
        \/ b.body[1] # "tokens" \/ Len(b.body[2]) < h.length
  BY DEF HoneyRefused
<1>. HIDE DEF Given, h
<1>3. ~HoneyRefused(b) => \A p, e : honey_decrypt(b, p, e) = Given(p, e)
  BY <1>1, <1>2
<1>4. ASSUME HoneyRefused(b)
      PROVE  \E m : m # "ok" /\ \A q, g : honey_decrypt(b, q, g) = Refused(m)
  <2>. DEFINE Answer_(m) == \A q, g : honey_decrypt(b, q, g) = Refused(m)
  <2>1. b.cut => Answer_("truncated")
    BY <1>1
  <2>2. ~b.cut /\ h.magic # "QHNY" => Answer_("magic")
    BY <1>1
  <2>3. ~b.cut /\ h.magic = "QHNY" /\ h.version # Version => Answer_("version")
    BY <1>1
  <2>4. ~b.cut /\ h.magic = "QHNY" /\ h.version = Version /\ h.alphabet < 2 => Answer_("alphabet")
    BY <1>1
  <2>5. ~b.cut /\ h.magic = "QHNY" /\ h.version = Version /\ ~(h.alphabet < 2)
          /\ h.length \notin 1..MaxTokens => Answer_("length")
    BY <1>1
  <2>6. ~b.cut /\ h.magic = "QHNY" /\ h.version = Version /\ ~(h.alphabet < 2)
          /\ h.length \in 1..MaxTokens /\ ~is_sane("quipu", h.params) => Answer_("kdf")
    BY <1>1
  <2>7. ~b.cut /\ h.magic = "QHNY" /\ h.version = Version /\ ~(h.alphabet < 2)
          /\ h.length \in 1..MaxTokens /\ is_sane("quipu", h.params)
          /\ (b.body[1] # "tokens" \/ Len(b.body[2]) < h.length) => Answer_("truncated")
    BY <1>1
  <2>. HIDE DEF Answer_
  <2>8. \E m \in {"truncated", "magic", "version", "alphabet", "length", "kdf"} : Answer_(m)
    BY <1>2, <1>4, <2>1, <2>2, <2>3, <2>4, <2>5, <2>6, <2>7
  <2>. QED  BY <2>8 DEF Answer_
<1>. QED  BY <1>3, <1>4 DEF Given

LEMMA TokenType ==
  ASSUME NEW c \in Nat, NEW size \in Nat \ {0}, NEW k \in 0..(size - 1)
  PROVE  Token(c, k, size) \in 0..(size - 1)
<1>1. c + size - k \in Int
  OBVIOUS
<1>. QED  BY <1>1, Euclid DEF Token

LEMMA HoneyAnswers ==
  ASSUME IInv, NEW i \in 1..Len(shelf), shelf[i].format = "honey",
         NEW p \in Passphrases, NEW e \in Peppers, NEW q \in Passphrases, NEW g \in Peppers
  PROVE  LET b == shelf[i].blob
             a == honey_decrypt(b, p, e)
         IN  /\ a.status = honey_decrypt(b, q, g).status
             /\ \A k \in 1..Len(a.data) : a.data[k] \in 0..(b.header.alphabet - 1)
<1>. DEFINE b == shelf[i].blob
            h == b.header
            a == honey_decrypt(b, p, e)
            ks == HoneyDigits(b, p, e)
            tokens == HoneyTokens(b, p, e)
<1>1. HoneyHeader(h) /\ (b.body = Noise \/ HoneyBody(b.body))
  BY DEF IInv, Provenance, Traced
<1>2. CASE HoneyRefused(b)
  <2>1. PICK m : \A r, f : honey_decrypt(b, r, f) = Refused(m)
    BY <1>2, HoneyForm
  <2>2. a.data = <<>> /\ a.status = m /\ honey_decrypt(b, q, g).status = m
    BY <2>1, ResultForm
  <2>. HIDE DEF a
  <2>3. \A k \in 1..Len(a.data) : FALSE
    BY <2>2
  <2>. QED  BY <2>2, <2>3 DEF a
<1>3. CASE ~HoneyRefused(b)
  <2>1. a = Done(tokens)
    BY <1>3, HoneyForm
  <2>2. honey_decrypt(b, q, g).status = "ok"
    BY <1>3, HoneyForm, ResultForm
  <2>3. /\ h.length \in 1..MaxTokens /\ h.alphabet \in Nat \ {0} /\ h.salt \in Nat
        /\ b.body[2] \in Seq(Nat) /\ h.length <= Len(b.body[2]) /\ h.length \in Nat
    <3>1. h.alphabet \in Nat /\ h.salt \in Nat /\ h.length \in 1..MaxTokens /\ ~(h.alphabet < 2)
      BY <1>1, <1>3 DEF HoneyHeader, HoneyRefused
    <3>2. b.body[1] = "tokens" /\ ~(Len(b.body[2]) < h.length)
      BY <1>3 DEF HoneyRefused
    <3>3. HoneyBody(b.body)
      BY <1>1, <3>2 DEF Noise
    <3>4. b.body[2] \in Seq(Nat) /\ Len(b.body[2]) \in Nat
      BY <3>3 DEF HoneyBody
    <3>. HIDE DEF h, b
    <3>. QED  BY <3>1, <3>2, <3>4, HoneyAssumption
  <2>4. ASSUME NEW k \in 1..h.length
        PROVE  tokens[k] \in 0..(h.alphabet - 1)
    <3>1. ks[k] \in 0..(h.alphabet - 1)
      <4>. DEFINE salt == b.header.salt
                  size == b.header.alphabet
                  len == b.header.length
                  c == b.header.params
      <4>1. salt \in Nat /\ size \in Nat \ {0} /\ len \in Int /\ k \in 1..len
        BY <2>3, <2>4
      <4>. HIDE DEF salt, size, len, c
      <4>2. keystream_digits(p, salt, e, c, size, len)[k] \in 0..(size - 1)
        BY <4>1, KeystreamType
      <4>. QED  BY <4>2 DEF HoneyDigits, salt, size, len, c
    <3>2. b.body[2][k] \in Nat
      <4>. DEFINE c == b.body[2]
                  len == h.length
      <4>1. c \in Seq(Nat) /\ len \in Nat /\ len <= Len(c) /\ k \in 1..len
        BY <2>3, <2>4
      <4>. HIDE DEF c, len
      <4>2. k \in 1..Len(c)
        BY <4>1
      <4>3. c[k] \in Nat
        BY <4>1, <4>2, ElementOfSeq
      <4>. QED  BY <4>3 DEF c
    <3>3. tokens[k] = Token(b.body[2][k], ks[k], h.alphabet)
      BY <2>4 DEF HoneyTokens
    <3>. HIDE DEF ks, h, b, tokens
    <3>. QED  BY <2>3, <3>1, <3>2, <3>3, TokenType
  <2>5. a.data = tokens /\ a.status = "ok"
    BY <2>1, ResultForm
  <2>. DEFINE len == h.length
              t == [k \in 1..len |-> Token(b.body[2][k], ks[k], h.alphabet)]
  <2>6. len \in Nat
    BY <2>3
  <2>. HIDE DEF len, h, ks
  <2>7. Len(t) = len
    BY <2>6
  <2>8. Len(tokens) = h.length
    BY <2>7 DEF len, h, ks, HoneyTokens
  <2>. HIDE DEF tokens
  <2>9. \A k \in 1..Len(a.data) : a.data[k] \in 0..(h.alphabet - 1)
    BY <2>4, <2>5, <2>8
  <2>. QED  BY <2>2, <2>5, <2>9 DEF h
<1>. QED  BY <1>2, <1>3

(* Whatever became of a honey container, all passphrases get an error, or  *)
(* all get tokens of its alphabet.                                         *)
THEOREM HoneyKeepsItsSecret == Spec => []HoneyNeverTells
<1>1. ASSUME IInv, NEW i \in 1..Len(shelf), shelf[i].format = "honey"
      PROVE  /\ Cardinality({a.status : a \in Guesses(shelf[i].blob)}) = 1
             /\ \A a \in Guesses(shelf[i].blob) :
                  \A k \in 1..Len(a.data) : a.data[k] \in 0..(shelf[i].blob.header.alphabet - 1)
  <2>. DEFINE b == shelf[i].blob
  <2>1. PICK q \in Passphrases : TRUE
    BY VaultAssumption
  <2>. DEFINE s == honey_decrypt(b, q, <<>>).status
  <2>2. honey_decrypt(b, q, <<>>) \in Guesses(b) /\ <<>> \in Peppers
    BY <2>1, VaultAssumption DEF Guesses
  <2>3. \A a \in Guesses(b) : /\ a.status = s
                              /\ \A k \in 1..Len(a.data) : a.data[k] \in 0..(b.header.alphabet - 1)
    <3>. SUFFICES ASSUME NEW p \in Passphrases, NEW e \in Peppers
         PROVE  LET a == honey_decrypt(b, p, e)
                IN  /\ a.status = s
                    /\ \A k \in 1..Len(a.data) : a.data[k] \in 0..(b.header.alphabet - 1)
      BY DEF Guesses
    <3>1. honey_decrypt(b, p, e).status = s
      BY <1>1, <2>1, <2>2, HoneyAnswers
    <3>2. \A k \in 1..Len(honey_decrypt(b, p, e).data) :
            honey_decrypt(b, p, e).data[k] \in 0..(b.header.alphabet - 1)
      BY <1>1, <2>1, <2>2, HoneyAnswers
    <3>. QED  BY <3>1, <3>2
  <2>4. {a.status : a \in Guesses(b)} = {s}
    BY <2>2, <2>3
  <2>5. Cardinality({a.status : a \in Guesses(b)}) = 1
    <3>. HIDE DEF b, s
    <3>. QED  BY <2>4, FS_Singleton
  <2>. QED  BY <2>3, <2>5
<1>2. IInv => HoneyNeverTells
  BY <1>1 DEF HoneyNeverTells
<1>. QED  BY <1>2, SpecIInv, PTL

-----------------------------------------------------------------------------
(* Whatever is made opens: the frame first. A frame is never shorter than  *)
(* what it frames, because a power of two is never zero.                   *)
LEMMA InductionOnNat ==
  ASSUME NEW T \in SUBSET Nat, 0 \in T, \A k \in T : k + 1 \in T
  PROVE  T = Nat
<1>. DEFINE C == Nat \ T
<1>. SUFFICES ASSUME C # {} PROVE FALSE
  OBVIOUS
<1>1. PICK m \in C : \A k \in C : m <= k
  BY LeastOfNaturals
<1>2. m # 0 /\ m - 1 \in Nat /\ m - 1 \notin C
  BY <1>1
<1>. QED  BY <1>1, <1>2

Doubles(f, k) == f[0] = 1 /\ \A e \in 1..k : f[e] = 2 * f[e - 1]

LEMMA DoublingAgrees ==
  ASSUME NEW f, NEW g, NEW k \in Nat, Doubles(f, k), Doubles(g, k), NEW m \in 0..k
  PROVE  f[m] = g[m]
<1>. DEFINE T == {j \in Nat : j <= k => f[j] = g[j]}
<1>1. 0 \in T
  BY DEF Doubles
<1>2. ASSUME NEW j \in T PROVE j + 1 \in T
  <2>. SUFFICES ASSUME j + 1 <= k PROVE f[j + 1] = g[j + 1]
    OBVIOUS
  <2>1. j + 1 \in 1..k /\ (j + 1) - 1 = j /\ f[j] = g[j]
    OBVIOUS
  <2>. QED  BY <2>1 DEF Doubles
<1>3. T = Nat
  <2>1. T \in SUBSET Nat
    OBVIOUS
  <2>. HIDE DEF T
  <2>. QED  BY <1>1, <1>2, <2>1, InductionOnNat
<1>. QED  BY <1>3

LEMMA DoublingExists ==
  ASSUME NEW k \in Nat
  PROVE  \E f \in [0..k -> Nat \ {0}] : Doubles(f, k)
<1>. DEFINE T == {j \in Nat : \E f \in [0..j -> Nat \ {0}] : Doubles(f, j)}
<1>1. 0 \in T
  <2>1. [i \in 0..0 |-> 1] \in [0..0 -> Nat \ {0}] /\ Doubles([i \in 0..0 |-> 1], 0)
    BY DEF Doubles
  <2>. QED  BY <2>1
<1>2. ASSUME NEW j \in T PROVE j + 1 \in T
  <2>1. PICK f \in [0..j -> Nat \ {0}] : Doubles(f, j)
    OBVIOUS
  <2>. DEFINE g == [i \in 0..(j + 1) |-> IF i <= j THEN f[i] ELSE 2 * f[j]]
  <2>2. f[j] \in Nat \ {0} /\ 2 * f[j] \in Nat \ {0}
    BY <2>1
  <2>3. g \in [0..(j + 1) -> Nat \ {0}]
    BY <2>1, <2>2
  <2>4. Doubles(g, j + 1)
    <3>1. g[0] = 1
      BY <2>1 DEF Doubles
    <3>2. ASSUME NEW i \in 1..(j + 1) PROVE g[i] = 2 * g[i - 1]
      <4>1. i - 1 \in 0..j /\ g[i - 1] = f[i - 1]
        OBVIOUS
      <4>2. CASE i <= j
        BY <2>1, <4>1, <4>2 DEF Doubles
      <4>3. CASE i = j + 1
        BY <4>1, <4>3
      <4>. QED  BY <4>2, <4>3
    <3>. HIDE DEF g
    <3>. QED  BY <3>1, <3>2 DEF Doubles
  <2>5. j + 1 \in Nat
    OBVIOUS
  <2>. QED  BY <2>3, <2>4, <2>5
<1>3. T = Nat
  <2>1. T \in SUBSET Nat
    OBVIOUS
  <2>. HIDE DEF T
  <2>. QED  BY <1>1, <1>2, <2>1, InductionOnNat
<1>. QED  BY <1>3

LEMMA PowerDoubles ==
  /\ PowerOfTwo \in [Nat -> Nat \ {0}]
  /\ \A k \in Nat : Doubles(PowerOfTwo, k)
<1>. DEFINE Upto(k) == CHOOSE f \in [0..k -> Nat \ {0}] : Doubles(f, k)
            Next2(f) == [e \in Nat |-> IF e = 0 THEN 1 ELSE 2 * f[e - 1]]
            F == [k \in Nat |-> Upto(k)[k]]
<1>1. \A k \in Nat : Upto(k) \in [0..k -> Nat \ {0}] /\ Doubles(Upto(k), k)
  BY DoublingExists
<1>. HIDE DEF Upto
<1>2. F \in [Nat -> Nat \ {0}]
  BY <1>1
<1>3. ASSUME NEW k \in Nat PROVE F[k] = IF k = 0 THEN 1 ELSE 2 * F[k - 1]
  <2>1. F[k] = Upto(k)[k] /\ Doubles(Upto(k), k)
    BY <1>1
  <2>2. CASE k = 0
    BY <2>1, <2>2 DEF Doubles
  <2>3. CASE k # 0
    <3>. DEFINE j == k - 1
    <3>1. j \in Nat /\ j \in 0..j /\ k \in 1..k /\ F[j] = Upto(j)[j] /\ Doubles(Upto(j), j)
      BY <1>1, <2>3
    <3>2. Doubles(Upto(k), j)
      BY <2>1, <3>1 DEF Doubles
    <3>. HIDE DEF F
    <3>3. Upto(k)[j] = Upto(j)[j]
      <4>. HIDE DEF j
      <4>. QED  BY <3>1, <3>2, DoublingAgrees
    <3>4. Upto(k)[k] = 2 * Upto(k)[j]
      BY <2>1, <3>1 DEF Doubles
    <3>. QED  BY <2>1, <2>3, <3>1, <3>3, <3>4
  <2>. QED  BY <2>2, <2>3
<1>4. F = Next2(F)
  <2>1. F = [k \in Nat |-> F[k]]
    OBVIOUS
  <2>. HIDE DEF F
  <2>. QED  BY <1>3, <2>1
<1>5. PowerOfTwo = CHOOSE f : f = Next2(f)
  BY DEF PowerOfTwo
<1>6. PowerOfTwo = Next2(PowerOfTwo)
  <2>. HIDE DEF Next2, F
  <2>. QED  BY <1>4, <1>5
<1>7. ASSUME NEW k \in Nat PROVE Doubles(PowerOfTwo, k)
  <2>1. PowerOfTwo[0] = 1 /\ \A e \in 1..k : PowerOfTwo[e] = 2 * PowerOfTwo[e - 1]
    BY <1>6
  <2>. QED  BY <2>1 DEF Doubles
<1>8. ASSUME NEW k \in Nat PROVE PowerOfTwo[k] = F[k]
  <2>1. Doubles(F, k)
    <3>. HIDE DEF F
    <3>. QED  BY <1>3 DEF Doubles
  <2>. HIDE DEF F
  <2>. QED  BY <1>7, <2>1, DoublingAgrees
<1>9. PowerOfTwo \in [Nat -> Nat \ {0}]
  <2>1. PowerOfTwo = [k \in Nat |-> PowerOfTwo[k]]
    BY <1>6
  <2>. HIDE DEF F
  <2>. QED  BY <1>2, <1>8, <2>1
<1>. QED  BY <1>7, <1>9

LEMMA PowerGrows ==
  ASSUME NEW k \in Nat
  PROVE  PowerOfTwo[k] \in Nat \ {0} /\ k < PowerOfTwo[k] /\ PowerOfTwo[k + 1] = 2 * PowerOfTwo[k]
<1>. DEFINE T == {j \in Nat : j < PowerOfTwo[j]}
<1>1. \A j \in Nat : PowerOfTwo[j] \in Nat \ {0}
  BY PowerDoubles
<1>2. \A j \in Nat : PowerOfTwo[j + 1] = 2 * PowerOfTwo[j]
  <2>1. \A j \in Nat : j + 1 \in Nat /\ j + 1 \in 1..(j + 1) /\ (j + 1) - 1 = j
    OBVIOUS
  <2>. QED  BY <2>1, PowerDoubles DEF Doubles
<1>3. 0 \in T
  BY <1>1
<1>4. ASSUME NEW j \in T PROVE j + 1 \in T
  BY <1>1, <1>2
<1>5. T = Nat
  <2>1. T \in SUBSET Nat
    OBVIOUS
  <2>. HIDE DEF T
  <2>. QED  BY <1>3, <1>4, <2>1, InductionOnNat
<1>. QED  BY <1>1, <1>2, <1>5

LEMMA Log2Type ==
  ASSUME NEW l \in Nat \ {0}
  PROVE  Log2(l) \in 0..l /\ PowerOfTwo[Log2(l)] <= l /\ l < PowerOfTwo[Log2(l) + 1]
<1>. DEFINE T == {k \in Nat : l < PowerOfTwo[k]}
<1>1. l \in T
  BY PowerGrows
<1>2. PICK m \in T : \A k \in T : m <= k
  <2>1. T \in SUBSET Nat /\ T # {}
    BY <1>1
  <2>. HIDE DEF T
  <2>. QED  BY <2>1, LeastOfNaturals
<1>3. PowerOfTwo[0] = 1
  BY PowerDoubles DEF Doubles
<1>4. m # 0 /\ m <= l /\ m - 1 \in Nat /\ m - 1 \notin T
  BY <1>1, <1>2, <1>3
<1>5. PowerOfTwo[m - 1] <= l /\ (m - 1) + 1 = m /\ l < PowerOfTwo[m]
  BY <1>2, <1>4, PowerGrows
<1>6. \E e \in 0..l : PowerOfTwo[e] <= l /\ l < PowerOfTwo[e + 1]
  <2>1. m - 1 \in 0..l
    BY <1>4
  <2>. HIDE DEF T
  <2>. QED  BY <1>5, <2>1
<1>. QED  BY <1>6 DEF Log2

LEMMA RoundedUp ==
  ASSUME NEW l \in Nat, NEW mask \in Nat
  PROVE  ((l + mask) \div (mask + 1)) * (mask + 1) \in Nat
         /\ ((l + mask) \div (mask + 1)) * (mask + 1) >= l
<1>. DEFINE m == mask + 1
            a == l + mask
            q == a \div m
            r == a % m
<1>1. m \in Nat \ {0} /\ a \in Int
  OBVIOUS
<1>2. r \in 0..(m - 1) /\ q \in Int /\ a = m * q + r
  <2>. HIDE DEF m, a
  <2>. QED  BY <1>1, Euclid
<1>3. q * m = m * q /\ q * m \in Int
  BY <1>1, <1>2
<1>. HIDE DEF q, r
<1>4. q * m >= l
  BY <1>2, <1>3
<1>. QED  BY <1>3, <1>4 DEF q

(* Padding never shrinks ("padded_len_nunca_encoge", padme-frame lib.rs).  *)
THEOREM PaddingNeverShrinks ==
  ASSUME NEW l \in Nat
  PROVE  padded_len(l) \in Nat /\ padded_len(l) >= l
<1>1. CASE l < 2
  BY <1>1 DEF padded_len
<1>2. CASE ~(l < 2)
  <2>. DEFINE e == Log2(l)
              low == IF e = 0 \/ e <= Log2(e) + 1 THEN 0 ELSE e - Log2(e) - 1
              mask == PowerOfTwo[low] - 1
  <2>1. e \in Nat
    BY <1>2, Log2Type
  <2>2. low \in Nat
    <3>. HIDE DEF e
    <3>1. CASE e = 0
      BY <3>1
    <3>2. CASE e # 0
      <4>1. Log2(e) \in 0..e
        BY <2>1, <3>2, Log2Type
      <4>. QED  BY <2>1, <3>2, <4>1
    <3>. QED  BY <3>1, <3>2
  <2>. HIDE DEF e, low
  <2>3. mask \in Nat
    BY <2>2, PowerGrows
  <2>4. padded_len(l) = ((l + mask) \div (mask + 1)) * (mask + 1)
    BY <1>2 DEF padded_len, mask, low, e
  <2>. HIDE DEF mask
  <2>. QED  BY <2>3, <2>4, RoundedUp
<1>. QED  BY <1>1, <1>2

-----------------------------------------------------------------------------
(* What is framed fits its frame, so that whatever is sealed in one comes  *)
(* out of it.                                                              *)
LEMMA FrameFits ==
  ASSUME NEW data \in Seq(Characters), NEW frame, NEW room \in Int,
         frame.declared = Len(data), frame.content = data,
         frame.size = room, pad(data).size <= room
  PROVE  unpad(frame) = Done(data)
<1>1. Len(data) \in Nat /\ LengthPrefix \in Nat
  BY LenProperties, SealingAssumption
<1>2. pad(data).size = padded_len(LengthPrefix + Len(data))
  BY DEF pad, Framed
<1>3. padded_len(LengthPrefix + Len(data)) \in Nat
      /\ padded_len(LengthPrefix + Len(data)) >= LengthPrefix + Len(data)
  <2>1. LengthPrefix + Len(data) \in Nat
    BY <1>1
  <2>. QED  BY <2>1, PaddingNeverShrinks
<1>4. ~(room < LengthPrefix) /\ ~(Len(data) > room - LengthPrefix)
  <2>. DEFINE l == padded_len(LengthPrefix + Len(data))
  <2>1. l \in Nat /\ l >= LengthPrefix + Len(data) /\ l <= room
    BY <1>2, <1>3
  <2>. HIDE DEF l
  <2>. QED  BY <1>1, <2>1
<1>5. SubSeq(data, 1, Len(data)) = data
  BY SubSeqFull
<1>. QED  BY <1>4, <1>5 DEF unpad

LEMMA BoxReturns ==
  ASSUME NEW key, NEW nonce, NEW ad, NEW data \in Seq(Characters)
  PROVE  Unframed(decrypt(key, nonce, encrypt(key, nonce, pad(data), ad), ad)) = Done(data)
<1>1. decrypt(key, nonce, encrypt(key, nonce, pad(data), ad), ad) = Done(pad(data))
  BY BoxOpens
<1>2. unpad(pad(data)) = Done(data)
  <2>1. LengthPrefix + Len(data) \in Nat
    BY LenProperties, SealingAssumption
  <2>2. pad(data).size = padded_len(LengthPrefix + Len(data))
    BY DEF pad, Framed
  <2>3. pad(data).size \in Int /\ pad(data).size <= pad(data).size
    BY <2>1, <2>2, PaddingNeverShrinks
  <2>. QED  BY <2>3, PadForm, FrameFits
<1>. QED  BY <1>1, <1>2, ResultForm DEF Unframed

-----------------------------------------------------------------------------
(* What nobody touched is as it was made, and promises just that.          *)
MadeAsSealed(a) ==
  \E s \in Suites, d \in Documents, p \in Passphrases : \E e, c, f, k :
    /\ a.blob = encode_to_blob(s, d, p, f, e, c, k)
    /\ a.promises = {Promise(OfSecret(s, p, e, f), d)}

MadeForRecipient(a) ==
  \E d \in Documents : \E r, k :
    a.blob = encode_to_recipient(d, r, k) /\ a.promises = {Promise(OfRecipient(r), d)}

MadeAsCnsa(a) ==
  \E d \in Documents : \E r, k :
    a.blob = cifrar_para(d, r, k) /\ a.promises = {Promise(OfRecipient(r.ml), d)}

(* A signature promises the whole key something only if it is that key's.  *)
MadeAsSigned(a) ==
  \E d \in Documents : \E v, g :
    /\ a.blob = IF DOMAIN v = {"ml"} THEN Blob("quipu-cnsa", Blank, <<"signed", d, g>>)
                ELSE armar_firmado(Magic(v), d, g)
    /\ \A x \in a.promises : \A w : x.credential = OfSigner(w) => w = v /\ x.data = d /\ g = sign(v, d)

MadeAsHoney(a) ==
  \E t \in Secrets, p \in Passphrases, k \in Nat : \E c :
    LET r == honey_encrypt(t, 10, p, <<>>, c, k)
    IN  r.status = "ok" /\ a.blob = r.data /\ a.promises = {Promise(OfHoney(p), t)}

Whole(a) ==
  /\ a.format \in {"sealed", "online"} => MadeAsSealed(a)
  /\ a.format = "recipient" => MadeForRecipient(a)
  /\ a.format = "cnsa" => MadeAsCnsa(a)
  /\ a.format = "signed" => MadeAsSigned(a)
  /\ a.format = "honey" => MadeAsHoney(a)

Made == \A i \in 1..Len(shelf) : shelf[i].intact => Whole(shelf[i])

-----------------------------------------------------------------------------
(* Each reader undoes its writer.                                          *)
Owes(a, tried) == \E x \in a.promises : x.credential \in tried
Pays(a, tried, r) == r.status = "ok" /\ \E x \in a.promises : x.credential \in tried /\ r.data = x.data

LEMMA SealedHeader ==
  ASSUME NEW f, NEW k, NEW c
  PROVE  LET h == [Blank EXCEPT !.magic = "QUIP", !.fingerprint = f, !.salt = k, !.nonce = k,
                                !.params = c]
         IN  /\ h.magic = "QUIP" /\ h.version = 1 /\ h.flags = 0 /\ h.fingerprint = f
             /\ h.salt = k /\ h.nonce = k /\ h.params = c
BY DEF Blank

LEMMA SealedPays ==
  ASSUME NEW a, MadeAsSealed(a), NEW s, NEW p, NEW e, NEW f,
         Owes(a, {OfSecret(s, p, e, f)}), is_sane(a.blob.suite, a.blob.header.params)
  PROVE  Pays(a, {OfSecret(s, p, e, f)}, decode_from_blob(s, a.blob, p, f, e))
<1>1. PICK t \in Suites, d \in Documents, q \in Passphrases : \E g, c, y, k :
        /\ a.blob = encode_to_blob(t, d, q, y, g, c, k)
        /\ a.promises = {Promise(OfSecret(t, q, g, y), d)}
  BY DEF MadeAsSealed
<1>2. PICK g, c, y, k :
        /\ a.blob = encode_to_blob(t, d, q, y, g, c, k)
        /\ a.promises = {Promise(OfSecret(t, q, g, y), d)}
  BY <1>1
<1>. DEFINE h == [Blank EXCEPT !.magic = "QUIP", !.fingerprint = y, !.salt = k, !.nonce = k,
                               !.params = c]
            key == CipherKey(t, q, k, g, c)
            box == encrypt(key, k, pad(d), aad(h))
<1>3. OfSecret(s, p, e, f) = OfSecret(t, q, g, y) /\ a.promises = {Promise(OfSecret(s, p, e, f), d)}
  BY <1>2 DEF Owes, Promise
<1>4. s = t /\ f = y /\ Normal[p] \o e = Normal[q] \o g
  BY <1>3 DEF OfSecret
<1>5. a.blob = Blob(t, h, box)
  BY <1>2 DEF encode_to_blob
<1>6. /\ h.magic = "QUIP" /\ h.version = 1 /\ h.flags = 0 /\ h.fingerprint = f
      /\ h.salt = k /\ h.nonce = k /\ h.params = c
  BY <1>4, SealedHeader
<1>. HIDE DEF h, box
<1>7. a.blob.suite = t /\ a.blob.header = h /\ a.blob.body = box /\ a.blob.cut = FALSE
  BY <1>5 DEF Blob
<1>8. FieldsRead(s, a.blob) = h
  BY <1>4, <1>7 DEF FieldsRead
<1>9. parse(a.blob) = "ok"
  BY <1>6, <1>7 DEF parse, Version
<1>10. CipherKey(s, p, k, e, c) = key
  BY <1>4 DEF CipherKey, derive_subkey, derive_master_key
<1>. HIDE DEF key
<1>11. decode_from_blob(s, a.blob, p, f, e) =
         Unframed(decrypt(CipherKey(s, p, h.salt, e, h.params), h.nonce, a.blob.body, aad(h)))
  BY <1>4, <1>6, <1>7, <1>8, <1>9 DEF decode_from_blob
<1>12. decode_from_blob(s, a.blob, p, f, e) = Unframed(decrypt(key, k, encrypt(key, k, pad(d), aad(h)), aad(h)))
  BY <1>6, <1>7, <1>10, <1>11 DEF box
<1>13. d \in Seq(Characters)
  BY VaultAssumption
<1>14. decode_from_blob(s, a.blob, p, f, e) = Done(d)
  BY <1>12, <1>13, BoxReturns
<1>. QED  BY <1>3, <1>14, ResultForm DEF Pays, Promise

LEMMA RecipientHeader ==
  ASSUME NEW k, NEW m, NEW x
  PROVE  LET h == [Blank EXCEPT !.magic = m, !.nonce = k, !.encapsulation = <<x>>]
         IN  /\ h.magic = m /\ h.version = 1 /\ h.nonce = k /\ h.encapsulation[1] = x
BY DEF Blank

LEMMA RecipientPays ==
  ASSUME NEW a, MadeForRecipient(a), NEW r, Owes(a, {OfRecipient(r)})
  PROVE  Pays(a, {OfRecipient(r)}, decode_as_recipient(a.blob, r))
<1>1. PICK d \in Documents : \E q, k :
        a.blob = encode_to_recipient(d, q, k) /\ a.promises = {Promise(OfRecipient(q), d)}
  BY DEF MadeForRecipient
<1>2. PICK q, k : a.blob = encode_to_recipient(d, q, k) /\ a.promises = {Promise(OfRecipient(q), d)}
  BY <1>1
<1>3. r = q
  BY <1>2 DEF Owes, Promise, OfRecipient
<1>. DEFINE h == [Blank EXCEPT !.magic = "QPQ1", !.nonce = k, !.encapsulation = <<Encapsulation(k)>>]
            key == encapsulate(q, k)
            box == encrypt(key, k, pad(d), aad(h))
<1>4. a.blob = Blob("quipu", h, box)
  BY <1>2 DEF encode_to_recipient
<1>5. h.magic = "QPQ1" /\ h.version = 1 /\ h.nonce = k /\ h.encapsulation[1] = Encapsulation(k)
  BY RecipientHeader
<1>6. decapsulate(r, Encapsulation(k)) = key
  BY <1>3 DEF decapsulate, encapsulate, Encapsulation, HybridKey
<1>. HIDE DEF h, box, key
<1>7. a.blob.header = h /\ a.blob.body = box /\ a.blob.cut = FALSE
  BY <1>4 DEF Blob
<1>8. decode_as_recipient(a.blob, r) =
        Unframed(decrypt(decapsulate(r, h.encapsulation[1]), h.nonce, a.blob.body, aad(h)))
  BY <1>5, <1>7 DEF decode_as_recipient, Version
<1>9. d \in Seq(Characters)
  BY VaultAssumption
<1>10. decode_as_recipient(a.blob, r) = Done(d)
  BY <1>5, <1>6, <1>7, <1>8, <1>9, BoxReturns DEF box
<1>. QED  BY <1>2, <1>3, <1>10, ResultForm DEF Pays, Promise

LEMMA CnsaPays ==
  ASSUME NEW a, MadeAsCnsa(a), NEW r, Owes(a, {OfRecipient(r.ml)})
  PROVE  Pays(a, {OfRecipient(r.ml)}, descifrar(a.blob, r))
<1>1. PICK d \in Documents : \E q, k :
        a.blob = cifrar_para(d, q, k) /\ a.promises = {Promise(OfRecipient(q.ml), d)}
  BY DEF MadeAsCnsa
<1>2. PICK q, k : a.blob = cifrar_para(d, q, k) /\ a.promises = {Promise(OfRecipient(q.ml), d)}
  BY <1>1
<1>3. r.ml = q.ml
  BY <1>2 DEF Owes, Promise, OfRecipient
<1>. DEFINE h == [Blank EXCEPT !.nonce = k, !.encapsulation = <<Encapsulation(k)>>]
            key == clave_de_contenido(k, q.ml)
            box == encrypt(key, k, d, <<k>>)
<1>4. a.blob = Blob("quipu-cnsa", h, box)
  BY <1>2 DEF cifrar_para
<1>5. h.nonce = k /\ h.encapsulation[1] = Encapsulation(k) /\ Encapsulation(k).ml = k
  BY DEF Blank, Encapsulation, HybridKey
<1>. HIDE DEF h, box, key
<1>6. a.blob.header = h /\ a.blob.body = box /\ a.blob.cut = FALSE
  BY <1>4 DEF Blob
<1>7. descifrar(a.blob, r) = decrypt(clave_de_contenido(k, r.ml), k, box, <<k>>)
  BY <1>5, <1>6 DEF descifrar
<1>8. descifrar(a.blob, r) = Done(d)
  BY <1>3, <1>7, BoxOpens DEF box, key
<1>. QED  BY <1>2, <1>3, <1>8, ResultForm DEF Pays, Promise

LEMMA SignedHeader ==
  ASSUME NEW m, NEW l
  PROVE  LET h == [Blank EXCEPT !.magic = m, !.length = l]
         IN  h.magic = m /\ h.version = 1 /\ h.length = l
BY DEF Blank

LEMMA SignedPays ==
  ASSUME NEW a, MadeAsSigned(a), NEW v, Owes(a, {OfSigner(v)}),
         a.blob.suite = "quipu" => Len(a.blob.body[2]) < LengthWrap
  PROVE  Pays(a, {OfSigner(v)}, IF DOMAIN v = {"ml"} THEN verificar(a.blob, v)
                                ELSE decode_verified(Magic(v), a.blob, v))
<1>1. PICK d \in Documents : \E w, g :
        /\ a.blob = IF DOMAIN w = {"ml"} THEN Blob("quipu-cnsa", Blank, <<"signed", d, g>>)
                    ELSE armar_firmado(Magic(w), d, g)
        /\ \A x \in a.promises : \A u : x.credential = OfSigner(u) => u = w /\ x.data = d /\ g = sign(w, d)
  BY DEF MadeAsSigned
<1>2. PICK w, g :
        /\ a.blob = IF DOMAIN w = {"ml"} THEN Blob("quipu-cnsa", Blank, <<"signed", d, g>>)
                    ELSE armar_firmado(Magic(w), d, g)
        /\ \A x \in a.promises : \A u : x.credential = OfSigner(u) => u = w /\ x.data = d /\ g = sign(w, d)
  BY <1>1
<1>3. PICK x \in a.promises : x.credential = OfSigner(v)
  BY DEF Owes
<1>4. v = w /\ x.data = d /\ g = sign(v, d)
  BY <1>2, <1>3
<1>5. DOMAIN g = DOMAIN v /\ verify(v, d, g)
  BY <1>4 DEF sign, verify
<1>6. CASE DOMAIN v = {"ml"}
  <2>1. a.blob = Blob("quipu-cnsa", Blank, <<"signed", d, g>>)
    BY <1>2, <1>4, <1>6
  <2>2. a.blob.cut = FALSE /\ a.blob.body = <<"signed", d, g>>
    BY <2>1 DEF Blob
  <2>3. verificar(a.blob, v) = Done(d)
    BY <1>5, <2>2 DEF verificar
  <2>. QED  BY <1>3, <1>4, <1>6, <2>3, ResultForm DEF Pays
<1>7. CASE DOMAIN v # {"ml"}
  <2>. DEFINE h == [Blank EXCEPT !.magic = Magic(v), !.length = Len(d) % LengthWrap]
  <2>1. a.blob = Blob("quipu", h, <<"signed", d, g>>)
    BY <1>2, <1>4, <1>7 DEF armar_firmado
  <2>2. h.magic = Magic(v) /\ h.version = 1 /\ h.length = Len(d) % LengthWrap
    BY SignedHeader
  <2>. HIDE DEF h
  <2>3. /\ a.blob.cut = FALSE /\ a.blob.body = <<"signed", d, g>> /\ a.blob.header = h
        /\ a.blob.suite = "quipu"
    BY <2>1 DEF Blob
  <2>4. Len(d) % LengthWrap = Len(d)
    <3>1. Len(d) < LengthWrap
      BY <2>3
    <3>2. Len(d) \in Nat /\ LengthWrap \in Nat \ {0}
      BY LenProperties, VaultAssumption, HybridAssumption
    <3>. QED  BY <3>1, <3>2
  <2>5. a.blob.body[1] = "signed" /\ a.blob.body[2] = d /\ a.blob.body[3] = g
    BY <2>3
  <2>6. ~(a.blob.cut \/ a.blob.body[1] # "signed")
    BY <2>3, <2>5
  <2>7. /\ a.blob.header.magic = Magic(v) /\ a.blob.header.version = Version
        /\ a.blob.header.length = Len(a.blob.body[2])
    BY <2>2, <2>3, <2>4, <2>5 DEF Version
  <2>8. DOMAIN a.blob.body[3] = DOMAIN v /\ verify(v, a.blob.body[2], a.blob.body[3])
    BY <1>5, <2>5
  <2>9. decode_verified(Magic(v), a.blob, v) = Done(a.blob.body[2])
    BY <2>6, <2>7, <2>8 DEF decode_verified
  <2>. QED  BY <1>3, <1>4, <1>7, <2>5, <2>9, ResultForm DEF Pays
<1>. QED  BY <1>6, <1>7

LEMMA TokenReturns ==
  ASSUME NEW size \in Nat \ {0}, NEW t \in 0..(size - 1), NEW k \in 0..(size - 1)
  PROVE  Token((t + k) % size, k, size) = t
<1>. DEFINE c == (t + k) % size
            q == (t + k) \div size
            x == (c + size - k) % size
            u == (c + size - k) \div size
<1>1. t + k \in Int
  OBVIOUS
<1>2. c \in 0..(size - 1) /\ q \in Int /\ t + k = size * q + c
  BY <1>1, Euclid
<1>. HIDE DEF c, q
<1>3. c + size - k \in Int
  BY <1>2
<1>4. x \in 0..(size - 1) /\ u \in Int /\ c + size - k = size * u + x
  BY <1>3, Euclid
<1>. HIDE DEF x, u
<1>5. t = x + size * (u + q - 1)
  <2>1. size * (u + q - 1) = size * u + size * q - size
    BY <1>2, <1>4
  <2>2. size * u \in Int /\ size * q \in Int
    BY <1>2, <1>4
  <2>. DEFINE su == size * u
              sq == size * q
              suq == size * (u + q - 1)
  <2>3. suq = su + sq - size /\ su \in Int /\ sq \in Int /\ t + k = sq + c /\ c + size - k = su + x
    BY <1>2, <1>4, <2>1, <2>2
  <2>. HIDE DEF su, sq, suq
  <2>4. t = x + suq
    BY <1>2, <1>4, <2>3
  <2>. QED  BY <2>4 DEF suq
<1>6. u + q - 1 \in Int
  BY <1>2, <1>4
<1>7. t = x
  BY <1>4, <1>5, <1>6, RestIsUnique
<1>. QED  BY <1>7 DEF Token, x, c

LEMMA HoneyBlank ==
  ASSUME NEW k, NEW c, NEW l
  PROVE  LET h == [Blank EXCEPT !.magic = "QHNY", !.salt = k, !.params = c,
                                !.alphabet = 10, !.length = l]
         IN  /\ h.magic = "QHNY" /\ h.version = 1 /\ h.salt = k /\ h.params = c
             /\ h.alphabet = 10 /\ h.length = l
BY DEF Blank

LEMMA HoneyPays ==
  ASSUME NEW a, MadeAsHoney(a), NEW p \in Passphrases, Owes(a, {OfHoney(p)}),
         is_sane("quipu", a.blob.header.params)
  PROVE  Pays(a, {OfHoney(p)}, honey_decrypt(a.blob, p, <<>>))
<1>1. PICK t \in Secrets, g \in Passphrases, k \in Nat : \E c :
        LET r == honey_encrypt(t, 10, g, <<>>, c, k)
        IN  r.status = "ok" /\ a.blob = r.data /\ a.promises = {Promise(OfHoney(g), t)}
  BY DEF MadeAsHoney
<1>2. PICK c : LET r == honey_encrypt(t, 10, g, <<>>, c, k)
               IN  r.status = "ok" /\ a.blob = r.data /\ a.promises = {Promise(OfHoney(g), t)}
  BY <1>1
<1>3. Normal[p] = Normal[g] /\ a.promises = {Promise(OfHoney(p), t)}
  BY <1>2 DEF Owes, Promise, OfHoney
<1>. DEFINE ks == keystream_digits(g, k, <<>>, c, 10, Len(t))
            x == [i \in 1..Len(t) |-> (t[i] + ks[i]) % 10]
            h == [Blank EXCEPT !.magic = "QHNY", !.salt = k, !.params = c,
                               !.alphabet = 10, !.length = Len(t)]
<1>4. /\ Len(t) \in 1..MaxTokens /\ \A i \in 1..Len(t) : ~(t[i] >= 10)
      /\ a.blob = Blob("quipu", h, <<"tokens", x>>)
  BY <1>2, ResultForm DEF honey_encrypt
<1>5. t \in Seq(Nat) /\ Len(t) \in Nat /\ <<>> \in Peppers
  BY VaultAssumption, LenProperties
<1>6. ASSUME NEW i \in 1..Len(t) PROVE t[i] \in 0..9 /\ ks[i] \in 0..9
  <2>1. t[i] \in Nat /\ ~(t[i] >= 10)
    BY <1>4, <1>5, ElementOfSeq
  <2>2. 10 \in Nat \ {0} /\ Len(t) \in Int
    BY <1>5
  <2>3. ks[i] \in 0..(10 - 1)
    BY <1>5, <2>2, KeystreamType
  <2>. QED  BY <2>1, <2>3
<1>7. keystream_digits(p, k, <<>>, c, 10, Len(t)) = ks
  BY <1>3 DEF keystream_digits, derive_master_key
<1>8. h.magic = "QHNY" /\ h.version = 1 /\ h.salt = k /\ h.params = c /\ h.alphabet = 10 /\ h.length = Len(t)
  BY HoneyBlank
<1>9. DOMAIN x = 1..Len(t) /\ \A i \in 1..Len(t) : x[i] = (t[i] + ks[i]) % 10
  OBVIOUS
<1>10. Len(x) = Len(t)
  <2>. HIDE DEF ks
  <2>. QED  BY <1>5, <1>9
<1>. HIDE DEF h, x, ks
<1>11. a.blob.header = h /\ a.blob.body = <<"tokens", x>> /\ a.blob.cut = FALSE
  BY <1>4 DEF Blob
<1>12. ASSUME NEW i \in 1..Len(t) PROVE Token(x[i], ks[i], 10) = t[i]
  <2>1. 10 \in Nat \ {0} /\ 10 - 1 = 9
    OBVIOUS
  <2>2. Token((t[i] + ks[i]) % 10, ks[i], 10) = t[i]
    BY <1>6, <2>1, TokenReturns
  <2>. QED  BY <1>9, <2>2
<1>13. [i \in 1..Len(t) |-> Token(x[i], ks[i], 10)] = t
  <2>1. t = [i \in 1..Len(t) |-> t[i]]
    BY <1>5
  <2>. QED  BY <1>12, <2>1
<1>14. a.blob.body[1] = "tokens" /\ a.blob.body[2] = x
  BY <1>11
<1>15. honey_decrypt(a.blob, p, <<>>) = Done([i \in 1..Len(t) |-> Token(x[i], ks[i], 10)])
  <2>. DEFINE y == [i \in 1..Len(t) |-> Token(x[i], ks[i], 10)]
  <2>1. /\ ~(h.alphabet < 2) /\ h.length \in 1..MaxTokens /\ is_sane("quipu", h.params)
        /\ ~(Len(x) < h.length) /\ h.version = Version
    BY <1>4, <1>5, <1>8, <1>10, <1>11 DEF Version
  <2>2. honey_decrypt(a.blob, p, <<>>) =
          Done([i \in 1..h.length |->
                  Token(a.blob.body[2][i],
                        keystream_digits(p, h.salt, <<>>, h.params, h.alphabet, h.length)[i], h.alphabet)])
    BY <1>8, <1>11, <1>14, <2>1 DEF honey_decrypt
  <2>. QED  BY <1>7, <1>8, <1>14, <2>2
<1>. QED  BY <1>3, <1>13, <1>15, ResultForm DEF Pays, Promise

(* A region that there was room for opens for the passphrase and the costs *)
(* it was sealed with.                                                     *)
LEMMA RegionReturns ==
  ASSUME NEW w \in {"decoy", "hidden"}, NEW d \in Documents, NEW g, NEW k, NEW z \in Nat, NEW x,
         NEW c, NEW p, Normal[p] = Normal[g], c.salt = k, c.size = z,
         Region(w, d, g, k, z, x).status = "ok", c[w] = Region(w, d, g, k, z, x).data
  PROVE  Tries(w, c, p, x) = Done(d)
<1>. DEFINE room == RegionLength(w, z) - TagLength
            plain == claro_de_region(d, room)
            y == [pad(d) EXCEPT !.size = room]
            large == pad(d).size > room
            key == RegionKey(w, g, k, x)
            nonce == RegionNonce(w, g, k, x)
            ad == dato_autenticado(k, z)
<1>1. room \in Int
  <2>1. SaltLength \in Nat /\ TagLength \in Nat
    BY NegacionAssumption
  <2>2. z - SaltLength \in Int
    BY <2>1
  <2>3. (z - SaltLength) \div 2 \in Int
    <3>1. 2 \in Nat \ {0}
      OBVIOUS
    <3>. QED  BY <2>2, <3>1, Euclid
  <2>. QED  BY <2>1, <2>2, <2>3 DEF RegionLength
<1>2. plain.status = "ok" /\ c[w] = encrypt(key, nonce, plain.data, ad)
  BY ResultForm DEF Region
<1>3. plain = IF large THEN Refused("no room") ELSE Done(y)
  BY DEF claro_de_region
<1>4. pad(d).declared = Len(d) /\ pad(d).content = d
  BY PadForm
<1>5. y.declared = Len(d) /\ y.content = d /\ y.size = room
  BY DEF pad, Framed
<1>6. Refused("no room").status = "no room" /\ Done(y).data = y
  BY ResultForm
<1>7. plain.data = y /\ ~large
  <2>. HIDE DEF plain, y, large
  <2>. QED  BY <1>2, <1>3, <1>6
<1>8. d \in Seq(Characters)
  BY VaultAssumption
<1>9. pad(d).size <= room
  <2>1. LengthPrefix + Len(d) \in Nat
    BY <1>8, LenProperties, SealingAssumption
  <2>2. pad(d).size = padded_len(LengthPrefix + Len(d))
    BY DEF pad, Framed
  <2>3. pad(d).size \in Nat
    BY <2>1, <2>2, PaddingNeverShrinks
  <2>. HIDE DEF room
  <2>. QED  BY <1>1, <1>7, <2>3
<1>. HIDE DEF room, plain, y
<1>10. unpad(y) = Done(d)
  BY <1>1, <1>5, <1>8, <1>9, FrameFits
<1>11. RegionKey(w, p, c.salt, x) = key /\ RegionNonce(w, p, c.salt, x) = nonce
       /\ dato_autenticado(c.salt, c.size) = ad
  BY DEF RegionKey, RegionNonce, derive_subkey, derive_master_key
<1>. HIDE DEF key, nonce, ad
<1>12. decrypt(key, nonce, encrypt(key, nonce, y, ad), ad) = Done(y)
  BY BoxOpens
<1>13. Tries(w, c, p, x) = Unframed(Done(y))
  BY <1>2, <1>7, <1>11, <1>12 DEF Tries
<1>. QED  BY <1>10, <1>13, ResultForm DEF Unframed

LEMMA AbrirFinds ==
  ASSUME NEW c, ~(c.size < MinSize), NEW p, NEW h \in Hints, NEW k \in 1..Len(Tried(h)),
         intentar(c, p, Tried(h)[k]).status = "ok"
  PROVE  abrir(c, p, h).status = "ok"
<1>. DEFINE opens == {i \in 1..Len(Tried(h)) : intentar(c, p, Tried(h)[i]).status = "ok"}
<1>1. opens # {} /\ opens \in SUBSET Nat
  BY TriedForm
<1>2. PICK m \in opens : \A j \in opens : m <= j
  BY <1>1, LeastOfNaturals
<1>. DEFINE least == CHOOSE i \in opens : \A j \in opens : i <= j
<1>3. least \in opens
  BY <1>2
<1>4. abrir(c, p, h) = intentar(c, p, Tried(h)[least])
  <2>. HIDE DEF opens
  <2>1. opens # {}
    BY <1>1
  <2>. QED  BY <2>1 DEF abrir, opens
<1>5. intentar(c, p, Tried(h)[least]).status = "ok"
  <2>. HIDE DEF least
  <2>. QED  BY <1>3
<1>. QED  BY <1>4, <1>5

(* The size advised is enough for what was asked and for two volumes, is a *)
(* power of two, and tells what was asked to within a factor of two (the   *)
(* comment of tamano_canonico, negacion.rs).                               *)
THEOREM CanonicalSize ==
  ASSUME NEW minimum \in Nat
  PROVE  /\ tamano_canonico(minimum) \in Nat
         /\ tamano_canonico(minimum) >= minimum /\ tamano_canonico(minimum) >= MinSize
         /\ tamano_canonico(minimum) < 2 * minimum \/ tamano_canonico(minimum) < 2 * MinSize
         /\ \E e \in Nat : tamano_canonico(minimum) = PowerOfTwo[e]
<1>. DEFINE m == IF minimum < MinSize THEN MinSize ELSE minimum
            e == Log2(m)
            size == IF m = PowerOfTwo[e] THEN m ELSE PowerOfTwo[e + 1]
<1>1. m \in Nat \ {0} /\ m >= minimum /\ m >= MinSize /\ m \in {minimum, MinSize} /\ MinSize \in Nat
  <2>1. /\ SaltLength \in Nat /\ TagLength \in Nat /\ MinSize \in Nat
        /\ MinSize >= SaltLength + 2 * (TagLength + LengthPrefix)
    BY NegacionAssumption
  <2>2. LengthPrefix \in Nat \ {0, 1}
    BY SealingAssumption
  <2>. QED  BY <2>1, <2>2
<1>2. tamano_canonico(minimum) = size
  BY DEF tamano_canonico
<1>. HIDE DEF m
<1>3. e \in Nat /\ e + 1 \in Nat /\ PowerOfTwo[e] <= m /\ m < PowerOfTwo[e + 1]
  BY <1>1, Log2Type
<1>. HIDE DEF e
<1>. DEFINE low == PowerOfTwo[e]
            high == PowerOfTwo[e + 1]
<1>4. low \in Nat /\ high = 2 * low /\ low <= m /\ m < high
  BY <1>3, PowerGrows
<1>5. size = IF m = low THEN m ELSE high
  OBVIOUS
<1>6. \E x \in Nat : size = PowerOfTwo[x]
  BY <1>3
<1>. HIDE DEF size, low, high
<1>7. size \in Nat /\ size >= m /\ size < 2 * m
  BY <1>1, <1>4, <1>5
<1>8. size < 2 * minimum \/ size < 2 * MinSize
  BY <1>1, <1>7
<1>. QED  BY <1>1, <1>2, <1>6, <1>7, <1>8

LEMMA SizesAreNumbers == AllSizes \subseteq Nat
<1>. DEFINE z == Max(Sizes)
<1>1. z \in Sizes
  BY SizesAssumption DEF Max
<1>2. Sizes \subseteq Nat
  BY SizesAssumption
<1>. HIDE DEF z
<1>3. tamano_canonico(z) \in Nat
  BY <1>1, <1>2, CanonicalSize
<1>. QED  BY <1>2, <1>3 DEF AllSizes, z

(* A deniable container opens with the costs it was made with and no       *)
(* others, to the volume of whose passphrase is given.                     *)
OpensAsMade(b, p, d, g, v, c) ==
  /\ ~(b.size < MinSize)
  /\ \A q : intentar(b, p, q).status = "ok" => q = c
  /\ Normal[p] = Normal[g] => intentar(b, p, c) = Done(<<"decoy", d>>)
  /\ v # NoVolume /\ Normal[p] = Normal[v[2]] => intentar(b, p, c) = Done(<<"hidden", v[1]>>)

LEMMA IntentarPays ==
  ASSUME NEW z \in AllSizes, NEW d \in Documents, NEW g \in Passphrases, NEW v \in HiddenVolumes,
         NEW c, NEW k, NEW r, r = crear(z, d, g, v, c, k), r.status = "ok", NEW p \in Passphrases,
         NEW b, b = r.data
  PROVE  OpensAsMade(b, p, d, g, v, c)
<1>. DEFINE decoy == Region("decoy", d, g, k, z, c)
            hidden == Region("hidden", v[1], v[2], k, z, c)
<1>1. /\ decoy.status = "ok" /\ ~(z < MinSize)
      /\ v # NoVolume => hidden.status = "ok" /\ Normal[g] # Normal[v[2]]
      /\ b = Container(k, z, decoy.data, IF v = NoVolume THEN Noise ELSE hidden.data)
  BY CrearForm
<1>2. v # NoVolume => v[1] \in Documents /\ v[2] \in Passphrases
  BY DEF HiddenVolumes, NoVolume, Volume
<1>3. z \in Nat
  BY SizesAreNumbers
<1>. DEFINE concealed == IF v = NoVolume THEN Noise ELSE hidden.data
<1>. HIDE DEF concealed
<1>4. b.size = z /\ b.salt = k /\ b["decoy"] = decoy.data /\ b["hidden"] = concealed
  BY <1>1 DEF Container, concealed
<1>5. ASSUME NEW q, Tries("hidden", b, p, q).status = "ok"
      PROVE  q = c /\ v # NoVolume /\ Normal[p] = Normal[v[2]]
  <2>1. CASE v = NoVolume
    <3>1. b["hidden"] = Noise
      BY <1>4, <2>1 DEF concealed
    <3>. QED  BY <1>5, <3>1, NoiseGivesNothing DEF Tries
  <2>2. CASE v # NoVolume
    <3>. DEFINE w == "hidden"
                x == v[1]
                y == v[2]
    <3>1. b[w] = hidden.data /\ hidden.status = "ok" /\ hidden = Region(w, x, y, k, z, c)
      BY <1>1, <1>4, <2>2 DEF concealed
    <3>2. Tries(w, b, p, q).status = "ok" /\ x \in Documents /\ y \in Passphrases
      BY <1>2, <1>5, <2>2
    <3>. HIDE DEF hidden, w, x, y
    <3>3. q = c
      BY <3>1, <3>2, RegionOpens
    <3>4. Normal[p] = Normal[y]
      BY <3>1, <3>2, RegionOpens
    <3>. QED  BY <2>2, <3>3, <3>4 DEF y
  <2>. QED  BY <2>1, <2>2
<1>6. ASSUME NEW q, Tries("decoy", b, p, q).status = "ok"
      PROVE  q = c
  <2>. DEFINE w == "decoy"
  <2>1. b[w] = decoy.data /\ decoy.status = "ok" /\ decoy = Region(w, d, g, k, z, c)
    BY <1>1, <1>4
  <2>2. Tries(w, b, p, q).status = "ok"
    BY <1>6
  <2>. HIDE DEF decoy, w
  <2>. QED  BY <2>1, <2>2, RegionOpens
<1>7. ASSUME NEW q, intentar(b, p, q).status = "ok"
      PROVE  q = c
  <2>. DEFINE x == Tries("hidden", b, p, q)
              y == Tries("decoy", b, p, q)
  <2>1. intentar(b, p, q) = IF x.status = "ok" THEN Done(<<"hidden", x.data>>)
                            ELSE IF y.status = "ok" THEN Done(<<"decoy", y.data>>)
                            ELSE Refused("does not open")
    BY IntentarForm
  <2>2. Refused("does not open").status = "does not open"
    BY ResultForm
  <2>. HIDE DEF x, y
  <2>3. x.status = "ok" \/ y.status = "ok"
    BY <1>7, <2>1, <2>2
  <2>. QED  BY <1>5, <1>6, <2>3 DEF x, y
<1>8. ASSUME Normal[p] = Normal[g]
      PROVE  intentar(b, p, c) = Done(<<"decoy", d>>)
  <2>1. Tries("hidden", b, p, c).status # "ok"
    BY <1>1, <1>5, <1>8
  <2>2. Tries("decoy", b, p, c) = Done(d)
    BY <1>1, <1>3, <1>4, <1>8, RegionReturns
  <2>. QED  BY <2>1, <2>2, IntentarForm, ResultForm
<1>9. ASSUME v # NoVolume, Normal[p] = Normal[v[2]]
      PROVE  intentar(b, p, c) = Done(<<"hidden", v[1]>>)
  <2>1. b["hidden"] = hidden.data /\ hidden.status = "ok"
    BY <1>1, <1>4, <1>9 DEF concealed
  <2>2. Tries("hidden", b, p, c) = Done(v[1])
    BY <1>2, <1>3, <1>4, <1>9, <2>1, RegionReturns
  <2>. QED  BY <2>2, IntentarForm, ResultForm
<1>10. ~(b.size < MinSize)
  BY <1>1, <1>4
<1>. QED  BY <1>7, <1>8, <1>9, <1>10 DEF OpensAsMade

LEMMA DeniablePays ==
  ASSUME NEW a, NEW k, MadeAsDeniable(a, k), NEW p \in Passphrases, NEW h \in Hints,
         Owes(a, {OfProfile(p, Tried(h)[j]) : j \in 1..Len(Tried(h))})
  PROVE  Pays(a, {OfProfile(p, Tried(h)[j]) : j \in 1..Len(Tried(h))}, abrir(a.blob, p, h))
<1>1. PICK z \in AllSizes, d \in Documents, g \in Passphrases, v \in HiddenVolumes, i \in 1..Len(Profiles) :
        LET c == Profiles[i]
            r == crear(z, d, g, v, c, k)
        IN  /\ r.status = "ok" /\ a.blob = r.data
            /\ a.twin = crear(z, d, g, NoVolume, c, k).data
            /\ a.promises = {Promise(OfProfile(g, c), <<"decoy", d>>)}
                 \cup {Promise(OfProfile(w[2], c), <<"hidden", w[1]>>) : w \in {v} \ {NoVolume}}
            /\ a.work = {WorkOfMaking(z, d, v), WorkOfMaking(z, d, NoVolume)}
  BY DEF MadeAsDeniable
<1>. DEFINE c == Profiles[i]
            b == a.blob
            tried == {OfProfile(p, Tried(h)[j]) : j \in 1..Len(Tried(h))}
            r == crear(z, d, g, v, c, k)
<1>0. r.status = "ok" /\ b = r.data
  BY <1>1
<1>2. OpensAsMade(b, p, d, g, v, c)
  <2>1. r = crear(z, d, g, v, c, k)
    OBVIOUS
  <2>. HIDE DEF c, b, r
  <2>. QED  BY <1>0, <2>1, IntentarPays
<1>. HIDE DEF c, b
<1>3. PICK x \in a.promises : x.credential \in tried
  BY DEF Owes
<1>4. PICK j \in 1..Len(Tried(h)) : x.credential = OfProfile(p, Tried(h)[j])
  BY <1>3
<1>. HIDE DEF tried
<1>5. \/ x = Promise(OfProfile(g, c), <<"decoy", d>>)
      \/ v # NoVolume /\ x = Promise(OfProfile(v[2], c), <<"hidden", v[1]>>)
  BY <1>1, <1>3 DEF c
<1>6. Tried(h)[j] = c /\ intentar(b, p, c) = Done(x.data)
  BY <1>2, <1>4, <1>5 DEF Promise, OfProfile, OpensAsMade
<1>7. Done(x.data).status = "ok" /\ Done(x.data).data = x.data
  BY ResultForm
<1>8. abrir(b, p, h).status = "ok"
  BY <1>2, <1>4, <1>6, <1>7, AbrirFinds DEF OpensAsMade
<1>9. PICK m \in 1..Len(Tried(h)) : abrir(b, p, h) = intentar(b, p, Tried(h)[m])
  BY <1>8, AbrirOpens
<1>10. abrir(b, p, h) = Done(x.data)
  BY <1>2, <1>6, <1>8, <1>9 DEF OpensAsMade
<1>. QED  BY <1>3, <1>7, <1>10 DEF Pays, b, tried

(* A login with the passphrase and the pin of its record.                  *)
LEMMA HardenErrors ==
  ASSUME NEW p, NEW s, NEW pin, NEW w
  PROVE  harden(p, s, pin, w).status \in {"ok", "network", "denied", "verification"}
<1>1. \A k, b, r : blind_evaluate(k, b, r).status \in {"ok", "point"}
  BY ResultForm DEF blind_evaluate
<1>2. ASSUME NEW b PROVE evaluate_remote_verified(s, b, w).status \in {"ok", "network", "denied"}
  <2>. DEFINE asked == IF s.state = "crossed" THEN w.other ELSE b
              reply == blind_evaluate(s.key, asked, w.proof)
              garbled == Done([reply.data EXCEPT !.evaluated = Order])
  <2>1. evaluate_remote_verified(s, b, w) =
          IF s.state = "down" THEN Refused("network")
          ELSE IF s.state = "denying" \/ reply.status # "ok" THEN Refused("denied")
          ELSE IF s.state = "garbled" THEN garbled ELSE reply
    BY DEF evaluate_remote_verified
  <2>2. /\ garbled.status = "ok" /\ Refused("network").status = "network"
        /\ Refused("denied").status = "denied"
    BY ResultForm
  <2>. HIDE DEF reply, garbled
  <2>. QED  BY <2>1, <2>2
<1>3. \A st, r : finalize(p, st, r, pin).status \in {"ok", "verification"}
  BY ResultForm DEF finalize
<1>. DEFINE state == blind(p, w.blind)
            reply == evaluate_remote_verified(s, state.data.blinded, w)
            last == finalize(p, state.data, reply.data, pin)
<1>4. harden(p, s, pin, w) = IF state.status # "ok" THEN Refused("verification")
                             ELSE IF reply.status # "ok" THEN reply ELSE last
  BY DEF harden
<1>5. Refused("verification").status = "verification"
  BY ResultForm
<1>6. reply.status \in {"ok", "network", "denied"} /\ last.status \in {"ok", "verification"}
  BY <1>2, <1>3
<1>. HIDE DEF state, reply, last
<1>. QED  BY <1>4, <1>5, <1>6

LEMMA LoginPays ==
  ASSUME IInv, NEW a, MadeAsLogin(a), NEW p \in Passphrases, NEW w \in Draws,
         Owes(a, {OfLogin(Client.pin, p)}), django_verify(a.blob, p, w).status \notin Outages
  PROVE  Pays(a, {OfLogin(Client.pin, p)}, django_verify(a.blob, p, w))
<1>1. PICK pin \in Pins, g \in Passphrases :
        a.blob[2] = Hardened(pin, g) /\ a.promises = {Promise(OfLogin(pin, g), <<TRUE>>)}
  BY DEF MadeAsLogin
<1>2. pin = Client.pin /\ g = p
  BY <1>1 DEF Owes, Promise, OfLogin
<1>. DEFINE h == harden(p, service, Client.pin, w)
            r == django_harden(p, w)
<1>3. r = IF h.status \in {"network", "denied"} \/ service.api # Client.api THEN Refused("unavailable")
          ELSE IF h.status = "verification" THEN Refused("rejected") ELSE h
  BY DEF django_harden
<1>4. h.status \in {"ok", "network", "denied", "verification"}
  BY HardenErrors
<1>5. /\ Refused("unavailable").status = "unavailable"
      /\ Refused("rejected").status = "rejected"
  BY ResultForm
<1>6. r.status = "ok" => r.data = Hardened(Client.pin, p)
  BY DjangoClean
<1>7. django_verify(a.blob, p, w) = IF r.status # "ok" THEN r ELSE Done(<<a.blob[2] = r.data>>)
  BY DEF django_verify
<1>. HIDE DEF h, r
<1>8. r.status = "ok"
  BY <1>3, <1>4, <1>5, <1>7 DEF Outages
<1>9. (a.blob[2] = r.data) = TRUE
  BY <1>1, <1>2, <1>6, <1>8
<1>10. django_verify(a.blob, p, w) = Done(<<TRUE>>)
  BY <1>7, <1>8, <1>9
<1>11. Done(<<TRUE>>).status = "ok" /\ Done(<<TRUE>>).data = <<TRUE>>
  BY ResultForm
<1>12. \E x \in a.promises : x.credential = OfLogin(Client.pin, p) /\ x.data = <<TRUE>>
  <2>. DEFINE yes == <<TRUE>>
              o == OfLogin(Client.pin, p)
  <2>1. a.promises = {Promise(o, yes)}
    BY <1>1, <1>2
  <2>. HIDE DEF yes, o
  <2>2. Promise(o, yes).credential = o /\ Promise(o, yes).data = yes
    BY DEF Promise
  <2>3. \E x \in a.promises : x.credential = o /\ x.data = yes
    BY <2>1, <2>2
  <2>. QED  BY <2>3 DEF yes, o
<1>. QED  BY <1>10, <1>11, <1>12 DEF Pays

-----------------------------------------------------------------------------
(* There is always room to seal no data in the place of a hidden volume.   *)
LEMMA NothingFits ==
  ASSUME NEW z \in Nat, ~(z < MinSize)
  PROVE  claro_de_region(<<>>, FrameRoom("hidden", z)).status = "ok"
<1>. DEFINE room == FrameRoom("hidden", z)
            body == z - SaltLength
            half == body \div 2
<1>1. /\ SaltLength \in Nat /\ TagLength \in Nat /\ MinSize \in Nat
      /\ MinSize >= SaltLength + 2 * (TagLength + LengthPrefix)
      /\ padded_len(LengthPrefix) = LengthPrefix
  BY NegacionAssumption
<1>2. LengthPrefix \in Nat
  BY SealingAssumption
<1>3. body \in Int /\ 2 \in Nat \ {0}
  BY <1>1
<1>4. /\ half \in Int
      /\ body = 2 * half + (body % 2) /\ body % 2 \in 0..1
  <2>. HIDE DEF body
  <2>. QED  BY <1>3, Euclid
<1>5. room = (body - half) - TagLength
  BY DEF FrameRoom, RegionLength
<1>6. room \in Int /\ ~(LengthPrefix > room)
  <2>. DEFINE rest == body % 2
  <2>1. body = 2 * half + rest /\ rest \in 0..1 /\ half \in Int /\ body \in Int
    BY <1>3, <1>4
  <2>2. body >= 2 * (TagLength + LengthPrefix)
    BY <1>1, <1>2
  <2>. HIDE DEF rest, half, body, room
  <2>. QED  BY <1>1, <1>2, <1>5, <2>1, <2>2
<1>7. pad(<<>>).size = LengthPrefix
  <2>1. Len(<<>>) = 0 /\ LengthPrefix + 0 = LengthPrefix
    BY <1>2
  <2>. QED  BY <1>1, <2>1 DEF pad, Framed
<1>. DEFINE y == [pad(<<>>) EXCEPT !.size = room]
<1>8. claro_de_region(<<>>, room) = IF pad(<<>>).size > room THEN Refused("no room") ELSE Done(y)
  BY DEF claro_de_region
<1>. HIDE DEF room, y
<1>9. claro_de_region(<<>>, room) = Done(y)
  BY <1>6, <1>7, <1>8
<1>10. claro_de_region(<<>>, room).status = "ok"
  BY <1>9, ResultForm
<1>. QED  BY <1>10 DEF room

(* As much is computed for a container that is made with a hidden volume   *)
(* as for one without (the comment of crear, negacion.rs).                 *)
LEMMA WorkIsTheSame ==
  ASSUME NEW z \in AllSizes, NEW d, NEW p, NEW h, NEW c, NEW k, crear(z, d, p, h, c, k).status = "ok"
  PROVE  /\ WorkOfMaking(z, d, h) = Work(2, 2) /\ WorkOfMaking(z, d, NoVolume) = Work(2, 2)
         /\ \A i \in DOMAIN Frames(z, d, NoVolume) : Frames(z, d, NoVolume)[i].status = "ok"
<1>. DEFINE decoy == claro_de_region(d, FrameRoom("decoy", z))
            hidden(v) == claro_de_region(IF v = NoVolume THEN <<>> ELSE v[1], FrameRoom("hidden", z))
<1>1. ~(z < MinSize) /\ decoy.status = "ok" /\ (h # NoVolume => hidden(h).status = "ok")
  <2>1. /\ ~(z < MinSize) /\ Region("decoy", d, p, k, z, c).status = "ok"
        /\ h # NoVolume => Region("hidden", h[1], h[2], k, z, c).status = "ok"
    BY CrearForm
  <2>. QED  BY <2>1, RegionFits
<1>2. hidden(NoVolume).status = "ok"
  BY <1>1, SizesAreNumbers, NothingFits
<1>3. ASSUME NEW v \in {h, NoVolume}
      PROVE  /\ DOMAIN Frames(z, d, v) = {1, 2}
             /\ Frames(z, d, v)[1].status = "ok" /\ Frames(z, d, v)[2].status = "ok"
  <2>1. hidden(v).status = "ok"
    BY <1>1, <1>2
  <2>. QED  BY <1>1, <2>1, FramesForm
<1>4. ASSUME NEW v \in {h, NoVolume}
      PROVE  WorkOfMaking(z, d, v) = Work(2, 2)
  <2>. DEFINE frames == Frames(z, d, v)
              fit(i) == \A j \in 1..i : frames[j].status = "ok"
              A == {i \in DOMAIN frames : fit(i - 1)}
              B == {i \in DOMAIN frames : fit(i)}
  <2>1. DOMAIN frames = {1, 2} /\ \A j \in {1, 2} : frames[j].status = "ok"
    BY <1>3
  <2>2. \A i \in {1, 2} : 1..i \subseteq {1, 2} /\ 1..(i - 1) \subseteq {1, 2}
    OBVIOUS
  <2>. HIDE DEF frames
  <2>3. A = {1, 2} /\ B = {1, 2}
    BY <2>1, <2>2
  <2>4. Cardinality({1, 2}) = 2
    <3>1. IsFiniteSet({1}) /\ Cardinality({1}) = 1
      BY FS_Singleton
    <3>2. {1, 2} = {1} \cup {2} /\ 2 \notin {1}
      OBVIOUS
    <3>. QED  BY <3>1, <3>2, FS_AddElement
  <2>5. WorkOfMaking(z, d, v) = Work(Cardinality(A), Cardinality(B))
    BY DEF WorkOfMaking, frames
  <2>. HIDE DEF A, B
  <2>. QED  BY <2>3, <2>4, <2>5
<1>. QED  BY <1>3, <1>4

(* Without the passphrase of the hidden volume its region is like noise.   *)
LEMMA TwinForm ==
  ASSUME NEW z \in AllSizes, NEW d, NEW p, NEW h, NEW c, NEW k, crear(z, d, p, h, c, k).status = "ok"
  PROVE  crear(z, d, p, NoVolume, c, k).data =
           Container(k, z, Region("decoy", d, p, k, z, c).data, Noise)
<1>0. \A i \in DOMAIN Frames(z, d, NoVolume) : Frames(z, d, NoVolume)[i].status = "ok"
  BY WorkIsTheSame
<1>. DEFINE decoy == Region("decoy", d, p, k, z, c)
            hidden == Region("hidden", NoVolume[1], NoVolume[2], k, z, c)
            twin == crear(z, d, p, NoVolume, c, k)
            made == Done(Container(k, z, decoy.data, Noise))
            frames == Frames(z, d, NoVolume)
            short == \E i \in DOMAIN frames : frames[i].status # "ok"
<1>1. ~short /\ ~(z < MinSize) /\ d # <<>>
  <2>1. ~(z < MinSize) /\ d # <<>>
    BY CrearForm
  <2>. QED  BY <1>0, <2>1
<1>2. twin = IF d = <<>> THEN Refused("empty decoy")
             ELSE IF z < MinSize THEN Refused("size")
             ELSE IF short THEN Refused("no room")
             ELSE made
  BY DEF crear
<1>3. made.data = Container(k, z, decoy.data, Noise)
  BY ResultForm
<1>. HIDE DEF decoy, twin, made, short
<1>4. twin = made
  BY <1>1, <1>2
<1>. QED  BY <1>3, <1>4 DEF twin, decoy

LEMMA HiddenIsNoise ==
  ASSUME NEW k, NEW z, NEW region, NEW d \in Documents, NEW g \in Passphrases, NEW c,
         Region("hidden", d, g, k, z, c).status = "ok",
         NEW x \in Passphrases, Normal[x] # Normal[g], NEW q
  PROVE  intentar(Container(k, z, region, Region("hidden", d, g, k, z, c).data), x, q)
           = intentar(Container(k, z, region, Noise), x, q)
<1>. DEFINE a == Container(k, z, region, Region("hidden", d, g, k, z, c).data)
            b == Container(k, z, region, Noise)
<1>1. /\ a.salt = k /\ a.size = z /\ a["decoy"] = region
      /\ a["hidden"] = Region("hidden", d, g, k, z, c).data
      /\ b.salt = k /\ b.size = z /\ b["decoy"] = region /\ b["hidden"] = Noise
  BY DEF Container
<1>. HIDE DEF a, b
<1>2. Tries("hidden", a, x, q).status # "ok"
  BY <1>1, RegionOpens
<1>3. Tries("hidden", b, x, q).status # "ok"
  BY <1>1, NoiseGivesNothing DEF Tries
<1>4. Tries("decoy", a, x, q) = Tries("decoy", b, x, q)
  BY <1>1 DEF Tries
<1>5. intentar(a, x, q) = intentar(b, x, q)
  BY <1>2, <1>3, <1>4, IntentarForm
<1>. QED  BY <1>5 DEF a, b

LEMMA AbrirAlike ==
  ASSUME NEW a, NEW b, a.size = b.size, NEW x, \A q : intentar(a, x, q) = intentar(b, x, q), NEW h
  PROVE  abrir(a, x, h) = abrir(b, x, h)
<1>. DEFINE S == {i \in 1..Len(Tried(h)) : intentar(a, x, Tried(h)[i]).status = "ok"}
            T == {i \in 1..Len(Tried(h)) : intentar(b, x, Tried(h)[i]).status = "ok"}
            first == CHOOSE i \in S : \A j \in S : i <= j
            second == CHOOSE i \in T : \A j \in T : i <= j
            got == intentar(a, x, Tried(h)[first])
            gotten == intentar(b, x, Tried(h)[second])
            left == abrir(a, x, h)
            right == abrir(b, x, h)
<1>1. S = T
  OBVIOUS
<1>2. first = second
  BY <1>1
<1>3. got = gotten
  BY <1>2
<1>4. left = IF a.size < MinSize THEN Refused("short")
             ELSE IF S = {} THEN Refused("does not open") ELSE got
  BY DEF abrir
<1>5. right = IF b.size < MinSize THEN Refused("short")
              ELSE IF T = {} THEN Refused("does not open") ELSE gotten
  BY DEF abrir
<1>. HIDE DEF S, T, got, gotten, left, right
<1>6. left = right
  BY <1>1, <1>3, <1>4, <1>5
<1>. QED  BY <1>6 DEF left, right

LEMMA SeenAlike ==
  ASSUME NEW a, NEW b, a.size = b.size, a.salt = b.salt, NEW X,
         \A x \in X : \A q : intentar(a, x, q) = intentar(b, x, q)
  PROVE  Seen(a, X) = Seen(b, X)
<1>. DEFINE opens(c) == [x \in X |-> [h \in Hints |-> abrir(c, x, h)]]
            work(c) == [h \in Hints |-> {WorkOfOpening(c, x, h) : x \in Passphrases}]
<1>1. \A x \in X : \A h \in Hints : abrir(a, x, h) = abrir(b, x, h)
  BY AbrirAlike
<1>2. opens(a) = opens(b)
  <2>1. \A x \in X : [h \in Hints |-> abrir(a, x, h)] = [h \in Hints |-> abrir(b, x, h)]
    BY <1>1
  <2>. QED  BY <2>1
<1>3. work(a) = work(b)
  BY DEF WorkOfOpening
<1>4. /\ Seen(a, X) = [size |-> a.size, salt |-> a.salt, opens |-> opens(a), work |-> work(a)]
      /\ Seen(b, X) = [size |-> b.size, salt |-> b.salt, opens |-> opens(b), work |-> work(b)]
  BY DEF Seen
<1>. HIDE DEF opens, work
<1>. QED  BY <1>2, <1>3, <1>4

LEMMA TwinsAlike ==
  ASSUME NEW a, NEW k, MadeAsDeniable(a, k)
  PROVE  Seen(a.blob, Shown(a)) = Seen(a.twin, Shown(a)) /\ Cardinality(a.work) = 1
<1>1. PICK z \in AllSizes, d \in Documents, p \in Passphrases, h \in HiddenVolumes, j \in 1..Len(Profiles) :
        LET c == Profiles[j]
            r == crear(z, d, p, h, c, k)
        IN  /\ r.status = "ok" /\ a.blob = r.data
            /\ a.twin = crear(z, d, p, NoVolume, c, k).data
            /\ a.promises = {Promise(OfProfile(p, c), <<"decoy", d>>)}
                 \cup {Promise(OfProfile(w[2], c), <<"hidden", w[1]>>) : w \in {h} \ {NoVolume}}
            /\ a.work = {WorkOfMaking(z, d, h), WorkOfMaking(z, d, NoVolume)}
  BY DEF MadeAsDeniable
<1>. DEFINE c == Profiles[j]
            region == Region("decoy", d, p, k, z, c).data
<1>2. Cardinality(a.work) = 1
  <2>1. a.work = {Work(2, 2)}
    BY <1>1, WorkIsTheSame
  <2>. QED  BY <2>1, FS_Singleton
<1>3. a.twin = Container(k, z, region, Noise)
  BY <1>1, TwinForm
<1>4. CASE h = NoVolume
  <2>1. a.blob = Container(k, z, region, Noise)
    BY <1>1, <1>4, CrearForm
  <2>. QED  BY <1>2, <1>3, <2>1
<1>5. CASE h # NoVolume
  <2>. DEFINE g == h[2]
              hidden == Region("hidden", h[1], g, k, z, c)
  <2>1. h[1] \in Documents /\ g \in Passphrases
    BY <1>1, <1>5 DEF HiddenVolumes, Volume
  <2>2. /\ hidden.status = "ok" /\ Normal[p] # Normal[g]
        /\ a.blob = Container(k, z, region, hidden.data)
    BY <1>1, <1>5, CrearForm
  <2>3. a.promises = {Promise(OfProfile(p, c), <<"decoy", d>>), Promise(OfProfile(g, c), <<"hidden", h[1]>>)}
    BY <1>1, <1>5
  <2>4. OwnersOf(a, "decoy") = {Normal[p]} /\ OwnersOf(a, "hidden") = {Normal[g]}
    <3>. DEFINE x == Promise(OfProfile(p, c), <<"decoy", d>>)
                y == Promise(OfProfile(g, c), <<"hidden", h[1]>>)
    <3>1. /\ x.data[1] = "decoy" /\ x.credential[2] = Normal[p]
          /\ y.data[1] = "hidden" /\ y.credential[2] = Normal[g]
      BY DEF Promise, OfProfile
    <3>. HIDE DEF x, y, c, g
    <3>2. a.promises = {x, y}
      BY <2>3 DEF x, y
    <3>3. {r \in a.promises : r.data[1] = "decoy"} = {x}
      BY <3>1, <3>2
    <3>4. {r \in a.promises : r.data[1] = "hidden"} = {y}
      BY <3>1, <3>2
    <3>. QED  BY <3>1, <3>3, <3>4 DEF OwnersOf
  <2>5. \A x \in Shown(a) : x \in Passphrases /\ Normal[x] # Normal[g]
    BY <2>2, <2>4 DEF Shown
  <2>. HIDE DEF c, g, region
  <2>6. \A x \in Shown(a) : \A q : intentar(a.blob, x, q) = intentar(a.twin, x, q)
    BY <1>3, <2>1, <2>2, <2>5, HiddenIsNoise
  <2>7. a.blob.size = a.twin.size /\ a.blob.salt = a.twin.salt
    BY <1>3, <2>2 DEF Container
  <2>. QED  BY <1>2, <2>6, <2>7, SeenAlike
<1>. QED  BY <1>4, <1>5

(* Who does not know the passphrase of the hidden volume cannot tell a     *)
(* deniable container from one that has none.                              *)
THEOREM NoTraceOfTheHidden == Spec => []HiddenLeavesNoTrace
<1>1. IInv => HiddenLeavesNoTrace
  BY TwinsAlike DEF IInv, Twins, HiddenLeavesNoTrace
<1>. QED  BY <1>1, SpecIInv, PTL

-----------------------------------------------------------------------------
(* What nobody touched stays whole.                                        *)
LEMMA MadeAdded ==
  ASSUME OneFormat, Made, NEW a, shelf' = Append(shelf, a), Whole(a)
  PROVE  Made'
<1>1. /\ Len(shelf') = n /\ \A i \in 1..Len(shelf) : shelf'[i] = shelf[i]
      /\ shelf'[n] = a
  BY Added
<1>2. Len(shelf) \in Nat /\ n = Len(shelf) + 1
  BY ShelfType
<1>. SUFFICES ASSUME NEW i \in 1..n, shelf'[i].intact
     PROVE  Whole(shelf'[i])
  BY <1>1 DEF Made
<1>3. CASE i \in 1..Len(shelf)
  BY <1>1, <1>3 DEF Made
<1>4. CASE i = n
  BY <1>1, <1>4
<1>. QED  BY <1>2, <1>3, <1>4

LEMMA MadeStays ==
  ASSUME Made, shelf' = shelf
  PROVE  Made'
BY DEF Made

LEMMA MadeDamaged ==
  ASSUME IInv, Made, NEW i \in 1..Len(shelf), Damage(i)
  PROVE  Made'
<1>1. PICK b : shelf' = [shelf EXCEPT ![i].blob = b, ![i].intact = FALSE]
  BY DEF Damage
<1>2. /\ Len(shelf') = Len(shelf)
      /\ \A j \in 1..Len(shelf) : j # i => shelf'[j] = shelf[j]
      /\ shelf'[i] = [format |-> shelf[i].format, blob |-> b, promises |-> shelf[i].promises,
                      intact |-> FALSE, twin |-> shelf[i].twin, work |-> shelf[i].work]
  BY <1>1, Altered DEF IInv
<1>3. ~shelf'[i].intact
  BY <1>2
<1>. SUFFICES ASSUME NEW j \in 1..Len(shelf), shelf'[j].intact
     PROVE  Whole(shelf'[j])
  BY <1>2 DEF Made
<1>4. j # i
  BY <1>3
<1>5. shelf'[j] = shelf[j]
  BY <1>2, <1>4
<1>. QED  BY <1>5 DEF Made

LEMMA ArtifactForm ==
  ASSUME NEW f, NEW b, NEW o
  PROVE  LET a == Artifact(f, b, o)
         IN  a.format = f /\ a.blob = b /\ a.promises = o
BY DEF Artifact

LEMMA MadeKept ==
  ASSUME IInv, Made, NEW f, NEW b, NEW o, Keep(f, b, o), Whole(Artifact(f, b, o))
  PROVE  Made'
<1>. DEFINE a == Artifact(f, b, o)
<1>1. shelf' = Append(shelf, a) /\ OneFormat /\ Whole(a)
  BY DEF Keep, IInv
<1>. HIDE DEF a
<1>. QED  BY <1>1, MadeAdded

LEMMA EncodeMakes ==
  ASSUME IInv, Made, NEW s \in Suites, NEW d \in Documents, NEW p \in Passphrases, NEW e, NEW c, NEW f,
         Encode(s, d, p, e, c, f)
  PROVE  Made'
<1>. DEFINE b == encode_to_blob(s, d, p, f, e, c, n)
            o == {Promise(OfSecret(s, p, e, f), d)}
            a == Artifact("sealed", b, o)
<1>1. Keep("sealed", b, o)
  BY DEF Encode
<1>2. a.format = "sealed" /\ a.blob = b /\ a.promises = o
  BY ArtifactForm
<1>3. MadeAsSealed(a)
  <2>. HIDE DEF a
  <2>. QED  BY <1>2 DEF MadeAsSealed
<1>4. Whole(a)
  BY <1>2, <1>3 DEF Whole
<1>. HIDE DEF b, o
<1>. QED  BY <1>1, <1>4, MadeKept

LEMMA EncodeOnlineMakes ==
  ASSUME IInv, Made, NEW d \in Documents, NEW p \in Passphrases, NEW e, NEW c, NEW f,
         NEW pin \in Pins, NEW w \in Draws, EncodeOnline(d, p, e, c, f, pin, w)
  PROVE  Made'
<1>. DEFINE r == harden(p, service, pin, w)
<1>0. n = 1 /\ service \in Services /\ "quipu" \in Suites
  BY DEF EncodeOnline, IInv, TypeOK, Suites
<1>1. CASE r.status # "ok"
  <2>1. shelf' = shelf
    BY <1>1 DEF EncodeOnline, Refuse
  <2>. QED  BY <2>1, MadeStays
<1>2. CASE r.status = "ok"
  <2>. DEFINE pepper == e \o <<Hardened(pin, p)>>
              b == encode_to_blob("quipu", d, p, f, pepper, c, n)
              o == {Promise(OfSecret("quipu", p, pepper, f), d)}
              a == Artifact("online", b, o)
  <2>1. r.data = Hardened(pin, p)
    BY <1>0, <1>2, HardenSound
  <2>2. Keep("online", b, o)
    BY <1>2, <2>1 DEF EncodeOnline
  <2>3. a.format = "online" /\ a.blob = b /\ a.promises = o
    BY ArtifactForm
  <2>4. MadeAsSealed(a)
    <3>. HIDE DEF a, pepper
    <3>. QED  BY <1>0, <2>3 DEF MadeAsSealed
  <2>5. Whole(a)
    BY <2>3, <2>4 DEF Whole
  <2>. HIDE DEF b, o
  <2>. QED  BY <2>2, <2>5, MadeKept
<1>. QED  BY <1>1, <1>2

LEMMA RecipientMakes ==
  ASSUME IInv, Made, NEW d \in Documents, NEW r, EncodeToRecipient(d, r) \/ CifrarPara(d, r)
  PROVE  Made'
<1>1. CASE EncodeToRecipient(d, r)
  <2>. DEFINE b == encode_to_recipient(d, r, n)
              o == {Promise(OfRecipient(r), d)}
              a == Artifact("recipient", b, o)
  <2>1. Keep("recipient", b, o)
    BY <1>1 DEF EncodeToRecipient
  <2>2. a.format = "recipient" /\ a.blob = b /\ a.promises = o
    BY ArtifactForm
  <2>3. MadeForRecipient(a)
    <3>. HIDE DEF a
    <3>. QED  BY <2>2 DEF MadeForRecipient
  <2>4. Whole(a)
    BY <2>2, <2>3 DEF Whole
  <2>. HIDE DEF b, o
  <2>. QED  BY <2>1, <2>4, MadeKept
<1>2. CASE CifrarPara(d, r)
  <2>. DEFINE b == cifrar_para(d, r, n)
              o == {Promise(OfRecipient(r.ml), d)}
              a == Artifact("cnsa", b, o)
  <2>1. Keep("cnsa", b, o)
    BY <1>2 DEF CifrarPara
  <2>2. a.format = "cnsa" /\ a.blob = b /\ a.promises = o
    BY ArtifactForm
  <2>3. MadeAsCnsa(a)
    <3>. HIDE DEF a
    <3>. QED  BY <2>2 DEF MadeAsCnsa
  <2>4. Whole(a)
    BY <2>2, <2>3 DEF Whole
  <2>. HIDE DEF b, o
  <2>. QED  BY <2>1, <2>4, MadeKept
<1>. QED  BY <1>1, <1>2

(* Only who has every half of a key promises something of the whole key.   *)
LEMMA SignedFor ==
  ASSUME NEW v, NEW halves, NEW d, NEW x \in SignedBy(v, halves, d), NEW w,
         x.credential = OfSigner(w)
  PROVE  halves = DOMAIN v /\ w = v /\ x.data = d
<1>1. CASE x \in {Promise(OfHalf(h, v), d) : h \in halves}
  <2>1. PICK h \in halves : x = Promise(OfHalf(h, v), d)
    BY <1>1
  <2>2. OfHalf(h, v) = OfSigner(w)
    BY <2>1 DEF Promise
  <2>3. OfHalf(h, v)[1] = "half" /\ OfSigner(w)[1] = "signer"
    BY DEF OfHalf, OfSigner
  <2>. QED  BY <2>2, <2>3
<1>2. CASE x \in {Promise(OfSigner(k), d) : k \in {u \in {v} : halves = DOMAIN v}}
  <2>1. halves = DOMAIN v /\ x = Promise(OfSigner(v), d)
    BY <1>2
  <2>2. OfSigner(v) = OfSigner(w) /\ x.data = d
    BY <2>1 DEF Promise
  <2>. QED  BY <2>1, <2>2 DEF OfSigner
<1>. QED  BY <1>1, <1>2 DEF SignedBy

LEMMA SignedMakes ==
  ASSUME IInv, Made, NEW d \in Documents, NEW v, EncodeSigned(d, v)
  PROVE  Made'
<1>. DEFINE g == sign(v, d)
            b == IF DOMAIN v = {"ml"} THEN firmar_aparte(v, d) ELSE armar_firmado(Magic(v), d, g)
            o == SignedBy(v, DOMAIN v, d)
            a == Artifact("signed", b, o)
<1>1. Keep("signed", b, o)
  BY DEF EncodeSigned
<1>2. a.format = "signed" /\ a.blob = b /\ a.promises = o
  BY ArtifactForm
<1>3. b = IF DOMAIN v = {"ml"} THEN Blob("quipu-cnsa", Blank, <<"signed", d, g>>)
          ELSE armar_firmado(Magic(v), d, g)
  BY DEF firmar_aparte
<1>4. \A x \in o : \A w : x.credential = OfSigner(w) => w = v /\ x.data = d /\ g = sign(v, d)
  BY SignedFor
<1>5. MadeAsSigned(a)
  <2>. HIDE DEF a, b, o, g
  <2>. QED  BY <1>2, <1>3, <1>4 DEF MadeAsSigned
<1>6. Whole(a)
  BY <1>2, <1>5 DEF Whole
<1>. HIDE DEF b, o
<1>. QED  BY <1>1, <1>6, MadeKept

(* A custodian goes by a verifying key of two halves.                      *)
LEMMA CustodianHalves ==
  ASSUME NEW x \in Custodians, x.status = "ok"
  PROVE  DOMAIN x.data.verificacion = HybridHalves
<1>1. \A s : Refused(s).status = s
  BY ResultForm
<1>2. \A ed, ml : DOMAIN VerifyingKey(ed, ml) = HybridHalves
  BY DEF VerifyingKey, HybridHalves
<1>3. \A ed, ml, v, f : Custodian(ed, ml, v, f).verificacion = v
  BY DEF Custodian
<1>4. ASSUME NEW t, NEW e, NEW m, nuevo(t, e, m).status = "ok"
      PROVE  DOMAIN nuevo(t, e, m).data.verificacion = HybridHalves
  <2>. DEFINE ed == leer_ed25519_publica(t, e[2])
              ml == leer_mldsa_publica(t, m[2])
              c == Custodian(e[1], m[1], VerifyingKey(ed.data.key, ml.data.key), t.fault)
  <2>1. nuevo(t, e, m) = IF ed.status # "ok" THEN ed
                         ELSE IF ml.status # "ok" THEN ml
                         ELSE IF ed.data.form = "no point" THEN Refused("refused")
                         ELSE Done(c)
    BY DEF nuevo, Then
  <2>. HIDE DEF ed, ml
  <2>2. nuevo(t, e, m) = Done(c)
    BY <1>1, <1>4, <2>1
  <2>3. c.verificacion = VerifyingKey(ed.data.key, ml.data.key)
    BY <1>3
  <2>. HIDE DEF c
  <2>4. nuevo(t, e, m).data = c
    BY <2>2, ResultForm
  <2>. QED  BY <1>2, <2>3, <2>4
<1>5. ASSUME NEW t, NEW e, NEW m, por_etiqueta(t, e, m).status = "ok"
      PROVE  DOMAIN por_etiqueta(t, e, m).data.verificacion = HybridHalves
  <2>. DEFINE ed == buscar_par(t, 1, e)
              ml == buscar_par(t, 3, m)
  <2>1. por_etiqueta(t, e, m) = IF ed.status # "ok" THEN ed
                                ELSE IF ml.status # "ok" THEN ml ELSE nuevo(t, ed.data, ml.data)
    BY DEF por_etiqueta, Then
  <2>. HIDE DEF ed, ml
  <2>2. por_etiqueta(t, e, m) = nuevo(t, ed.data, ml.data)
    BY <1>5, <2>1
  <2>. QED  BY <1>4, <1>5, <2>2
<1>6. CASE x \in {por_etiqueta(t, "ed", "ml") : t \in Tokens}
  BY <1>5, <1>6
<1>7. CASE x \in {Done(EnMemoria(v)) : v \in {w \in Signers : DOMAIN w = HybridHalves}}
  <2>1. PICK v \in Signers : DOMAIN v = HybridHalves /\ x = Done(EnMemoria(v))
    BY <1>7
  <2>2. x.data = EnMemoria(v)
    BY <2>1, ResultForm
  <2>3. EnMemoria(v).verificacion = v
    BY DEF EnMemoria, Custodian
  <2>. QED  BY <2>1, <2>2, <2>3
<1>. QED  BY <1>6, <1>7 DEF Custodians

LEMMA CustodyMakes ==
  ASSUME IInv, Made, NEW d \in Documents, NEW x \in Custodians, EncodeSignedConCustodio(d, x)
  PROVE  Made'
<1>. DEFINE r == IF x.status = "ok" THEN firmar(x.data, d) ELSE x
            c == x.data
            v == c.verificacion
            g == r.data
            b == armar_firmado("QSG1", d, g)
            o == SignedBy(v, SoundHalves(c), d)
            a == Artifact("signed", b, o)
<1>1. IF r.status # "ok" THEN Refuse(0, {}, r) ELSE Keep("signed", b, o)
  BY DEF EncodeSignedConCustodio, Then
<1>2. CASE r.status # "ok"
  <2>1. shelf' = shelf
    BY <1>1, <1>2 DEF Refuse
  <2>. QED  BY <2>1, MadeStays
<1>3. CASE r.status = "ok"
  <2>1. Keep("signed", b, o)
    BY <1>1, <1>3
  <2>2. x.status = "ok" /\ r = firmar(c, d)
    BY <1>3
  <2>3. DOMAIN v = HybridHalves
    BY <2>2, CustodianHalves
  <2>4. g = [ed |-> HalfSignature(c["ed"].key, build_preimage(v, d)),
             ml |-> HalfSignature(c["ml"].key, build_preimage(v, d))]
    BY <1>3, <2>2, FirmarSigns
  <2>. HIDE DEF r, c, g
  <2>5. DOMAIN v # {"ml"} /\ Magic(v) = "QSG1"
    BY <2>3 DEF Magic, HybridHalves
  <2>6. ASSUME SoundHalves(c) = DOMAIN v
        PROVE  g = sign(v, d)
    <3>1. c["ed"].key = v["ed"] /\ c["ml"].key = v["ml"]
      BY <2>3, <2>6 DEF SoundHalves, HybridHalves
    <3>2. sign(v, d) = [h \in HybridHalves |-> HalfSignature(v[h], build_preimage(v, d))]
      BY <2>3 DEF sign
    <3>. QED  BY <2>4, <3>1, <3>2 DEF HybridHalves
  <2>7. a.format = "signed" /\ a.blob = b /\ a.promises = o
    BY ArtifactForm
  <2>8. b = IF DOMAIN v = {"ml"} THEN Blob("quipu-cnsa", Blank, <<"signed", d, g>>)
            ELSE armar_firmado(Magic(v), d, g)
    BY <2>5
  <2>9. \A y \in o : \A w : y.credential = OfSigner(w) => w = v /\ y.data = d /\ g = sign(v, d)
    BY <2>6, SignedFor
  <2>10. MadeAsSigned(a)
    <3>. HIDE DEF a, b, o, v
    <3>. QED  BY <2>7, <2>8, <2>9 DEF MadeAsSigned
  <2>11. Whole(a)
    BY <2>7, <2>10 DEF Whole
  <2>. HIDE DEF b, o
  <2>. QED  BY <2>1, <2>11, MadeKept
<1>. QED  BY <1>2, <1>3

LEMMA HoneyMakes ==
  ASSUME IInv, Made, NEW t \in Secrets, NEW p \in Passphrases, NEW c, HoneyEncrypt(t, p, c)
  PROVE  Made'
<1>. DEFINE r == honey_encrypt(t, 10, p, <<>>, c, n)
            b == r.data
            o == {Promise(OfHoney(p), t)}
            a == Artifact("honey", b, o)
<1>1. IF r.status # "ok" THEN Refuse(0, {}, r) ELSE Keep("honey", b, o)
  BY DEF HoneyEncrypt
<1>2. CASE r.status # "ok"
  <2>1. shelf' = shelf
    BY <1>1, <1>2 DEF Refuse
  <2>. QED  BY <2>1, MadeStays
<1>3. CASE r.status = "ok"
  <2>1. Keep("honey", b, o) /\ n \in Nat
    BY <1>1, <1>3, ShelfType DEF IInv
  <2>2. a.format = "honey" /\ a.blob = b /\ a.promises = o
    BY ArtifactForm
  <2>3. MadeAsHoney(a)
    <3>. HIDE DEF a
    <3>. QED  BY <1>3, <2>1, <2>2 DEF MadeAsHoney
  <2>4. Whole(a)
    BY <2>2, <2>3 DEF Whole
  <2>. HIDE DEF b, o
  <2>. QED  BY <2>1, <2>4, MadeKept
<1>. QED  BY <1>2, <1>3

LEMMA OthersMake ==
  ASSUME IInv, Made,
         \/ \E z, d, p, h, c : Crear(z, d, p, h, c)
         \/ \E p, w : DjangoEncode(p, w)
  PROVE  Made'
<1>1. ASSUME NEW z, NEW d, NEW p, NEW h, NEW c, Crear(z, d, p, h, c)
      PROVE  Made'
  <2>. DEFINE r == crear(z, d, p, h, c, n)
              o == {Promise(OfProfile(p, c), <<"decoy", d>>)}
                     \cup {Promise(OfProfile(v[2], c), <<"hidden", v[1]>>) : v \in {h} \ {NoVolume}}
              t == crear(z, d, p, NoVolume, c, n).data
              w == {WorkOfMaking(z, d, h), WorkOfMaking(z, d, NoVolume)}
              x == Artifact("deniable", r.data, o)
              a == [x EXCEPT !.twin = t, !.work = w]
  <2>1. shelf' = shelf \/ shelf' = Append(shelf, a)
    BY <1>1 DEF Crear, Refuse
  <2>2. a.format = "deniable"
    <3>1. IsArtifact(x) /\ x.format = "deniable"
      BY DEF Artifact, IsArtifact
    <3>. HIDE DEF x, t, w
    <3>2. a = [format |-> x.format, blob |-> x.blob, promises |-> x.promises,
               intact |-> x.intact, twin |-> t, work |-> w]
      BY <3>1, Retouched
    <3>. QED  BY <3>1, <3>2
  <2>3. Whole(a) /\ OneFormat
    BY <2>2 DEF Whole, IInv
  <2>. HIDE DEF a
  <2>. QED  BY <2>1, <2>3, MadeAdded, MadeStays
<1>2. ASSUME NEW p, NEW w, DjangoEncode(p, w)
      PROVE  Made'
  <2>. DEFINE b == <<n, django_harden(p, w).data>>
              o == {Promise(OfLogin(Client.pin, p), <<TRUE>>)}
  <2>1. shelf' = shelf \/ Keep("login", b, o)
    BY <1>2 DEF DjangoEncode, Refuse
  <2>2. Whole(Artifact("login", b, o))
    BY ArtifactForm DEF Whole
  <2>. HIDE DEF b, o
  <2>. QED  BY <2>1, <2>2, MadeKept, MadeStays
<1>. QED  BY <1>1, <1>2

LEMMA NextMade == IInv /\ Made /\ [Next]_vars => Made'
<1>. SUFFICES ASSUME IInv, Made, [Next]_vars PROVE Made'
  OBVIOUS
<1>1. CASE Make
  <2>1. CASE \E d \in Documents, p \in Passphrases, e \in Peppers, c \in Costs, f \in Dictionaries :
               \/ \E s \in Suites : Encode(s, d, p, e, c, f)
               \/ \E k \in Pins, w \in Draws : EncodeOnline(d, p, e, c, f, k, w)
    BY <2>1, EncodeMakes, EncodeOnlineMakes
  <2>2. CASE \E d \in Documents, r \in Recipients : EncodeToRecipient(d, r) \/ CifrarPara(d, r)
    BY <2>2, RecipientMakes
  <2>3. CASE \E d \in Documents :
               \/ \E v \in Signers : EncodeSigned(d, v)
               \/ \E c \in Custodians : EncodeSignedConCustodio(d, c)
    BY <2>3, SignedMakes, CustodyMakes
  <2>4. CASE \E t \in Secrets, p \in Passphrases, c \in Costs : HoneyEncrypt(t, p, c)
    BY <2>4, HoneyMakes
  <2>5. CASE \/ \E z \in AllSizes, d \in Documents, p \in Passphrases, h \in HiddenVolumes :
                  \E k \in 1..Len(Profiles) : Crear(z, d, p, h, Profiles[k])
             \/ \E p \in Passphrases, w \in Draws : DjangoEncode(p, w)
    BY <2>5, OthersMake
  <2>. QED  BY <1>1, <2>1, <2>2, <2>3, <2>4, <2>5 DEF Make, AllSizes
<1>2. CASE \E i \in 1..Len(shelf) : Damage(i)
  BY <1>2, MadeDamaged
<1>3. CASE Open
  BY <1>3, OpenKeeps, MadeStays
<1>4. CASE shelf' = shelf
  BY <1>4, MadeStays
<1>5. \/ Make \/ Open \/ (\E i \in 1..Len(shelf) : Damage(i))
      \/ shelf' = shelf
  BY DEF Next, Call, Answer, vars, ServiceBecomes, Configure, reset_client
<1>. QED  BY <1>1, <1>2, <1>3, <1>4, <1>5

-----------------------------------------------------------------------------
(* What is answered of an artifact that nobody touched.                    *)
LEMMA PaidAnswer ==
  ASSUME NEW i, NEW tried, NEW r, NEW w, opened' = Opening(i, tried, r, w), shelf' = shelf,
         shelf[i].intact /\ Owes(shelf[i], tried) /\ r.status \notin Outages /\ Readable(i) =>
           Pays(shelf[i], tried, r)
  PROVE  WhatIsSaneOpens'
<1>1. opened'.item = i /\ opened'.tried = tried /\ opened'.status = r.status /\ opened'.data = r.data
  BY DEF Opening
<1>2. Owed' = {x \in shelf[i].promises : x.credential \in tried}
  BY <1>1 DEF Owed
<1>. SUFFICES ASSUME Answered', Readable(opened.item)'
     PROVE  Paid'
  BY DEF WhatIsSaneOpens
<1>3. shelf[i].intact /\ Owed' # {} /\ r.status \notin Outages
  BY <1>1 DEF Answered
<1>4. Readable(i)
  BY <1>1 DEF Readable
<1>5. Owes(shelf[i], tried)
  BY <1>2, <1>3 DEF Owes
<1>6. Pays(shelf[i], tried, r)
  BY <1>3, <1>4, <1>5
<1>7. r.status = "ok" /\ \E x \in shelf[i].promises : x.credential \in tried /\ r.data = x.data
  BY <1>6 DEF Pays
<1>8. \E x \in Owed' : r.data = x.data
  BY <1>2, <1>7
<1>. QED  BY <1>1, <1>7, <1>8 DEF Paid

LEMMA HoneySuite ==
  ASSUME NEW a, MadeAsHoney(a)
  PROVE  a.blob.suite = "quipu"
<1>1. PICK t \in Secrets, p \in Passphrases, k \in Nat : \E c :
        LET r == honey_encrypt(t, 10, p, <<>>, c, k)
        IN  r.status = "ok" /\ a.blob = r.data
  BY DEF MadeAsHoney
<1>2. PICK c : LET r == honey_encrypt(t, 10, p, <<>>, c, k)
               IN  r.status = "ok" /\ a.blob = r.data
  BY <1>1
<1>. DEFINE ks == keystream_digits(p, k, <<>>, c, 10, Len(t))
            h == [Blank EXCEPT !.magic = "QHNY", !.salt = k, !.params = c,
                               !.alphabet = 10, !.length = Len(t)]
            body == <<"tokens", [i \in 1..Len(t) |-> (t[i] + ks[i]) % 10]>>
<1>3. a.blob = Blob("quipu", h, body)
  BY <1>2, ResultForm DEF honey_encrypt
<1>. HIDE DEF h, body
<1>. QED  BY <1>3 DEF Blob

LEMMA OpenPaid ==
  ASSUME IInv, Made, Open
  PROVE  WhatIsSaneOpens'
<1>1. PICK i \in 1..Len(shelf) :
        \/ \E p \in Passphrases, e \in Peppers, f \in Dictionaries :
             \/ \E s \in Suites : Decode(i, s, p, e, f)
             \/ \E k \in Pins, w \in Draws : DecodeOnline(i, p, e, f, k, w)
        \/ \E r \in Recipients : DecodeAsRecipient(i, r) \/ Descifrar(i, r)
        \/ \E v \in Signers : DecodeVerified(i, v)
        \/ \E p \in Passphrases : HoneyDecrypt(i, p)
        \/ \E p \in Passphrases, h \in Hints : Abrir(i, p, h)
        \/ \E p \in Passphrases, w \in Draws : DjangoVerify(i, p, w)
  BY DEF Open
<1>. DEFINE a == shelf[i]
<1>2. ASSUME NEW tried, NEW r, Refuse(i, tried, r),
             a.intact /\ Owes(a, tried) /\ r.status \notin Outages /\ Readable(i) => Pays(a, tried, r)
      PROVE  WhatIsSaneOpens'
  <2>1. opened' = Opening(i, tried, r, NoClient) /\ shelf' = shelf
    BY <1>2 DEF Refuse
  <2>. QED  BY <1>2, <2>1, PaidAnswer
<1>3. a.intact => Whole(a)
  BY DEF Made
<1>4. ASSUME NEW p \in Passphrases, NEW e \in Peppers, NEW f \in Dictionaries, NEW s \in Suites,
             Decode(i, s, p, e, f)
      PROVE  WhatIsSaneOpens'
  <2>. DEFINE r == decode_from_blob(s, a.blob, p, f, e)
              tried == {OfSecret(s, p, e, f)}
  <2>1. a.format \in {"sealed", "online"} /\ Refuse(i, tried, r)
    BY <1>4 DEF Decode
  <2>2. ASSUME a.intact, Owes(a, tried), Readable(i)
        PROVE  Pays(a, tried, r)
    <3>1. MadeAsSealed(a)
      BY <1>3, <2>1, <2>2 DEF Whole
    <3>2. is_sane(a.blob.suite, a.blob.header.params)
      BY <2>1, <2>2 DEF Readable
    <3>. HIDE DEF a
    <3>. QED  BY <2>2, <3>1, <3>2, SealedPays
  <2>. HIDE DEF r, tried, a
  <2>. QED  BY <1>2, <2>1, <2>2
<1>5. ASSUME NEW p \in Passphrases, NEW e \in Peppers, NEW f \in Dictionaries, NEW k \in Pins,
             NEW w \in Draws, DecodeOnline(i, p, e, f, k, w)
      PROVE  WhatIsSaneOpens'
  <2>. DEFINE h == harden(p, service, k, w)
              pepper == e \o <<Hardened(k, p)>>
              tried == {OfSecret("quipu", p, pepper, f)}
              r == IF h.status # "ok" THEN h
                   ELSE decode_from_blob("quipu", a.blob, p, f, e \o <<h.data>>)
  <2>1. a.format = "online" /\ Refuse(i, tried, r)
    BY <1>5 DEF DecodeOnline
  <2>2. ASSUME a.intact, Owes(a, tried), r.status \notin Outages, Readable(i)
        PROVE  Pays(a, tried, r)
    <3>1. h.status \in {"ok", "network", "denied", "verification"}
      BY HardenErrors
    <3>2. h.status = "ok"
      BY <2>2, <3>1 DEF Outages
    <3>3. service \in Services
      BY DEF IInv, TypeOK
    <3>4. h.data = Hardened(k, p)
      BY <3>2, <3>3, HardenSound
    <3>5. r = decode_from_blob("quipu", a.blob, p, f, pepper)
      BY <3>2, <3>4
    <3>6. MadeAsSealed(a)
      BY <1>3, <2>1, <2>2 DEF Whole
    <3>7. is_sane(a.blob.suite, a.blob.header.params)
      BY <2>1, <2>2 DEF Readable
    <3>. HIDE DEF a, r, pepper
    <3>8. Pays(a, {OfSecret("quipu", p, pepper, f)}, decode_from_blob("quipu", a.blob, p, f, pepper))
      BY <2>2, <3>6, <3>7, SealedPays
    <3>. QED  BY <3>5, <3>8
  <2>. HIDE DEF r, tried, a
  <2>. QED  BY <1>2, <2>1, <2>2
<1>6. ASSUME NEW x \in Recipients, DecodeAsRecipient(i, x)
      PROVE  WhatIsSaneOpens'
  <2>. DEFINE r == decode_as_recipient(a.blob, x)
              tried == {OfRecipient(x)}
  <2>1. a.format = "recipient" /\ Refuse(i, tried, r)
    BY <1>6 DEF DecodeAsRecipient
  <2>2. ASSUME a.intact, Owes(a, tried)
        PROVE  Pays(a, tried, r)
    BY <1>3, <2>1, <2>2, RecipientPays DEF Whole
  <2>. HIDE DEF r, tried, a
  <2>. QED  BY <1>2, <2>1, <2>2
<1>7. ASSUME NEW x \in Recipients, Descifrar(i, x)
      PROVE  WhatIsSaneOpens'
  <2>. DEFINE r == descifrar(a.blob, x)
              tried == {OfRecipient(x.ml)}
  <2>1. a.format = "cnsa" /\ Refuse(i, tried, r)
    BY <1>7 DEF Descifrar
  <2>2. ASSUME a.intact, Owes(a, tried)
        PROVE  Pays(a, tried, r)
    BY <1>3, <2>1, <2>2, CnsaPays DEF Whole
  <2>. HIDE DEF r, tried, a
  <2>. QED  BY <1>2, <2>1, <2>2
<1>8. ASSUME NEW v \in Signers, DecodeVerified(i, v)
      PROVE  WhatIsSaneOpens'
  <2>. DEFINE r == IF DOMAIN v = {"ml"} THEN verificar(a.blob, v)
                   ELSE decode_verified(Magic(v), a.blob, v)
              tried == {OfSigner(v)}
  <2>1. a.format = "signed" /\ Refuse(i, tried, r)
    BY <1>8 DEF DecodeVerified
  <2>2. ASSUME a.intact, Owes(a, tried), Readable(i)
        PROVE  Pays(a, tried, r)
    <3>1. MadeAsSigned(a)
      BY <1>3, <2>1, <2>2 DEF Whole
    <3>2. a.blob.suite = "quipu" => Len(a.blob.body[2]) < LengthWrap
      BY <2>1, <2>2 DEF Readable
    <3>. HIDE DEF a
    <3>. QED  BY <2>2, <3>1, <3>2, SignedPays
  <2>. HIDE DEF r, tried, a
  <2>. QED  BY <1>2, <2>1, <2>2
<1>9. ASSUME NEW p \in Passphrases, HoneyDecrypt(i, p)
      PROVE  WhatIsSaneOpens'
  <2>. DEFINE r == honey_decrypt(a.blob, p, <<>>)
              tried == {OfHoney(p)}
  <2>1. a.format = "honey" /\ Refuse(i, tried, r)
    BY <1>9 DEF HoneyDecrypt
  <2>2. ASSUME a.intact, Owes(a, tried), Readable(i)
        PROVE  Pays(a, tried, r)
    <3>1. MadeAsHoney(a)
      BY <1>3, <2>1, <2>2 DEF Whole
    <3>2. is_sane(a.blob.suite, a.blob.header.params)
      BY <2>1, <2>2 DEF Readable
    <3>. HIDE DEF a
    <3>3. is_sane("quipu", a.blob.header.params)
      BY <3>1, <3>2, HoneySuite
    <3>. QED  BY <2>2, <3>1, <3>3, HoneyPays
  <2>. HIDE DEF r, tried, a
  <2>. QED  BY <1>2, <2>1, <2>2
<1>10. ASSUME NEW p \in Passphrases, NEW h \in Hints, Abrir(i, p, h)
      PROVE  WhatIsSaneOpens'
  <2>. DEFINE r == abrir(a.blob, p, h)
              w == WorkOfOpening(a.blob, p, h)
              tried == {OfProfile(p, Tried(h)[j]) : j \in 1..Len(Tried(h))}
  <2>1. a.format = "deniable" /\ opened' = Opening(i, tried, r, w) /\ shelf' = shelf
    BY <1>10 DEF Abrir
  <2>2. ASSUME a.intact, Owes(a, tried)
        PROVE  Pays(a, tried, r)
    <3>1. MadeAsDeniable(a, i)
      BY <2>1, <2>2 DEF IInv, Twins
    <3>. HIDE DEF a
    <3>. QED  BY <2>2, <3>1, DeniablePays
  <2>. HIDE DEF r, w, tried
  <2>. QED  BY <2>1, <2>2, PaidAnswer
<1>11. ASSUME NEW p \in Passphrases, NEW w \in Draws, DjangoVerify(i, p, w)
      PROVE  WhatIsSaneOpens'
  <2>. DEFINE r == django_verify(a.blob, p, w)
              tried == {OfLogin(Client.pin, p)}
  <2>1. a.format = "login" /\ Refuse(i, tried, r)
    BY <1>11 DEF DjangoVerify
  <2>2. ASSUME Owes(a, tried), r.status \notin Outages
        PROVE  Pays(a, tried, r)
    <3>1. MadeAsLogin(a)
      BY <2>1 DEF IInv, Logins
    <3>. HIDE DEF a
    <3>. QED  BY <2>2, <3>1, LoginPays
  <2>. HIDE DEF r, tried, a
  <2>. QED  BY <1>2, <2>1, <2>2
<1>. QED  BY <1>1, <1>4, <1>5, <1>6, <1>7, <1>8, <1>9, <1>10, <1>11

(* Whatever was made with costs that the readers take, and signed of a     *)
(* message whose length fits, opens to what it was made of for whoever has *)
(* the right credentials, unless the service itself failed: no data is     *)
(* orphaned.                                                               *)
THEOREM NothingOrphaned == Spec => []WhatIsSaneOpens
<1>1. Init => Made
  BY DEF Init, Made
<1>2. Spec => []Made
  BY <1>1, NextMade, SpecIInv, PTL DEF Spec
<1>3. Init => WhatIsSaneOpens
  BY NotOpenedForm DEF Init, WhatIsSaneOpens, Answered, HasOpened
<1>4. IInv /\ Made /\ WhatIsSaneOpens /\ [Next]_vars => WhatIsSaneOpens'
  <2>. SUFFICES ASSUME IInv, Made, WhatIsSaneOpens, [Next]_vars PROVE WhatIsSaneOpens'
    OBVIOUS
  <2>1. CASE UNCHANGED vars
    BY <2>1 DEF vars, WhatIsSaneOpens, Answered, HasOpened, Owed, Readable, Paid
  <2>2. CASE opened'.item = 0
    BY <2>2 DEF WhatIsSaneOpens, Answered, HasOpened
  <2>3. CASE Open
    BY <2>3, OpenPaid
  <2>. QED  BY <2>1, <2>2, <2>3, NextOpens
<1>. QED  BY <1>2, <1>3, <1>4, SpecIInv, PTL DEF Spec
=============================================================================
