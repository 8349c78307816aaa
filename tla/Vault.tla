------------------------------- MODULE Vault -------------------------------
(***************************************************************************)
(* Everything the library seals, kept somewhere for years: containers of a *)
(* passphrase, with and without the OPRF service, what is sealed for a     *)
(* recipient, what is signed, honey, deniable containers and the password  *)
(* records of a Django site. Things get damaged and mixed up, passphrases  *)
(* are typed on other keyboards, the service goes down, comes back with    *)
(* another key, and its API keys are changed.                              *)
(***************************************************************************)
EXTENDS Signer, Honey, Negacion

CONSTANTS
  Documents, Peppers, Costs, Dictionaries,
  Recipients,
  Signers,       \* verifying keys, of one half, two and three
  Tokens,        \* that hold keys labelled "ed" and "ml"
  Secrets,       \* what honey is made of, in tokens
  Sizes,         \* of deniable containers
  Seeds,         \* of OPRF services
  Draws,         \* for exchanges with them
  ApiKeys,
  MaxMade, MaxDamage

ASSUME VaultAssumption ==
  /\ \A d \in Documents \cup Peppers : d \in Seq(Characters)
  /\ \A t \in Secrets : t \in Seq(Nat)
  /\ Passphrases # {} /\ <<>> \in Peppers /\ Seeds # {} /\ ApiKeys # {}
  /\ \A p \in Passphrases, e \in Peppers : Normal[p] \o e \in DOMAIN Stream
  /\ Passphrases \subseteq DOMAIN HashToGroup
  /\ {MaxMade, MaxDamage} \subseteq Nat
  /\ \A w \in Draws : {w.blind, w.proof} \subseteq Scalars /\ w.other \in Elements

(* Sizes are numbers of bytes, and one of them is the largest.             *)
ASSUME SizesAssumption == Sizes \subseteq Nat /\ \E z \in Sizes : \A y \in Sizes : z >= y

(* The keys of the services, and the public keys their clients pin.        *)
Keys == {derive_key_pair(s, "server").data : s \in Seeds}
Pins == {public_key(k) : k \in Keys}

(* A service that derives no key from its seed does not start.             *)
ASSUME KeysAssumption == Keys \subseteq Scalars \ {0}

Service(key, state, api) == [key |-> key, state |-> state, api |-> api]
Services == {Service(k, s, a) : k \in Keys, s \in ServiceStates, a \in ApiKeys}

(* The oracle makes no proof hold by chance: one that verifies is of what  *)
(* was asked, evaluated with the key that is pinned.                       *)
ASSUME SoundnessAssumption ==
  \A p \in Passphrases, s \in Services, pin \in Pins, w \in Draws :
    LET asked == blind(p, w.blind)
        reply == evaluate_remote_verified(s, asked.data.blinded, w)
    IN  /\ asked.status = "ok" /\ reply.status = "ok"
        /\ reply.data.evaluated \in Elements \ {Identity}
        /\ verify_proof(pin, asked.data.blinded, reply.data.evaluated, reply.data.proof)
        => pin = public_key(s.key) /\ reply.data.evaluated = Times(s.key, asked.data.blinded)

VARIABLES
  shelf,      \* what was made, in order
  damage,     \* how many of them were damaged or mixed up
  service,    \* the OPRF service: its key, its state, the API key it takes
  settings,   \* QUIPU_OPRF in the site's settings: the pinned key, the API key
  client,     \* the memoised client, or NoClient
  opened      \* the last opening or refusal to make

vars == <<shelf, damage, service, settings, client, opened>>

Settings(pin, api) == [pin |-> pin, api |-> api]
NoClient == Settings(Identity, 0)

(* An opening: of which artifact, with which credentials, what came of it  *)
(* and how much was computed for it.                                       *)
Opening(item, tried, result, work) ==
  [item |-> item, tried |-> tried, status |-> result.status, data |-> result.data, work |-> work]
NotOpened == Opening(0, {}, Refused("none"), NoClient)

(* What an artifact owes to whom: to these credentials this data. A        *)
(* deniable container is kept with its twin, made of the same but with no  *)
(* hidden volume, and with the work that each took.                        *)
Promise(credential, data) == [credential |-> credential, data |-> data]

Artifact(format, blob, promises) ==
  [format |-> format, blob |-> blob, promises |-> promises, intact |-> TRUE,
   twin |-> blob, work |-> {}]

OfSecret(suite, passphrase, pepper, dictionary) ==
  <<"secret", suite, Normal[passphrase] \o pepper, dictionary>>
OfRecipient(r) == <<"recipient", r>>
OfSigner(vk) == <<"signer", vk>>
OfHalf(half, vk) == <<"half", half, vk>>
OfHoney(passphrase) == <<"honey", Normal[passphrase]>>
OfProfile(passphrase, params) == <<"profile", Normal[passphrase], params>>
OfLogin(pin, passphrase) == <<"login", pin, passphrase>>

(* What the service of that public key makes of a passphrase, blinded or   *)
(* not.                                                                    *)
Hardened(pin, passphrase) ==
  LET key == CHOOSE k \in Keys : public_key(k) = pin
  IN  Output(passphrase, Times(key, HashToGroup[passphrase]))

FirstKey == CHOOSE k \in Keys : TRUE
AtFirst == Settings(public_key(FirstKey), CHOOSE a \in ApiKeys : TRUE)

Init ==
  /\ shelf = <<>> /\ damage = 0
  /\ service = Service(FirstKey, "up", AtFirst.api)
  /\ settings = AtFirst
  /\ client = NoClient
  /\ opened = NotOpened

n == Len(shelf) + 1

Only(formats) == \A i \in 1..Len(shelf) : shelf[i].format \in formats

(* All that is made is of one format; containers of a passphrase, of which *)
(* there are so many, are all for the same credentials.                    *)
Room(format) == n <= MaxMade /\ damage = 0 /\ Only({format})
SameOwners(promises) ==
  \A i \in 1..Len(shelf) :
    {p.credential : p \in shelf[i].promises} = {p.credential : p \in promises}

(* What never asks the service is done while nothing befalls it, and what  *)
(* is no business of the Django site while nothing befalls that.           *)
SiteAtRest == settings = AtFirst /\ client = NoClient /\ service.api = AtFirst.api
Quiet == SiteAtRest /\ service.state = "up" /\ public_key(service.key) = AtFirst.pin

Keep(format, blob, promises) ==
  /\ shelf' = Append(shelf, Artifact(format, blob, promises))
  /\ UNCHANGED <<damage, service, settings, opened>>

Refuse(item, tried, result) ==
  /\ opened' = Opening(item, tried, result, NoClient)
  /\ UNCHANGED <<shelf, damage, service, settings>>

-----------------------------------------------------------------------------
Encode(suite, data, passphrase, pepper, params, dictionary) ==
  /\ Room("sealed") /\ Quiet /\ Argon2Takes(params)
  /\ LET promises == {Promise(OfSecret(suite, passphrase, pepper, dictionary), data)} IN
     /\ SameOwners(promises)
     /\ Keep("sealed", encode_to_blob(suite, data, passphrase, dictionary, pepper, params, n), promises)
  /\ UNCHANGED client

EncodeOnline(data, passphrase, pepper, params, dictionary, pin, draw) ==
  /\ n = 1 /\ SiteAtRest
  /\ LET r == harden(passphrase, service, pin, draw) IN
     IF r.status # "ok" THEN Refuse(0, {}, r)
     ELSE /\ Argon2Takes(params)
          /\ Keep("online", encode_to_blob("quipu", data, passphrase, dictionary, pepper \o <<r.data>>, params, n),
                  {Promise(OfSecret("quipu", passphrase, pepper \o <<Hardened(pin, passphrase)>>, dictionary), data)})
  /\ UNCHANGED client

EncodeToRecipient(data, recipient) ==
  /\ Room("recipient") /\ Quiet
  /\ Keep("recipient", encode_to_recipient(data, recipient, n), {Promise(OfRecipient(recipient), data)})
  /\ UNCHANGED client

CifrarPara(data, recipient) ==
  /\ Room("cnsa") /\ Quiet
  /\ Keep("cnsa", cifrar_para(data, recipient, n), {Promise(OfRecipient(recipient.ml), data)})
  /\ UNCHANGED client

(* Who has all halves of a key signs for it, and each half for itself.     *)
SignedBy(vk, halves, data) ==
  {Promise(OfHalf(h, vk), data) : h \in halves}
    \cup {Promise(OfSigner(k), data) : k \in {v \in {vk} : halves = DOMAIN vk}}

Magic(vk) == IF DOMAIN vk = HybridHalves THEN "QSG1" ELSE "QSG3"

(* What is signed with keys of this process.                               *)
EncodeSigned(data, vk) ==
  /\ Room("signed") /\ Quiet
  /\ Keep("signed", IF DOMAIN vk = {"ml"} THEN firmar_aparte(vk, data)
                    ELSE armar_firmado(Magic(vk), data, sign(vk, data)),
          SignedBy(vk, DOMAIN vk, data))
  /\ UNCHANGED client

(* A token whose keys under one label are not of one pair signs, and       *)
(* promises nothing but for its other half.                                *)
EncodeSignedConCustodio(data, custodian) ==
  /\ Room("signed") /\ Quiet
  /\ LET r == Then(custodian, LAMBDA c : firmar(c, data)) IN
     IF r.status # "ok" THEN Refuse(0, {}, r)
     ELSE Keep("signed", armar_firmado("QSG1", data, r.data),
               SignedBy(custodian.data.verificacion, SoundHalves(custodian.data), data))
  /\ UNCHANGED client

HoneyEncrypt(tokens, passphrase, params) ==
  /\ Room("honey") /\ Quiet /\ Argon2Takes(params)
  /\ LET r == honey_encrypt(tokens, 10, passphrase, <<>>, params, n) IN
     IF r.status # "ok" THEN Refuse(0, {}, r)
     ELSE Keep("honey", r.data, {Promise(OfHoney(passphrase), tokens)})
  /\ UNCHANGED client

Crear(size, decoy, passphrase, hidden, params) ==
  /\ Room("deniable") /\ Quiet
  /\ LET r == crear(size, decoy, passphrase, hidden, params, n)
         promises == {Promise(OfProfile(passphrase, params), <<"decoy", decoy>>)}
           \cup {Promise(OfProfile(h[2], params), <<"hidden", h[1]>>) : h \in {hidden} \ {NoVolume}}
     IN  IF r.status # "ok" THEN shelf = <<>> /\ Refuse(0, {}, r)
         ELSE /\ SameOwners(promises)
              /\ shelf' = Append(shelf, [Artifact("deniable", r.data, promises) EXCEPT
                    !.twin = crear(size, decoy, passphrase, NoVolume, params, n).data,
                    !.work = {WorkOfMaking(size, decoy, hidden), WorkOfMaking(size, decoy, NoVolume)}])
              /\ UNCHANGED <<damage, service, settings, opened>>
  /\ UNCHANGED client

-----------------------------------------------------------------------------
(* The client is made of the settings when it is first needed, and kept.   *)
Client == IF client = NoClient THEN settings ELSE client

(* client.py harden: the service away, or not taking the API key, is one   *)
(* error; a proof of another key is another.                               *)
django_harden(passphrase, draw) ==
  LET r == harden(passphrase, service, Client.pin, draw) IN
  IF r.status \in {"network", "denied"} \/ service.api # Client.api THEN Refused("unavailable")
  ELSE IF r.status = "verification" THEN Refused("rejected")
  ELSE r

DjangoEncode(passphrase, draw) ==
  /\ n = 1
  /\ LET r == django_harden(passphrase, draw) IN
     IF r.status # "ok" THEN Refuse(0, {}, r)
     ELSE Keep("login", <<n, r.data>>, {Promise(OfLogin(Client.pin, passphrase), <<TRUE>>)})
  /\ client' = Client

(* Bug: what cannot be checked is not right.                               *)
django_verifyClosed(record, passphrase, draw) ==
  LET r == django_harden(passphrase, draw) IN Done(<<r.status = "ok" /\ record[2] = r.data>>)

(* A failure of the service is passed on: it is not a wrong password.      *)
django_verify(record, passphrase, draw) ==
  LET r == django_harden(passphrase, draw) IN
  IF r.status # "ok" THEN r ELSE Done(<<record[2] = r.data>>)

DjangoVerify(i, passphrase, draw) ==
  /\ shelf[i].format = "login"
  /\ Refuse(i, {OfLogin(Client.pin, passphrase)}, django_verify(shelf[i].blob, passphrase, draw))
  /\ client' = Client

(* What befalls the service and what the operator of the site does.        *)
ServiceBecomes(s) ==
  /\ Only({"online", "login"}) /\ (s.api = service.api \/ Only({"login"}))
  /\ service # s /\ service' = s
  /\ UNCHANGED <<shelf, damage, settings, client, opened>>

Configure(s) ==
  /\ Only({"login"})
  /\ settings # s /\ settings' = s
  /\ UNCHANGED <<shelf, damage, service, client, opened>>

reset_client ==
  /\ client # NoClient /\ client' = NoClient
  /\ UNCHANGED <<shelf, damage, service, settings, opened>>

-----------------------------------------------------------------------------
Magics == {"QUIP", "QPQ1", "QSG1", "QSG3", "QHNY"}

(* The fields of a format's header, and what may be found in one of them.  *)
Fields ==
  [sealed |-> {"magic", "version", "flags", "codebook", "fingerprint", "salt", "nonce", "params"},
   recipient |-> {"magic", "version", "flags", "nonce", "encapsulation"},
   cnsa |-> {"nonce", "encapsulation"},
   signed |-> {"magic", "version", "flags", "length"},
   honey |-> {"magic", "version", "salt", "params", "alphabet", "length"}]

Found ==
  [magic |-> Magics, version |-> {2}, flags |-> {1}, codebook |-> {1}, fingerprint |-> Dictionaries,
   salt |-> {0} \cup 1..Len(shelf), nonce |-> {0} \cup 1..Len(shelf), params |-> Costs,
   encapsulation |-> {<<HybridKey(x, ml)>> : x, ml \in 1..Len(shelf)},
   length |-> 0..2, alphabet |-> {0, 5, 16}]

(* Bodies: unreadable, another artifact's, or a half of another's.         *)
BodiesFound(i) ==
  {Noise} \cup {shelf[j].blob.body : j \in 1..Len(shelf)}
    \cup UNION {LET own == shelf[i].blob.body
                    other == shelf[j].blob.body
                IN  {[own EXCEPT ![2] = other[2]], [own EXCEPT ![3] = other[3]]}
                      \cup {[own EXCEPT ![3][h] = other[3][h]] : h \in DOMAIN own[3] \cap DOMAIN other[3]} :
                j \in {k \in 1..Len(shelf) : /\ shelf[i].format = "signed"
                                             /\ Noise \notin {shelf[i].blob.body, shelf[k].blob.body}}}

ContainersFound(i) ==
  LET c == shelf[i].blob IN
  {[c EXCEPT !.size = @ + 1], [c EXCEPT !.size = MinSize - 1], [c EXCEPT !.salt = 0],
   [c EXCEPT !.decoy = c.hidden, !.hidden = c.decoy]}
    \cup UNION {{[c EXCEPT !.decoy = shelf[j].blob.decoy], [c EXCEPT !.hidden = shelf[j].blob.hidden],
                 [c EXCEPT !.salt = shelf[j].blob.salt]} : j \in 1..Len(shelf)}

BlobsFound(i) ==
  LET b == shelf[i].blob IN
  IF shelf[i].format = "deniable" THEN ContainersFound(i)
  ELSE {[b EXCEPT !.cut = TRUE]}
         \cup {[b EXCEPT !.body = body] : body \in BodiesFound(i)}
         \cup UNION {{[b EXCEPT !.header[f] = v] : v \in Found[f]} : f \in Fields[shelf[i].format]}

Damage(i) ==
  /\ damage < MaxDamage /\ shelf[i].format \notin {"online", "login"}
  /\ \E b \in BlobsFound(i) \ {shelf[i].blob} :
       shelf' = [shelf EXCEPT ![i].blob = b, ![i].intact = FALSE]
  /\ damage' = damage + 1
  /\ UNCHANGED <<service, settings, client, opened>>

-----------------------------------------------------------------------------
Decode(i, suite, passphrase, pepper, dictionary) ==
  /\ shelf[i].format \in {"sealed", "online"} /\ Quiet
  /\ Refuse(i, {OfSecret(suite, passphrase, pepper, dictionary)},
            decode_from_blob(suite, shelf[i].blob, passphrase, dictionary, pepper))
  /\ UNCHANGED client

DecodeOnline(i, passphrase, pepper, dictionary, pin, draw) ==
  /\ shelf[i].format = "online"
  /\ LET r == harden(passphrase, service, pin, draw) IN
     Refuse(i, {OfSecret("quipu", passphrase, pepper \o <<Hardened(pin, passphrase)>>, dictionary)},
            IF r.status # "ok" THEN r
            ELSE decode_from_blob("quipu", shelf[i].blob, passphrase, dictionary, pepper \o <<r.data>>))
  /\ UNCHANGED client

DecodeAsRecipient(i, recipient) ==
  /\ shelf[i].format = "recipient"
  /\ Refuse(i, {OfRecipient(recipient)}, decode_as_recipient(shelf[i].blob, recipient))
  /\ UNCHANGED client

Descifrar(i, recipient) ==
  /\ shelf[i].format = "cnsa"
  /\ Refuse(i, {OfRecipient(recipient.ml)}, descifrar(shelf[i].blob, recipient))
  /\ UNCHANGED client

DecodeVerified(i, vk) ==
  /\ shelf[i].format = "signed"
  /\ Refuse(i, {OfSigner(vk)},
            IF DOMAIN vk = {"ml"} THEN verificar(shelf[i].blob, vk)
            ELSE decode_verified(Magic(vk), shelf[i].blob, vk))
  /\ UNCHANGED client

HoneyDecrypt(i, passphrase) ==
  /\ shelf[i].format = "honey"
  /\ Refuse(i, {OfHoney(passphrase)}, honey_decrypt(shelf[i].blob, passphrase, <<>>))
  /\ UNCHANGED client

Abrir(i, passphrase, hint) ==
  /\ shelf[i].format = "deniable"
  /\ opened' = Opening(i, {OfProfile(passphrase, Tried(hint)[k]) : k \in 1..Len(Tried(hint))},
                       abrir(shelf[i].blob, passphrase, hint),
                       WorkOfOpening(shelf[i].blob, passphrase, hint))
  /\ UNCHANGED <<shelf, damage, service, settings, client>>

Custodians ==
  {por_etiqueta(t, "ed", "ml") : t \in Tokens}
    \cup {Done(EnMemoria(v)) : v \in {w \in Signers : DOMAIN w = HybridHalves}}
Hints == {<<>>} \cup {<<Profiles[k]>> : k \in 1..Len(Profiles)}
HiddenVolumes == {NoVolume} \cup {Volume(d, p) : d \in Documents, p \in Passphrases}

Make ==
  \/ \E d \in Documents, p \in Passphrases, e \in Peppers, c \in Costs, f \in Dictionaries :
       \/ \E s \in Suites : Encode(s, d, p, e, c, f)
       \/ \E k \in Pins, w \in Draws : EncodeOnline(d, p, e, c, f, k, w)
  \/ \E d \in Documents, r \in Recipients : EncodeToRecipient(d, r) \/ CifrarPara(d, r)
  \/ \E d \in Documents :
       \/ \E v \in Signers : EncodeSigned(d, v)
       \/ \E c \in Custodians : EncodeSignedConCustodio(d, c)
  \/ \E t \in Secrets, p \in Passphrases, c \in Costs : HoneyEncrypt(t, p, c)
  \/ \E z \in Sizes \cup {tamano_canonico(Max(Sizes))}, d \in Documents, p \in Passphrases, h \in HiddenVolumes :
       \E k \in 1..Len(Profiles) : Crear(z, d, p, h, Profiles[k])
  \/ \E p \in Passphrases, w \in Draws : DjangoEncode(p, w)

Open ==
  \E i \in 1..Len(shelf) :
    \/ \E p \in Passphrases, e \in Peppers, f \in Dictionaries :
         \/ \E s \in Suites : Decode(i, s, p, e, f)
         \/ \E k \in Pins, w \in Draws : DecodeOnline(i, p, e, f, k, w)
    \/ \E r \in Recipients : DecodeAsRecipient(i, r) \/ Descifrar(i, r)
    \/ \E v \in Signers : DecodeVerified(i, v)
    \/ \E p \in Passphrases : HoneyDecrypt(i, p)
    \/ \E p \in Passphrases, h \in Hints : Abrir(i, p, h)
    \/ \E p \in Passphrases, w \in Draws : DjangoVerify(i, p, w)

(* A call answers before the next one is made.                             *)
Answer ==
  /\ opened # NotOpened /\ opened' = NotOpened
  /\ UNCHANGED <<shelf, damage, service, settings, client>>

Call ==
  \/ Make
  \/ Open
  \/ \E i \in 1..Len(shelf) : Damage(i)
  \/ \E s \in Services : ServiceBecomes(s)
  \/ \E p \in Pins, a \in ApiKeys : Configure(Settings(p, a))
  \/ reset_client

Next == (opened = NotOpened /\ Call) \/ Answer

Spec == Init /\ [][Next]_vars

-----------------------------------------------------------------------------
Formats == DOMAIN Fields \cup {"online", "deniable", "login"}

TypeOK ==
  /\ \A i \in 1..Len(shelf) : shelf[i].format \in Formats
  /\ damage \in 0..MaxDamage
  /\ damage = 0 <=> \A i \in 1..Len(shelf) : shelf[i].intact
  /\ service \in Services
  /\ {settings, client} \subseteq {Settings(p, a) : p \in Pins, a \in ApiKeys} \cup {NoClient}
  /\ settings # NoClient
  /\ opened.item \in 0..Len(shelf)
  /\ opened.status # "ok" => opened.data = <<>>

HasOpened(formats) == opened.item # 0 /\ shelf[opened.item].format \in formats

(* All that was promised, and whether that data was sealed for those       *)
(* credentials, or signed by each half of that key.                        *)
Promised == UNION {shelf[i].promises : i \in 1..Len(shelf)}
Rightful(credential, data) ==
  IF credential[1] # "signer" THEN Promise(credential, data) \in Promised
  ELSE \A h \in DOMAIN credential[2] : Promise(OfHalf(h, credential[2]), data) \in Promised

(* Whatever is damaged, mixed up or opened as something it is not, what    *)
(* opens is data that was sealed for these very credentials, or signed by  *)
(* each half of this very key; nothing sealed with a profile, a suite or   *)
(* an OPRF key opens with another (api.rs, negacion.rs, pqsign.rs).        *)
OnlyTheOwnerOpens ==
  HasOpened(Formats \ {"honey", "login"}) /\ opened.status = "ok" =>
    \E c \in opened.tried : Rightful(c, opened.data)

Outages == {"network", "denied", "verification", "unavailable", "rejected"}

Owed == {p \in shelf[opened.item].promises : p.credential \in opened.tried}

Readable(i) ==
  LET b == shelf[i].blob IN
  /\ shelf[i].format \in {"sealed", "online", "honey"} => is_sane(b.suite, b.header.params)
  /\ shelf[i].format = "signed" /\ b.suite = "quipu" => Len(b.body[2]) < LengthWrap

Answered == HasOpened(Formats) /\ shelf[opened.item].intact /\ Owed # {} /\ opened.status \notin Outages

Paid == opened.status = "ok" /\ \E p \in Owed : opened.data = p.data

(* What was made opens, to what it was made of, for whoever has the right  *)
(* credentials, and without the service however the passphrase is spelled: *)
(* data is never orphaned (api.rs, Options: "Se acepta cualquier valor     *)
(* sensato", "no puede quedarse sin camino").                              *)
WhatIsMadeOpens == Answered => Paid

(* So it is for what is made with costs that the readers take and with     *)
(* messages whose length fits, unless the service itself failed.           *)
WhatIsSaneOpens == Answered /\ Readable(opened.item) => Paid

(* What one sees of a container who tries these passphrases, and those     *)
(* there are but for the one of the hidden volume.                         *)
Seen(c, passphrases) ==
  [size |-> c.size, salt |-> c.salt,
   opens |-> [p \in passphrases |-> [h \in Hints |-> abrir(c, p, h)]],
   work |-> [h \in Hints |-> {WorkOfOpening(c, p, h) : p \in Passphrases}]]

OwnersOf(artifact, volume) ==
  {q.credential[2] : q \in {r \in artifact.promises : r.data[1] = volume}}
Shown(artifact) ==
  {p \in Passphrases : \/ Normal[p] \in OwnersOf(artifact, "decoy")
                       \/ Normal[p] \notin OwnersOf(artifact, "hidden")}

(* With the passphrase of the decoy, or with none, nobody tells a          *)
(* container from its twin without a hidden volume, neither by opening it  *)
(* nor by what it took to make or to open (negacion.rs crear, abrir).      *)
HiddenLeavesNoTrace ==
  \A i \in {j \in 1..Len(shelf) : shelf[j].format = "deniable" /\ shelf[j].intact} :
    /\ Seen(shelf[i].blob, Shown(shelf[i])) = Seen(shelf[i].twin, Shown(shelf[i]))
    /\ Cardinality(shelf[i].work) = 1

(* What comes of a honey container with any passphrase and pepper.         *)
Guesses(blob) == {honey_decrypt(blob, p, e) : p \in Passphrases, e \in Peppers}

(* Whatever became of a honey container, all passphrases get the same      *)
(* answer: an error, or tokens of its alphabet (honey.rs decrypt).         *)
HoneyNeverTells ==
  \A i \in {j \in 1..Len(shelf) : shelf[j].format = "honey"} :
    /\ Cardinality({a.status : a \in Guesses(shelf[i].blob)}) = 1
    /\ \A a \in Guesses(shelf[i].blob) :
         \A k \in 1..Len(a.data) : a.data[k] \in 0..(shelf[i].blob.header.alphabet - 1)

(* A user is told that a password is wrong only by a service that answered *)
(* with the pinned key, and never when it is right ("un fallo del servicio *)
(* NO es una contrasena incorrecta", hashers.py verify).                   *)
AnOutageIsNotAWrongPassword ==
  HasOpened({"login"}) /\ opened.data = <<FALSE>> =>
    /\ Owed = {}
    /\ service.state \in {"up", "crossed"} /\ Settings(public_key(service.key), service.api) = client
=============================================================================
