------------------------------ MODULE Negacion ------------------------------
(***************************************************************************)
(* The deniable container (negacion.rs): a decoy for whoever is forced to  *)
(* give a passphrase, and perhaps a hidden volume, in two regions of a     *)
(* file of a size chosen beforehand that says nothing of either.           *)
(***************************************************************************)
EXTENDS Sealing, FiniteSets

CONSTANTS
  MinSize,     \* TAMANO_MINIMO
  SaltLength, TagLength,
  Profiles     \* Perfil::conocidos, in the order they are tried: their parameters

ASSUME NegacionAssumption ==
  /\ Len(Profiles) \in Nat /\ \A i \in 1..Len(Profiles) : is_sane("quipu", Profiles[i])
  /\ {SaltLength, TagLength} \subseteq Nat
  /\ MinSize \in Nat /\ MinSize >= SaltLength + 2 * (TagLength + LengthPrefix)
  /\ padded_len(LengthPrefix) = LengthPrefix

(* The size advised: it says of the data only its power of two.            *)
tamano_canonico(minimum) ==
  LET m == IF minimum < MinSize THEN MinSize ELSE minimum
  IN  IF m = PowerOfTwo[Log2(m)] THEN m ELSE PowerOfTwo[Log2(m) + 1]

(* tramos: how long the region of each volume is.                          *)
RegionLength(volume, size) ==
  LET body == size - SaltLength
  IN  IF volume = "decoy" THEN body \div 2 ELSE body - body \div 2

(* claves_de_region: key and nonce come from the passphrase and the salt.  *)
RegionKey(volume, passphrase, salt, params) ==
  derive_subkey(derive_master_key(passphrase, salt, <<>>, params), <<"negacion", volume>>)
RegionNonce(volume, passphrase, salt, params) ==
  derive_subkey(derive_master_key(passphrase, salt, <<>>, params), <<"negacion", volume, "nonce">>)

dato_autenticado(salt, size) == <<salt, size>>

(* The data, framed, and random up to the room the region has.             *)
claro_de_region(data, room) ==
  IF pad(data).size > room THEN Refused("no room")
  ELSE Done([pad(data) EXCEPT !.size = room])

Region(volume, data, passphrase, salt, size, params) ==
  LET plain == claro_de_region(data, RegionLength(volume, size) - TagLength)
  IN  IF plain.status # "ok" THEN plain
      ELSE Done(encrypt(RegionKey(volume, passphrase, salt, params),
                        RegionNonce(volume, passphrase, salt, params),
                        plain.data, dato_autenticado(salt, size)))

(* What a hidden volume is: data and its passphrase, or none.              *)
NoVolume == <<>>
Volume(data, passphrase) == <<data, passphrase>>

Container(salt, size, decoy, hidden) ==
  [salt |-> salt, size |-> size, decoy |-> decoy, hidden |-> hidden]

FrameRoom(volume, size) == RegionLength(volume, size) - TagLength

(* Bug: without a hidden volume there is no second volume to seal.         *)
FramesOfVolumes(size, decoy, hidden) ==
  <<claro_de_region(decoy, FrameRoom("decoy", size))>>
    \o (IF hidden = NoVolume THEN <<>> ELSE <<claro_de_region(hidden[1], FrameRoom("hidden", size))>>)

(* What crear frames, in turn: the decoy and the hidden volume, or in its  *)
(* place no data, sealed with a random passphrase and thrown away.         *)
Frames(size, decoy, hidden) ==
  <<claro_de_region(decoy, FrameRoom("decoy", size)),
    claro_de_region(IF hidden = NoVolume THEN <<>> ELSE hidden[1], FrameRoom("hidden", size))>>

(* How much is computed to make one: for each volume in turn a passphrase  *)
(* is stretched, its data is framed and, if it fits, encrypted; the first  *)
(* that does not fit is the last.                                          *)
Work(stretched, ciphered) == [stretched |-> stretched, ciphered |-> ciphered]
WorkOfMaking(size, decoy, hidden) ==
  LET frames == Frames(size, decoy, hidden)
      fit(i) == \A k \in 1..i : frames[k].status = "ok"
  IN  Work(Cardinality({i \in DOMAIN frames : fit(i - 1)}),
           Cardinality({i \in DOMAIN frames : fit(i)}))

(* Bug: passphrases are compared as typed.                                 *)
SamePassphraseAsTyped(a, b) == a = b

SamePassphrase(a, b) == Normal[a] = Normal[b]

crear(size, decoy, passphrase, hidden, params, n) ==
  LET frames == Frames(size, decoy, hidden)
      d == Region("decoy", decoy, passphrase, n, size, params)
      h == Region("hidden", hidden[1], hidden[2], n, size, params)
  IN  IF decoy = <<>> THEN Refused("empty decoy")
      ELSE IF size < MinSize THEN Refused("size")
      ELSE IF hidden # NoVolume /\ SamePassphrase(passphrase, hidden[2]) THEN Refused("same passphrase")
      ELSE IF \E i \in DOMAIN frames : frames[i].status # "ok" THEN Refused("no room")
      ELSE Done(Container(n, size, d.data, IF hidden = NoVolume THEN Noise ELSE h.data))

(* intentar: both regions are always tried and the hidden one wins.        *)
intentar(container, passphrase, params) ==
  LET opened == [v \in {"decoy", "hidden"} |->
        Unframed(decrypt(RegionKey(v, passphrase, container.salt, params),
                         RegionNonce(v, passphrase, container.salt, params),
                         container[v], dato_autenticado(container.salt, container.size)))]
  IN  IF opened["hidden"].status = "ok" THEN Done(<<"hidden", opened["hidden"].data>>)
      ELSE IF opened["decoy"].status = "ok" THEN Done(<<"decoy", opened["decoy"].data>>)
      ELSE Refused("does not open")

(* The profile hinted at, or every known one.                              *)
Tried(hint) == IF hint = <<>> THEN Profiles ELSE hint

(* Every one of them is tried, even if the first opens.                    *)
WorkOfOpening(container, passphrase, hint) == Work(Len(Tried(hint)), 2 * Len(Tried(hint)))

(* abrir, abrir_con_perfiles: the first of those tried that opens.         *)
abrir(container, passphrase, hint) ==
  LET opens == {i \in 1..Len(Tried(hint)) : intentar(container, passphrase, Tried(hint)[i]).status = "ok"}
  IN  IF container.size < MinSize THEN Refused("short")
      ELSE IF opens = {} THEN Refused("does not open")
      ELSE intentar(container, passphrase, Tried(hint)[CHOOSE i \in opens : \A j \in opens : i <= j])
=============================================================================
