----------------------------- MODULE StreamAead -----------------------------
(***************************************************************************)
(* Streaming encryption (src/src/stream.rs): several files are sealed,     *)
(* each a chunk at a time, and the storage gives back one container made   *)
(* of whatever pieces of their blocks it likes, which is then opened a     *)
(* block at a time.                                                        *)
(*                                                                         *)
(* The cipher is ideal: a block opens under the key (hence the header) and *)
(* the nonce it was sealed under and in no other way, and the random salt  *)
(* and prefix of each file make its key its own. A byte of ciphertext is   *)
(* its block and its place in it; a byte of plaintext, its file and place. *)
(***************************************************************************)
EXTENDS Integers, SequencesExt

CONSTANTS
  Files,       \* files being sealed
  Lengths,     \* [Files -> SUBSET Nat]: lengths a file may have
  ChunkSize,   \* bytes of plaintext in a chunk
  TagLen,      \* bytes a block has more than its chunk
  MaxCounter,  \* the largest chunk counter (u32::MAX)
  MaxPieces,   \* bound on the pieces of a container
  Foreign,     \* a well formed header of no file, or the wrong passphrase
  Malformed,   \* a header that is refused
  Noise        \* a byte of no block

ASSUME StreamAssumption ==
  /\ ChunkSize \in Nat \ {0}
  /\ TagLen \in Nat \ {0}
  /\ MaxCounter \in Nat
  /\ MaxPieces \in Nat
  /\ Lengths \in [Files -> SUBSET Nat]
  /\ Foreign \notin Files /\ Malformed \notin Files /\ Foreign # Malformed

VARIABLES
  length,   \* [Files -> Nat]: the plaintext's length
  enc,      \* [Files -> ...]: encrypt_stream of each file
  sealed,   \* the blocks sealed so far
  head,     \* the header of the container being opened
  body,     \* the bytes after it
  dec,      \* decrypt_stream
  out       \* the plaintext bytes it has written

encVars == <<length, enc, sealed>>
decVars == <<head, body, dec, out>>
vars == <<encVars, decVars>>

Least(a, b) == IF a <= b THEN a ELSE b

BlockLen == ChunkSize + TagLen

Block == [file : Files, counter : 0..MaxCounter, final : BOOLEAN,
          at : Nat, size : 0..ChunkSize]

Cipher(b) == [i \in 1..(b.size + TagLen) |-> [block |-> b, byte |-> i]]

PlainByte(f, i) == [file |-> f, byte |-> i]

Plain(b) == [i \in 1..b.size |-> PlainByte(b.file, b.at + i)]

(* The first n bytes of a file.                                            *)
Prefix(f, n) == [i \in 1..n |-> PlainByte(f, i)]

Init ==
  /\ length \in {l \in [Files -> UNION {Lengths[f] : f \in Files}] :
                   \A f \in Files : l[f] \in Lengths[f]}
  /\ enc = [f \in Files |-> [status |-> "sealing", counter |-> 0, at |-> 0]]
  /\ sealed = {}
  /\ head = Malformed /\ body = <<>> /\ out = <<>>
  /\ dec = [status |-> "idle", counter |-> 0, pos |-> 0]

-----------------------------------------------------------------------------
(* encrypt_stream. enc[f].at is where the chunk in hand begins.            *)

InHand(f) == Least(ChunkSize, length[f] - enc[f].at)

(* A chunk is the last when it is short or nothing follows it.             *)
LastChunk(f) == InHand(f) < ChunkSize \/ length[f] = enc[f].at + ChunkSize

Chunk(f, final) ==
  [file |-> f, counter |-> enc[f].counter, final |-> final,
   at |-> enc[f].at, size |-> InHand(f)]

(* Defects of Counted: the counter wraps; the counter is not checked.      *)
CountedWraps(f) ==
  [enc[f] EXCEPT !.counter = (@ + 1) % (MaxCounter + 1), !.at = @ + ChunkSize]
(* The writer after a chunk that another one follows. With the counter     *)
(* exhausted the call fails, the block already written.                    *)
Counted(f) ==
  IF enc[f].counter < MaxCounter
  THEN [enc[f] EXCEPT !.counter = @ + 1, !.at = @ + ChunkSize]
  ELSE [enc[f] EXCEPT !.status = "failed"]

SealChunk(f) ==
  /\ enc[f].status = "sealing" /\ ~LastChunk(f)
  /\ sealed' = sealed \cup {Chunk(f, FALSE)}
  /\ enc' = [enc EXCEPT ![f] = Counted(f)]
  /\ UNCHANGED <<length, decVars>>

SealLast(f) ==
  /\ enc[f].status = "sealing" /\ LastChunk(f)
  /\ sealed' = sealed \cup {Chunk(f, TRUE)}
  /\ enc' = [enc EXCEPT ![f].status = "sealed"]
  /\ UNCHANGED <<length, decVars>>

(* The source or the destination fails; a block half written is one the    *)
(* storage cuts.                                                           *)
SealFails(f) ==
  /\ enc[f].status = "sealing"
  /\ enc' = [enc EXCEPT ![f].status = "failed"]
  /\ UNCHANGED <<length, sealed, decVars>>

-----------------------------------------------------------------------------
(* The storage: once the writers have stopped, any header before any few   *)
(* pieces of blocks, each cut at any byte, repeated, reordered, mixed.     *)

Pieces ==
  {<<>>, <<Noise>>}
    \cup UNION {{SubSeq(Cipher(b), 1, n) : n \in 1..(b.size + TagLen)} : b \in sealed}

Deliver ==
  /\ dec.status = "idle"
  /\ \A f \in Files : enc[f].status # "sealing"
  /\ head' \in Files \cup {Foreign, Malformed}
  /\ \E p \in [1..MaxPieces -> Pieces] : body' = FlattenSeq(p)
  /\ dec' = [dec EXCEPT !.status = "opening"]
  /\ UNCHANGED <<encVars, out>>

-----------------------------------------------------------------------------
(* decrypt_stream. dec.pos bytes of the body lie before the block in hand. *)

CurLen == Least(BlockLen, Len(body) - dec.pos)
Cur == SubSeq(body, dec.pos + 1, dec.pos + CurLen)
NextLen == Least(BlockLen, Len(body) - (dec.pos + CurLen))

(* A defect: a block is the last only if it is short.                      *)
LastBlockIfShort == CurLen < BlockLen

LastBlock == CurLen < BlockLen \/ NextLen = 0

(* Defects of Opened: a nonce without the counter; one without the flag.   *)
OpenedUncounted(final) ==
  {b \in sealed : b.file = head /\ b.final = final /\ Cur = Cipher(b)}

OpenedUnflagged(final) ==
  {b \in sealed : b.file = head /\ b.counter = dec.counter /\ Cur = Cipher(b)}

(* The block in hand, if it opens under the header's key and this nonce.   *)
Opened(final) ==
  {b \in sealed : /\ b.file = head /\ b.counter = dec.counter /\ b.final = final
                  /\ Cur = Cipher(b)}

Stop(status) == dec' = [dec EXCEPT !.status = status]

OpenHeader ==
  /\ dec.status = "opening"
  /\ Stop(IF head = Malformed THEN "header"
          ELSE IF Len(body) < TagLen THEN "truncated" ELSE "reading")
  /\ UNCHANGED <<encVars, head, body, out>>

OpenChunk ==
  /\ dec.status = "reading" /\ ~LastBlock /\ NextLen >= TagLen
  /\ \E b \in Opened(FALSE) : out' = out \o Plain(b)
  /\ IF dec.counter < MaxCounter
     THEN dec' = [dec EXCEPT !.counter = @ + 1, !.pos = @ + BlockLen]
     ELSE Stop("truncated")
  /\ UNCHANGED <<encVars, head, body>>

OpenLast ==
  /\ dec.status = "reading" /\ LastBlock
  /\ \E b \in Opened(TRUE) : out' = out \o Plain(b)
  /\ Stop("ok")
  /\ UNCHANGED <<encVars, head, body>>

(* The next block is too short to be one: the one in hand is not released. *)
RefuseShort ==
  /\ dec.status = "reading" /\ ~LastBlock /\ NextLen < TagLen
  /\ Stop("truncated")
  /\ UNCHANGED <<encVars, head, body, out>>

RefuseBlock ==
  /\ dec.status = "reading" /\ (LastBlock \/ NextLen >= TagLen)
  /\ Opened(LastBlock) = {}
  /\ Stop("decrypt")
  /\ UNCHANGED <<encVars, head, body, out>>

ReadFails ==
  /\ dec.status \in {"opening", "reading"}
  /\ Stop("io")
  /\ UNCHANGED <<encVars, head, body, out>>

(* The destination may have taken part of the chunk.                       *)
WriteFails ==
  /\ dec.status = "reading" /\ (LastBlock \/ NextLen >= TagLen)
  /\ \E b \in Opened(LastBlock) : \E n \in 0..b.size :
       out' = out \o SubSeq(Plain(b), 1, n)
  /\ Stop("io")
  /\ UNCHANGED <<encVars, head, body>>

Next ==
  \/ \E f \in Files : SealChunk(f) \/ SealLast(f) \/ SealFails(f)
  \/ Deliver
  \/ OpenHeader \/ OpenChunk \/ OpenLast
  \/ RefuseShort \/ RefuseBlock \/ ReadFails \/ WriteFails

Spec == Init /\ [][Next]_vars

(* Nothing is said of body: it is whatever the storage gives back.         *)
TypeOK ==
  /\ length \in [Files -> Nat]
  /\ enc \in [Files -> [status : {"sealing", "sealed", "failed"},
                        counter : 0..MaxCounter, at : Nat]]
  /\ sealed \in SUBSET Block
  /\ head \in Files \cup {Foreign, Malformed}
  /\ dec \in [status : {"idle", "opening", "reading", "ok", "header",
                        "truncated", "decrypt", "io"},
              counter : 0..MaxCounter, pos : Nat]

-----------------------------------------------------------------------------
(* No two chunks of a file are sealed under one nonce: the counter stops   *)
(* at its limit instead of wrapping, and the last chunk has a flag of its  *)
(* own (chunk_nonce).                                                      *)
NonceUsedOnce ==
  \A a, b \in sealed :
    a.file = b.file /\ a.counter = b.counter /\ a.final = b.final => a = b

(* Whatever the storage gives back and however the call ends, what         *)
(* decrypt_stream wrote is a prefix of the one file whose header it read:  *)
(* no chunk of another file, out of order, repeated or altered.            *)
ReleasedIsPrefix ==
  out # <<>> => /\ head \in Files
                /\ Len(out) <= length[head]
                /\ out = Prefix(head, Len(out))

(* Ok is never the answer to a container that lost its end: the whole file *)
(* was written.                                                            *)
OkMeansWhole == dec.status = "ok" => head \in Files /\ out = Prefix(head, length[head])

(* The container of a file as it was written.                              *)
Written(f) ==
  LET blocks == {b \in sealed : b.file = f}
  IN FlattenSeq([c \in 1..Cardinality(blocks) |->
                   Cipher(CHOOSE b \in blocks : b.counter = c - 1)])

(* A file sealed to its end and given back intact is never refused,        *)
(* whatever its length: empty, short, or ending exactly on a chunk.        *)
IntactOpens ==
  \A f \in Files :
    enc[f].status = "sealed" /\ head = f /\ body = Written(f)
      => dec.status \notin {"header", "truncated", "decrypt"}
=============================================================================
