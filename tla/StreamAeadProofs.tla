-------------------------- MODULE StreamAeadProofs --------------------------
(***************************************************************************)
(* Proofs about streaming encryption, for every set of files, their        *)
(* lengths, the size of a chunk, of a tag and of the counter.              *)
(***************************************************************************)
EXTENDS StreamAead, SequenceTheorems, FiniteSetTheorems, WellFoundedInduction, TLAPS

(* A block's nonce fixes its place in the file, and its flag its size.     *)
BlockInPlace(b) ==
  /\ b.at = b.counter * ChunkSize
  /\ IF b.final THEN b.at + b.size = length[b.file]
     ELSE b.size = ChunkSize /\ b.at + b.size <= length[b.file]

BlocksInPlace == \A b \in sealed : BlockInPlace(b)

WritersInPlace ==
  \A f \in Files :
    enc[f].status = "sealing" =>
      enc[f].at = enc[f].counter * ChunkSize /\ enc[f].at <= length[f]

(* What was written are the first n bytes of the file.                     *)
Released(n) ==
  /\ n \in Nat
  /\ out = Prefix(head, n)
  /\ n > 0 => head \in Files /\ n <= length[head]

ReaderInPlace ==
  /\ dec.status \in {"idle", "opening"} => dec.counter = 0
  /\ dec.status \in {"idle", "opening", "reading"} => Released(dec.counter * ChunkSize)
  /\ dec.status = "ok" => head \in Files /\ Released(length[head])
  /\ \E n \in Nat : Released(n)

IInv == TypeOK /\ BlocksInPlace /\ WritersInPlace /\ ReaderInPlace

-----------------------------------------------------------------------------
LEMMA ProductIsNat ==
  ASSUME NEW a \in Nat, NEW b \in Nat
  PROVE  a * b \in Nat
BY SMT

LEMMA OneMore ==
  ASSUME NEW a \in Nat, NEW b \in Nat
  PROVE  (a + 1) * b = a * b + b
BY SMT

(* A file's first bytes and the next ones are its first bytes.             *)
LEMMA PrefixGrows ==
  ASSUME NEW f, NEW n \in Nat, NEW b, b.file = f, b.at = n, b.size \in Nat,
         NEW m \in 0..b.size
  PROVE  Prefix(f, n) \o SubSeq(Plain(b), 1, m) = Prefix(f, n + m)
<1>. DEFINE S == {PlainByte(f, i) : i \in Nat}
            p == Prefix(f, n)
            c == Plain(b)
            q == SubSeq(c, 1, m)
            r == Prefix(f, n + m)
<1>1. /\ p \in Seq(S) /\ Len(p) = n
      /\ \A i \in 1..n : p[i] = PlainByte(f, i)
  BY DEF Prefix
<1>2. /\ r \in Seq(S) /\ Len(r) = n + m
      /\ \A i \in 1..(n + m) : r[i] = PlainByte(f, i)
  BY DEF Prefix
<1>3. \A i \in 1..b.size : c[i] = PlainByte(f, n + i) /\ c[i] \in S
  BY DEF Plain
<1>. HIDE DEF S, p, c, r
<1>4. /\ q \in Seq(S) /\ Len(q) = m
      /\ \A i \in 1..m : q[i] = PlainByte(f, n + i)
  <2>1. /\ SubSeq(c, 1, m) \in Seq(S)
        /\ Len(SubSeq(c, 1, m)) = IF 1 <= m THEN m - 1 + 1 ELSE 0
        /\ \A i \in 1..(m - 1 + 1) : SubSeq(c, 1, m)[i] = c[1 + i - 1]
    BY <1>3, SubSeqProperties
  <2>. QED  BY <1>3, <2>1
<1>. HIDE DEF q
<1>5. /\ p \o q \in Seq(S) /\ Len(p \o q) = n + m
      /\ \A i \in 1..(n + m) : (p \o q)[i] = IF i <= n THEN p[i] ELSE q[i - n]
  <2>1. /\ p \o q \in Seq(S)
        /\ Len(p \o q) = Len(p) + Len(q)
        /\ \A i \in 1..(Len(p) + Len(q)) :
             (p \o q)[i] = IF i <= Len(p) THEN p[i] ELSE q[i - Len(p)]
    BY <1>1, <1>4, ConcatProperties
  <2>2. Len(p) = n /\ Len(q) = m
    BY <1>1, <1>4
  <2>. QED  BY <2>1, <2>2
<1>6. ASSUME NEW i \in 1..(n + m) PROVE (p \o q)[i] = r[i]
  <2>. m \in Nat /\ i \in Nat
    OBVIOUS
  <2>1. CASE i <= n
    BY <1>1, <1>2, <1>5, <2>1
  <2>2. CASE i > n
    <3>1. i - n \in 1..m /\ n + (i - n) = i
      BY <2>2
    <3>2. q[i - n] = PlainByte(f, i)
      BY <1>4, <3>1
    <3>. QED  BY <1>2, <1>5, <2>2, <3>2
  <2>3. i <= n \/ i > n
    OBVIOUS
  <2>. QED  BY <2>1, <2>2, <2>3
<1>7. p \o q = r
  BY <1>2, <1>5, <1>6, SeqEqual
<1>. QED  BY <1>7 DEF p, c, q, r

LEMMA PrefixWhole ==
  ASSUME NEW f, NEW n \in Nat, NEW b, b.file = f, b.at = n, b.size \in Nat
  PROVE  Prefix(f, n) \o Plain(b) = Prefix(f, n + b.size)
<1>. DEFINE S == {PlainByte(f, i) : i \in Nat}
<1>1. Plain(b) \in Seq(S) /\ Len(Plain(b)) = b.size
  BY DEF Plain
<1>2. SubSeq(Plain(b), 1, b.size) = Plain(b)
  BY <1>1, SubSeqFull
<1>3. b.size \in 0..b.size
  OBVIOUS
<1>4. Prefix(f, n) \o SubSeq(Plain(b), 1, b.size) = Prefix(f, n + b.size)
  BY <1>3, PrefixGrows
<1>. QED  BY <1>2, <1>4

LEMMA PrefixLength ==
  ASSUME NEW f, NEW n \in Nat
  PROVE  Len(Prefix(f, n)) = n /\ Prefix(f, 0) = <<>>
BY DEF Prefix

-----------------------------------------------------------------------------
LEMMA InitIInv == Init => IInv
<1>. SUFFICES ASSUME Init PROVE IInv
  OBVIOUS
<1>1. length \in [Files -> Nat]
  BY StreamAssumption DEF Init
<1>2. TypeOK
  BY <1>1, StreamAssumption DEF Init, TypeOK, Block
<1>3. BlocksInPlace /\ WritersInPlace
  BY <1>1, StreamAssumption DEF Init, BlocksInPlace, WritersInPlace
<1>4. 0 * ChunkSize = 0
  BY StreamAssumption
<1>5. ReaderInPlace
  BY <1>4, PrefixLength DEF Init, ReaderInPlace, Released
<1>. QED  BY <1>2, <1>3, <1>5 DEF IInv

(* A chunk sealed by a writer in place is in place.                        *)
LEMMA ChunkInPlace ==
  ASSUME IInv, NEW f \in Files, enc[f].status = "sealing", NEW final \in BOOLEAN,
         final <=> LastChunk(f)
  PROVE  /\ Chunk(f, final) \in Block
         /\ BlockInPlace(Chunk(f, final))
         /\ ~final => enc[f].at + ChunkSize <= length[f]
<1>1. /\ enc[f].at = enc[f].counter * ChunkSize /\ enc[f].at <= length[f]
      /\ enc[f].at \in Nat /\ length[f] \in Nat /\ enc[f].counter \in 0..MaxCounter
      /\ ChunkSize \in Nat
  BY StreamAssumption DEF IInv, TypeOK, WritersInPlace
<1>. DEFINE left == length[f] - enc[f].at
<1>2. left \in Nat /\ length[f] = enc[f].at + left
  BY <1>1
<1>3. /\ InHand(f) \in 0..ChunkSize /\ InHand(f) <= left
      /\ LastChunk(f) => InHand(f) = left
      /\ ~LastChunk(f) => InHand(f) = ChunkSize /\ ChunkSize <= left
  BY <1>1, <1>2 DEF InHand, LastChunk, Least
<1>. QED
  BY <1>1, <1>2, <1>3 DEF Chunk, Block, BlockInPlace

Writer == [status : {"sealing", "sealed", "failed"}, counter : 0..MaxCounter, at : Nat]

(* The counter stays in range.                                             *)
LEMMA WriterCounts ==
  ASSUME TypeOK, NEW f \in Files
  PROVE  /\ Counted(f) \in Writer
         /\ Counted(f).status = "sealing" =>
              /\ Counted(f).counter = enc[f].counter + 1
              /\ Counted(f).at = enc[f].at + ChunkSize
<1>. DEFINE e == enc[f]
<1>1. /\ e \in Writer /\ ChunkSize \in Nat /\ MaxCounter \in Nat
  BY StreamAssumption DEF TypeOK, Writer
<1>. HIDE DEF e
<1>2. CASE e.counter < MaxCounter
  <2>1. Counted(f) = [e EXCEPT !.counter = @ + 1, !.at = @ + ChunkSize]
    BY <1>2 DEF Counted, e
  <2>2. Counted(f) = [status |-> e.status, counter |-> e.counter + 1, at |-> e.at + ChunkSize]
    BY <1>1, <2>1 DEF Writer
  <2>3. e.counter + 1 \in 0..MaxCounter /\ e.at + ChunkSize \in Nat
    BY <1>1, <1>2 DEF Writer
  <2>4. e.status \in {"sealing", "sealed", "failed"}
    BY <1>1 DEF Writer
  <2>. QED  BY <2>2, <2>3, <2>4 DEF Writer, e
<1>3. CASE ~(e.counter < MaxCounter)
  <2>1. Counted(f) = [e EXCEPT !.status = "failed"]
    BY <1>3 DEF Counted, e
  <2>. QED  BY <1>1, <2>1 DEF Writer
<1>. QED  BY <1>2, <1>3

(* A writer's step leaves the reader where it was.                         *)
LEMMA WriterStep ==
  ASSUME IInv, NEW f \in Files, SealChunk(f) \/ SealLast(f) \/ SealFails(f)
  PROVE  IInv'
<1>1. length' = length /\ head' = head /\ body' = body /\ dec' = dec /\ out' = out
  BY DEF SealChunk, SealLast, SealFails, decVars
<1>2. ReaderInPlace'
  BY <1>1 DEF IInv, ReaderInPlace, Released
<1>3. CASE SealChunk(f)
  <2>. DEFINE b == Chunk(f, FALSE)
  <2>1. /\ enc[f].status = "sealing" /\ ~LastChunk(f) /\ sealed' = sealed \cup {b}
        /\ enc' = [enc EXCEPT ![f] = Counted(f)]
    BY <1>3 DEF SealChunk
  <2>2. b \in Block /\ BlockInPlace(b) /\ enc[f].at + ChunkSize <= length[f]
    BY <2>1, ChunkInPlace
  <2>. HIDE DEF b
  <2>3. /\ enc[f].counter \in 0..MaxCounter /\ enc[f].at \in Nat
        /\ ChunkSize \in Nat /\ MaxCounter \in Nat
    BY StreamAssumption DEF IInv, TypeOK
  <2>8. Counted(f) \in Writer /\ enc \in [Files -> Writer]
    BY WriterCounts DEF IInv, TypeOK, Writer
  <2>9. enc' \in [Files -> Writer] /\ enc'[f] = Counted(f)
    BY <2>1, <2>8
  <2>4. TypeOK'
    BY <1>1, <2>1, <2>2, <2>9 DEF IInv, TypeOK, Writer
  <2>5. BlocksInPlace'
    BY <1>1, <2>1, <2>2 DEF IInv, BlocksInPlace, BlockInPlace
  <2>6. (enc[f].counter + 1) * ChunkSize = enc[f].counter * ChunkSize + ChunkSize
    BY <2>3, OneMore
  <2>7. WritersInPlace'
    <3>. SUFFICES ASSUME NEW g \in Files, enc'[g].status = "sealing"
                  PROVE  /\ enc'[g].at = enc'[g].counter * ChunkSize
                         /\ enc'[g].at <= length[g]
      BY <1>1 DEF WritersInPlace
    <3>1. CASE g # f
      <4>1. enc'[g] = enc[g]
        BY <2>1, <3>1 DEF IInv, TypeOK
      <4>. QED  BY <4>1 DEF IInv, WritersInPlace
    <3>2. CASE g = f
      <4>1. /\ enc'[f].counter = enc[f].counter + 1
            /\ enc'[f].at = enc[f].at + ChunkSize
        BY <2>9, <3>2, WriterCounts DEF IInv
      <4>2. enc[f].at = enc[f].counter * ChunkSize
        BY <2>1 DEF IInv, WritersInPlace
      <4>. QED  BY <2>2, <2>6, <3>2, <4>1, <4>2
    <3>. QED  BY <3>1, <3>2
  <2>. QED  BY <1>2, <2>4, <2>5, <2>7 DEF IInv
<1>4. CASE SealLast(f)
  <2>. DEFINE b == Chunk(f, TRUE)
  <2>1. /\ enc[f].status = "sealing" /\ LastChunk(f) /\ sealed' = sealed \cup {b}
        /\ enc' = [enc EXCEPT ![f].status = "sealed"]
    BY <1>4 DEF SealLast
  <2>2. b \in Block /\ BlockInPlace(b)
    BY <2>1, ChunkInPlace
  <2>. HIDE DEF b
  <2>3. TypeOK'
    BY <1>1, <2>1, <2>2 DEF IInv, TypeOK
  <2>4. BlocksInPlace'
    BY <1>1, <2>1, <2>2 DEF IInv, BlocksInPlace, BlockInPlace
  <2>5. WritersInPlace'
    BY <1>1, <2>1 DEF IInv, TypeOK, WritersInPlace
  <2>. QED  BY <1>2, <2>3, <2>4, <2>5 DEF IInv
<1>5. CASE SealFails(f)
  <2>1. sealed' = sealed /\ enc' = [enc EXCEPT ![f].status = "failed"]
    BY <1>5 DEF SealFails
  <2>. QED
    BY <1>1, <1>2, <2>1 DEF IInv, TypeOK, BlocksInPlace, BlockInPlace, WritersInPlace
<1>. QED  BY <1>3, <1>4, <1>5

-----------------------------------------------------------------------------
(* A block that opens continues what was released.                         *)
LEMMA OpenedInPlace ==
  ASSUME IInv, dec.status = "reading", NEW final \in BOOLEAN, NEW b \in Opened(final)
  PROVE  /\ b.file = head /\ head \in Files /\ b.size \in Nat
         /\ b.at = dec.counter * ChunkSize /\ b.at \in Nat
         /\ b.at + b.size <= length[head] /\ length[head] \in Nat
         /\ final => b.at + b.size = length[head]
         /\ ~final => b.size = ChunkSize
         /\ out = Prefix(head, b.at)
<1>1. /\ b \in sealed /\ b.file = head /\ b.counter = dec.counter /\ b.final = final
  BY DEF Opened
<1>2. b \in Block /\ BlockInPlace(b) /\ length \in [Files -> Nat]
  BY <1>1 DEF IInv, TypeOK, BlocksInPlace
<1>3. Released(dec.counter * ChunkSize)
  BY DEF IInv, ReaderInPlace
<1>. QED
  BY <1>1, <1>2, <1>3, StreamAssumption DEF Block, BlockInPlace, Released

Reader == [status : {"idle", "opening", "reading", "ok", "header",
                     "truncated", "decrypt", "io"},
           counter : 0..MaxCounter, pos : Nat]

(* The storage and the reader's refusals write nothing.                    *)
LEMMA QuietStep ==
  ASSUME IInv, encVars' = encVars, out' = out, dec'.counter = dec.counter,
         \/ /\ dec.status = "idle" /\ dec'.status = "opening"
            /\ head' \in Files \cup {Foreign, Malformed}
         \/ /\ dec.status = "opening" /\ dec'.status = "reading" /\ head' = head
         \/ /\ dec'.status \in {"header", "truncated", "decrypt", "io"} /\ head' = head,
         dec' \in Reader
  PROVE  IInv'
<1>1. length' = length /\ enc' = enc /\ sealed' = sealed
  BY DEF encVars
<1>2. TypeOK'
  BY <1>1 DEF IInv, TypeOK, Reader
<1>3. BlocksInPlace' /\ WritersInPlace'
  BY <1>1 DEF IInv, BlocksInPlace, BlockInPlace, WritersInPlace
<1>4. CASE dec.status = "idle" /\ dec'.status = "opening"
  <2>1. 0 * ChunkSize = 0 /\ dec.counter = 0
    BY <1>4, StreamAssumption DEF IInv, ReaderInPlace
  <2>2. out = <<>>
    BY <1>4, <2>1, PrefixLength DEF IInv, ReaderInPlace, Released
  <2>3. Released(0)'
    BY <2>2, PrefixLength DEF Released
  <2>4. ReaderInPlace'
    BY <1>4, <2>1, <2>3 DEF ReaderInPlace, Released
  <2>. QED  BY <1>2, <1>3, <2>4 DEF IInv
<1>5. CASE head' = head
  <2>1. \A n \in Nat : Released(n) => Released(n)'
    BY <1>1, <1>5 DEF Released
  <2>2. dec.counter * ChunkSize \in Nat
    BY ProductIsNat, StreamAssumption DEF IInv, TypeOK
  <2>3. \E n \in Nat : Released(n)'
    BY <2>1 DEF IInv, ReaderInPlace
  <2>4. ReaderInPlace'
    BY <1>1, <1>5, <2>1, <2>2, <2>3 DEF IInv, ReaderInPlace, Released
  <2>. QED  BY <1>2, <1>3, <2>4 DEF IInv
<1>. QED  BY <1>4, <1>5

(* A chunk released before the last one.                                   *)
LEMMA OpenChunkStep == ASSUME IInv, OpenChunk PROVE IInv'
<1>1. /\ dec.status = "reading" /\ head' = head
      /\ length' = length /\ enc' = enc /\ sealed' = sealed
  BY DEF OpenChunk, encVars
<1>2. PICK b \in Opened(FALSE) : out' = out \o Plain(b)
  BY DEF OpenChunk
<1>3. /\ b.file = head /\ head \in Files /\ b.size = ChunkSize /\ b.size \in Nat
      /\ b.at = dec.counter * ChunkSize /\ b.at \in Nat
      /\ b.at + b.size <= length[head] /\ length[head] \in Nat
      /\ out = Prefix(head, b.at)
  BY <1>1, <1>2, OpenedInPlace
<1>4. out' = Prefix(head, b.at + b.size)
  BY <1>2, <1>3, PrefixWhole
<1>5. Released(b.at + b.size)'
  BY <1>1, <1>3, <1>4 DEF Released
<1>6. dec \in Reader /\ ChunkSize \in Nat /\ TagLen \in Nat /\ MaxCounter \in Nat
  BY StreamAssumption DEF IInv, TypeOK, Reader
<1>7. (dec.counter + 1) * ChunkSize = b.at + b.size
  BY <1>3, <1>6, OneMore DEF Reader
<1>8. CASE dec.counter < MaxCounter
  <2>1. /\ dec' = [dec EXCEPT !.counter = @ + 1, !.pos = @ + BlockLen]
        /\ dec.counter + 1 \in 0..MaxCounter /\ dec.pos + BlockLen \in Nat
    BY <1>6, <1>8 DEF OpenChunk, Reader, BlockLen
  <2>2. dec' = [status |-> "reading", counter |-> dec.counter + 1,
                pos |-> dec.pos + BlockLen]
    BY <1>1, <1>6, <2>1 DEF Reader
  <2>3. dec' \in Reader
    BY <2>1, <2>2 DEF Reader
  <2>4. ReaderInPlace'
    BY <1>3, <1>5, <1>7, <2>2 DEF ReaderInPlace
  <2>. QED
    BY <1>1, <2>3, <2>4 DEF IInv, TypeOK, Reader, BlocksInPlace, BlockInPlace, WritersInPlace
<1>9. CASE ~(dec.counter < MaxCounter)
  <2>1. dec' = [dec EXCEPT !.status = "truncated"]
    BY <1>9 DEF OpenChunk, Stop
  <2>2. dec' \in Reader /\ dec'.status = "truncated"
    BY <1>6, <2>1 DEF Reader
  <2>3. ReaderInPlace'
    BY <1>3, <1>5, <2>2 DEF ReaderInPlace
  <2>. QED
    BY <1>1, <2>2, <2>3 DEF IInv, TypeOK, Reader, BlocksInPlace, BlockInPlace, WritersInPlace
<1>. QED  BY <1>8, <1>9

(* The last chunk: its flag says that it ends the file.                    *)
LEMMA OpenLastStep == ASSUME IInv, OpenLast PROVE IInv'
<1>1. /\ dec.status = "reading" /\ head' = head
      /\ length' = length /\ enc' = enc /\ sealed' = sealed
      /\ dec' = [dec EXCEPT !.status = "ok"]
  BY DEF OpenLast, Stop, encVars
<1>2. PICK b \in Opened(TRUE) : out' = out \o Plain(b)
  BY DEF OpenLast
<1>3. /\ b.file = head /\ head \in Files /\ b.size \in Nat /\ b.at \in Nat
      /\ b.at + b.size = length[head] /\ length[head] \in Nat
      /\ out = Prefix(head, b.at)
  BY <1>1, <1>2, OpenedInPlace
<1>4. out' = Prefix(head, length[head])
  <2>1. Prefix(head, b.at) \o Plain(b) = Prefix(head, b.at + b.size)
    BY <1>3, PrefixWhole
  <2>. QED  BY <1>2, <1>3, <2>1
<1>5. Released(length[head])'
  BY <1>1, <1>3, <1>4 DEF Released
<1>6. dec' \in Reader /\ dec'.status = "ok"
  BY <1>1 DEF IInv, TypeOK, Reader
<1>7. ReaderInPlace'
  BY <1>1, <1>3, <1>5, <1>6 DEF ReaderInPlace
<1>. QED
  BY <1>1, <1>6, <1>7 DEF IInv, TypeOK, Reader, BlocksInPlace, BlockInPlace, WritersInPlace

(* A write that fails leaves part of a chunk that opened.                  *)
LEMMA WriteFailsStep == ASSUME IInv, WriteFails PROVE IInv'
<1>1. /\ dec.status = "reading" /\ head' = head
      /\ length' = length /\ enc' = enc /\ sealed' = sealed
      /\ dec' = [dec EXCEPT !.status = "io"]
  BY DEF WriteFails, Stop, encVars
<1>2. PICK b \in Opened(LastBlock) : \E n \in 0..b.size :
        out' = out \o SubSeq(Plain(b), 1, n)
  BY DEF WriteFails
<1>3. LastBlock \in BOOLEAN
  BY DEF LastBlock
<1>4. /\ b.file = head /\ head \in Files /\ b.size \in Nat /\ b.at \in Nat
      /\ b.at + b.size <= length[head] /\ length[head] \in Nat
      /\ out = Prefix(head, b.at)
  BY <1>1, <1>2, <1>3, OpenedInPlace
<1>5. PICK n \in 0..b.size : out' = out \o SubSeq(Plain(b), 1, n)
  BY <1>2
<1>6. out' = Prefix(head, b.at + n)
  BY <1>4, <1>5, PrefixGrows
<1>7. Released(b.at + n)'
  BY <1>1, <1>4, <1>6 DEF Released
<1>8. dec' \in Reader /\ dec'.status = "io"
  BY <1>1 DEF IInv, TypeOK, Reader
<1>9. ReaderInPlace'
  BY <1>4, <1>7, <1>8 DEF ReaderInPlace
<1>. QED
  BY <1>1, <1>8, <1>9 DEF IInv, TypeOK, Reader, BlocksInPlace, BlockInPlace, WritersInPlace

LEMMA StepIInv == IInv /\ [Next]_vars => IInv'
<1>. SUFFICES ASSUME IInv, [Next]_vars PROVE IInv'
  OBVIOUS
<1>0. dec \in Reader
  BY DEF IInv, TypeOK, Reader
<1>1. CASE \E f \in Files : SealChunk(f) \/ SealLast(f) \/ SealFails(f)
  BY <1>1, WriterStep
<1>2. CASE Deliver
  <2>1. /\ dec.status = "idle" /\ dec' = [dec EXCEPT !.status = "opening"]
        /\ head' \in Files \cup {Foreign, Malformed}
        /\ encVars' = encVars /\ out' = out
    BY <1>2 DEF Deliver
  <2>2. dec' \in Reader /\ dec'.counter = dec.counter /\ dec'.status = "opening"
    BY <1>0, <2>1 DEF Reader
  <2>. QED  BY <2>1, <2>2, QuietStep
<1>3. CASE OpenHeader
  <2>. DEFINE s == IF head = Malformed THEN "header"
                   ELSE IF Len(body) < TagLen THEN "truncated" ELSE "reading"
  <2>1. /\ dec.status = "opening" /\ dec' = [dec EXCEPT !.status = s]
        /\ head' = head /\ encVars' = encVars /\ out' = out
    BY <1>3 DEF OpenHeader, Stop
  <2>2. s \in {"header", "truncated", "reading"}
    OBVIOUS
  <2>. HIDE DEF s
  <2>3. dec' \in Reader /\ dec'.counter = dec.counter /\ dec'.status = s
    BY <1>0, <2>1, <2>2 DEF Reader
  <2>. QED  BY <2>1, <2>2, <2>3, QuietStep
<1>4. CASE RefuseShort \/ RefuseBlock \/ ReadFails
  <2>1. PICK s \in {"truncated", "decrypt", "io"} : dec' = [dec EXCEPT !.status = s]
    BY <1>4 DEF RefuseShort, RefuseBlock, ReadFails, Stop
  <2>2. head' = head /\ encVars' = encVars /\ out' = out
    BY <1>4 DEF RefuseShort, RefuseBlock, ReadFails
  <2>3. dec' \in Reader /\ dec'.counter = dec.counter /\ dec'.status = s
    BY <1>0, <2>1 DEF Reader
  <2>. QED  BY <2>2, <2>3, QuietStep
<1>5. CASE OpenChunk \/ OpenLast \/ WriteFails
  BY <1>5, OpenChunkStep, OpenLastStep, WriteFailsStep
<1>6. CASE UNCHANGED vars
  BY <1>6 DEF vars, encVars, decVars, IInv, TypeOK, BlocksInPlace, BlockInPlace,
              WritersInPlace, ReaderInPlace, Released
<1>. QED  BY <1>1, <1>2, <1>3, <1>4, <1>5, <1>6 DEF Next

LEMMA SpecIInv == Spec => []IInv
BY InitIInv, StepIInv, PTL DEF Spec

-----------------------------------------------------------------------------
(* Every variable of encrypt_stream and decrypt_stream keeps its type; no  *)
(* block has a counter beyond the limit.                                   *)
THEOREM TypeCorrect == Spec => []TypeOK
BY SpecIInv, PTL DEF IInv

(* encrypt_stream never seals two chunks of a file under one nonce.        *)
THEOREM NoNonceTwice == Spec => []NonceUsedOnce
<1>1. IInv => NonceUsedOnce
  <2>. SUFFICES ASSUME IInv, NEW a \in sealed, NEW b \in sealed,
                       a.file = b.file, a.counter = b.counter, a.final = b.final
                PROVE  a = b
    BY DEF NonceUsedOnce
  <2>1. /\ a \in Block /\ BlockInPlace(a) /\ b \in Block /\ BlockInPlace(b)
        /\ length[a.file] \in Nat
    BY DEF IInv, TypeOK, BlocksInPlace, Block
  <2>2. a.at = b.at /\ a.size = b.size
    <3>1. a.at = b.at
      BY <2>1 DEF BlockInPlace
    <3>2. a.at \in Nat /\ a.size \in Nat /\ b.size \in Nat
      BY <2>1, StreamAssumption DEF Block
    <3>3. CASE a.final
      <4>1. a.at + a.size = length[a.file] /\ b.at + b.size = length[b.file]
        BY <2>1, <3>3, Zenon DEF BlockInPlace
      <4>. QED  BY <3>1, <3>2, <4>1
    <3>4. CASE ~a.final
      <4>1. a.size = ChunkSize /\ b.size = ChunkSize
        BY <2>1, <3>4, Zenon DEF BlockInPlace
      <4>. QED  BY <3>1, <4>1
    <3>. QED  BY <3>1, <3>3, <3>4
  <2>3. \A x, y \in Block :
          /\ x.file = y.file /\ x.counter = y.counter /\ x.final = y.final
          /\ x.at = y.at /\ x.size = y.size
          => x = y
    BY DEF Block
  <2>. QED  BY <2>1, <2>2, <2>3
<1>. QED  BY <1>1, SpecIInv, PTL

(* Whatever the storage returns and however decrypt_stream ends, what it   *)
(* wrote is a prefix of the file whose header it read.                     *)
THEOREM OnlyPrefixes == Spec => []ReleasedIsPrefix
<1>1. IInv => ReleasedIsPrefix
  <2>. SUFFICES ASSUME IInv, out # <<>>
                PROVE  /\ head \in Files /\ Len(out) <= length[head]
                       /\ out = Prefix(head, Len(out))
    BY DEF ReleasedIsPrefix
  <2>1. PICK n \in Nat : Released(n)
    BY DEF IInv, ReaderInPlace
  <2>2. n # 0 /\ Len(out) = n
    BY <2>1, PrefixLength DEF Released
  <2>. QED  BY <2>1, <2>2 DEF Released
<1>. QED  BY <1>1, SpecIInv, PTL

(* decrypt_stream answers Ok only after it has written the whole file.     *)
THEOREM OkOnlyForWholeFiles == Spec => []OkMeansWhole
<1>1. IInv => OkMeansWhole
  BY DEF IInv, ReaderInPlace, Released, OkMeansWhole
<1>. QED  BY <1>1, SpecIInv, PTL

-----------------------------------------------------------------------------
(* A set of numbers that has 0, and with each number the next, has all.    *)
LEMMA LeastOfNaturals ==
  ASSUME NEW T \in SUBSET Nat, T # {}
  PROVE  \E m \in T : \A k \in T : m <= k
<1>. DEFINE R == {p \in Nat \X Nat : p[1] < p[2]}
<1>1. IsWellFoundedOn(R, Nat)
  BY NatLessThanWellFounded DEF OpToRel
<1>2. \E m \in T : \A k \in T : ~ (<<k, m>> \in R)
  <2>. HIDE DEF R
  <2>. QED  BY <1>1, WFMin
<1>3. PICK m \in T : \A k \in T : ~ (<<k, m>> \in R)
  BY <1>2
<1>4. ASSUME NEW k \in T PROVE m <= k
  <2>1. <<k, m>> \in Nat \X Nat /\ <<k, m>>[1] = k /\ <<k, m>>[2] = m
    OBVIOUS
  <2>2. ~ (k < m)
    BY <1>3, <2>1
  <2>. QED  BY <2>2
<1>. QED  BY <1>4

LEMMA Induction ==
  ASSUME NEW T \in SUBSET Nat, 0 \in T, \A n \in T : n + 1 \in T
  PROVE  T = Nat
<1>. DEFINE C == Nat \ T
<1>. SUFFICES ASSUME C # {} PROVE FALSE
  OBVIOUS
<1>1. PICK m \in C : \A k \in C : m <= k
  BY LeastOfNaturals
<1>2. m # 0 /\ m - 1 \in Nat /\ m - 1 \notin C
  BY <1>1
<1>. QED  BY <1>1, <1>2

(* F[k] is the first k of the sequences s, joined.                         *)
Joins(s, F, n) ==
  \A i \in 1..n : F[i] = IF i = 1 THEN s[i] ELSE F[i - 1] \o s[i]

LEMMA JoinExists ==
  ASSUME NEW S, NEW n \in Nat, NEW s \in [1..n -> Seq(S)]
  PROVE  \E F \in [1..n -> Seq(S)] : Joins(s, F, n)
<1>. DEFINE T == {k \in Nat : k <= n => \E F \in [1..k -> Seq(S)] : Joins(s, F, k)}
<1>1. 0 \in T
  <2>1. [i \in 1..0 |-> <<>>] \in [1..0 -> Seq(S)] /\ Joins(s, [i \in 1..0 |-> <<>>], 0)
    BY DEF Joins
  <2>. QED  BY <2>1
<1>2. ASSUME NEW k \in T PROVE k + 1 \in T
  <2>. SUFFICES ASSUME k + 1 <= n
                PROVE  \E F \in [1..(k + 1) -> Seq(S)] : Joins(s, F, k + 1)
    OBVIOUS
  <2>1. PICK F \in [1..k -> Seq(S)] : Joins(s, F, k)
    OBVIOUS
  <2>. DEFINE G == [i \in 1..(k + 1) |->
                     IF i <= k THEN F[i] ELSE IF i = 1 THEN s[i] ELSE F[i - 1] \o s[i]]
  <2>2. ASSUME NEW i \in 1..(k + 1)
        PROVE  G[i] \in Seq(S) /\ G[i] = IF i = 1 THEN s[i] ELSE G[i - 1] \o s[i]
    <3>1. i # 1 => i - 1 \in 1..k /\ G[i - 1] = F[i - 1] /\ F[i - 1] \in Seq(S)
      OBVIOUS
    <3>2. s[i] \in Seq(S)
      OBVIOUS
    <3>3. CASE i <= k
      <4>1. i \in 1..k /\ G[i] = F[i] /\ F[i] \in Seq(S)
        BY <3>3
      <4>2. F[i] = IF i = 1 THEN s[i] ELSE F[i - 1] \o s[i]
        BY <2>1, <4>1 DEF Joins
      <4>. QED  BY <3>1, <4>1, <4>2
    <3>4. CASE ~(i <= k)
      <4>1. G[i] = IF i = 1 THEN s[i] ELSE F[i - 1] \o s[i]
        BY <3>4
      <4>2. i # 1 => F[i - 1] \o s[i] \in Seq(S)
        BY <3>1, <3>2, ConcatProperties
      <4>. QED  BY <3>1, <3>2, <4>1, <4>2
    <3>. QED  BY <3>3, <3>4
  <2>3. G \in [1..(k + 1) -> Seq(S)]
    BY <2>2
  <2>4. Joins(s, G, k + 1)
    BY <2>2 DEF Joins
  <2>. QED  BY <2>3, <2>4
<1>3. T = Nat
  <2>1. T \in SUBSET Nat
    OBVIOUS
  <2>. HIDE DEF T
  <2>. QED  BY <1>1, <1>2, <2>1, Induction
<1>. QED  BY <1>3

LEMMA FlattenJoins ==
  ASSUME NEW S, NEW n \in Nat \ {0}, NEW s \in [1..n -> Seq(S)]
  PROVE  \E F \in [1..n -> Seq(S)] : Joins(s, F, n) /\ FlattenSeq(s) = F[n]
<1>. DEFINE Onward(g) == [i \in 1..n |-> IF i = 1 THEN s[i] ELSE g[i - 1] \o s[i]]
            G == CHOOSE g : g = Onward(g)
            T == {k \in Nat : k + 1 <= n => G[k + 1] \in Seq(S)}
<1>1. s \in Seq(Seq(S)) /\ Len(s) = n
  OBVIOUS
<1>2. FlattenSeq(s) = G[n]
  BY <1>1 DEF FlattenSeq
<1>3. PICK F \in [1..n -> Seq(S)] : Joins(s, F, n)
  BY JoinExists
<1>4. F = Onward(F)
  BY <1>3 DEF Joins
<1>5. G = Onward(G)
  <2>. HIDE DEF Onward
  <2>. QED  BY <1>4
<1>. HIDE DEF G
<1>6. Joins(s, G, n)
  BY <1>5 DEF Joins
<1>7. T = Nat
  <2>1. 0 \in T
    BY <1>6 DEF Joins
  <2>2. ASSUME NEW k \in T PROVE k + 1 \in T
    <3>. SUFFICES ASSUME (k + 1) + 1 <= n PROVE G[(k + 1) + 1] \in Seq(S)
      OBVIOUS
    <3>1. G[k + 1] \in Seq(S) /\ s[(k + 1) + 1] \in Seq(S)
      OBVIOUS
    <3>2. /\ (k + 1) + 1 \in 1..n /\ (k + 1) + 1 # 1
          /\ ((k + 1) + 1) - 1 = k + 1
      OBVIOUS
    <3>3. G[(k + 1) + 1] = G[k + 1] \o s[(k + 1) + 1]
      BY <1>6, <3>2 DEF Joins
    <3>. QED  BY <3>1, <3>3, ConcatProperties
  <2>3. T \in SUBSET Nat
    OBVIOUS
  <2>. HIDE DEF T
  <2>. QED  BY <2>1, <2>2, <2>3, Induction
<1>8. ASSUME NEW i \in 1..n PROVE G[i] \in Seq(S)
  <2>1. i - 1 \in Nat /\ (i - 1) + 1 = i
    OBVIOUS
  <2>2. i - 1 \in T
    <3>. HIDE DEF T
    <3>. QED  BY <1>7, <2>1
  <2>. QED  BY <2>1, <2>2
<1>9. G \in [1..n -> Seq(S)]
  <2>1. DOMAIN G = 1..n /\ G = [i \in DOMAIN G |-> G[i]]
    BY <1>5
  <2>. QED  BY <1>8, <2>1
<1>. QED  BY <1>2, <1>6, <1>9

LEMMA ProductsOrdered ==
  ASSUME NEW a \in Nat, NEW b \in Nat, NEW k \in Nat, a < b
  PROVE  a * k + k <= b * k /\ a * k \in Nat /\ b * k \in Nat
<1>1. PICK d \in Nat : b = a + 1 + d
  <2>1. b - a - 1 \in Nat /\ b = a + 1 + (b - a - 1)
    OBVIOUS
  <2>. QED  BY <2>1
<1>2. b * k = a * k + k + d * k
  BY <1>1
<1>3. a * k \in Nat /\ d * k \in Nat
  OBVIOUS
<1>. QED  BY <1>2, <1>3

(* Where each of the joined sequences lies, when all but the last measure  *)
(* the same.                                                               *)
Placed(s, w, n, size) ==
  /\ Len(w) = (n - 1) * size + Len(s[n])
  /\ \A i \in 1..n : \A j \in 1..Len(s[i]) : w[(i - 1) * size + j] = s[i][j]

LEMMA FlattenPlaces ==
  ASSUME NEW S, NEW n \in Nat \ {0}, NEW s \in [1..n -> Seq(S)], NEW size \in Nat,
         \A i \in 1..(n - 1) : Len(s[i]) = size
  PROVE  FlattenSeq(s) \in Seq(S) /\ Placed(s, FlattenSeq(s), n, size)
<1>1. PICK F \in [1..n -> Seq(S)] : Joins(s, F, n) /\ FlattenSeq(s) = F[n]
  BY FlattenJoins
<1>. DEFINE T == {k \in Nat : k + 1 <= n => Placed(s, F[k + 1], k + 1, size)}
<1>2. 0 \in T
  <2>1. F[1] = s[1]
    BY <1>1 DEF Joins
  <2>2. s[1] \in Seq(S) /\ Len(s[1]) \in Nat /\ (1 - 1) * size = 0
    BY LenProperties
  <2>3. ASSUME NEW i \in 1..1, NEW j \in 1..Len(s[i])
        PROVE  F[1][(i - 1) * size + j] = s[i][j]
    <3>1. i = 1 /\ (i - 1) * size + j = j
      BY <2>2
    <3>. QED  BY <2>1, <3>1
  <2>4. Placed(s, F[1], 1, size)
    <3>1. Len(F[1]) = (1 - 1) * size + Len(s[1])
      <4>. DEFINE l == Len(s[1])
      <4>1. l \in Nat /\ Len(F[1]) = l
        BY <2>1, <2>2
      <4>. HIDE DEF l
      <4>2. l = (1 - 1) * size + l
        BY <4>1
      <4>. QED  BY <4>1, <4>2 DEF l
    <3>. QED  BY <2>3, <3>1, Zenon DEF Placed
  <2>5. 0 + 1 = 1
    OBVIOUS
  <2>. QED  BY <2>4, <2>5
<1>3. ASSUME NEW k \in T PROVE k + 1 \in T
  <2>. DEFINE m == k + 1
  <2>. SUFFICES ASSUME m + 1 <= n PROVE Placed(s, F[m + 1], m + 1, size)
    OBVIOUS
  <2>1. Placed(s, F[m], m, size)
    OBVIOUS
  <2>2. /\ m \in 1..(n - 1) /\ m \in 1..n /\ m + 1 \in 1..n /\ m \in Nat
        /\ (m + 1) - 1 = m /\ m + 1 # 1 /\ m - 1 \in Nat
    OBVIOUS
  <2>. HIDE DEF m
  <2>3. F[m + 1] = F[m] \o s[m + 1]
    BY <1>1, <2>2 DEF Joins
  <2>4. F[m] \in Seq(S) /\ s[m + 1] \in Seq(S) /\ Len(s[m + 1]) \in Nat /\ Len(s[m]) = size
    BY <2>2, LenProperties
  <2>5. Len(F[m]) = m * size /\ m * size \in Nat
    <3>1. (m - 1) * size + size = m * size
      BY <2>2
    <3>. QED  BY <2>1, <2>2, <2>4, <3>1 DEF Placed
  <2>6. /\ Len(F[m + 1]) = m * size + Len(s[m + 1])
        /\ \A i \in 1..(m * size + Len(s[m + 1])) :
             F[m + 1][i] = IF i <= m * size THEN F[m][i] ELSE s[m + 1][i - m * size]
    <3>. DEFINE p == F[m]
                q == s[m + 1]
                w == F[m + 1]
                z == m * size
    <3>1. p \in Seq(S) /\ q \in Seq(S) /\ Len(p) = z /\ w = p \o q
      BY <2>3, <2>4, <2>5
    <3>. HIDE DEF p, q, w, z
    <3>2. /\ Len(p \o q) = Len(p) + Len(q)
          /\ \A i \in 1..(Len(p) + Len(q)) :
               (p \o q)[i] = IF i <= Len(p) THEN p[i] ELSE q[i - Len(p)]
      BY <3>1, ConcatProperties
    <3>3. /\ Len(w) = z + Len(q)
          /\ \A i \in 1..(z + Len(q)) : w[i] = IF i <= z THEN p[i] ELSE q[i - z]
      BY <3>1, <3>2, Zenon
    <3>. QED  BY <3>3 DEF p, q, w, z
  <2>7. ASSUME NEW i \in 1..(m + 1), NEW j \in 1..Len(s[i])
        PROVE  F[m + 1][(i - 1) * size + j] = s[i][j]
    <3>1. CASE i = m + 1
      <4>1. /\ (i - 1) * size + j = m * size + j
            /\ m * size + j \in 1..(m * size + Len(s[m + 1]))
            /\ ~(m * size + j <= m * size) /\ (m * size + j) - m * size = j
        BY <2>2, <2>4, <2>5, <3>1
      <4>. QED  BY <2>6, <3>1, <4>1
    <3>2. CASE i # m + 1
      <4>1. i \in 1..m /\ i - 1 \in Nat /\ i - 1 < m /\ i \in 1..(n - 1)
        BY <2>2, <3>2
      <4>2. Len(s[i]) = size
        BY <4>1
      <4>3. (i - 1) * size + size <= m * size /\ (i - 1) * size \in Nat
        BY <2>2, <4>1, ProductsOrdered
      <4>4. (i - 1) * size + j \in 1..(m * size)
        <5>. DEFINE a == (i - 1) * size
                    z == m * size
        <5>1. a \in Nat /\ z \in Nat /\ a + size <= z /\ j \in 1..size
          BY <2>5, <4>2, <4>3
        <5>. HIDE DEF a, z
        <5>2. a + j \in 1..z
          BY <5>1
        <5>. QED  BY <5>2 DEF a, z
      <4>5. F[m + 1][(i - 1) * size + j] = F[m][(i - 1) * size + j]
        <5>. DEFINE a == (i - 1) * size + j
                    z == m * size
        <5>1. a \in 1..z /\ z \in Nat
          BY <2>5, <4>4
        <5>2. \A x \in 1..(z + Len(s[m + 1])) :
                F[m + 1][x] = IF x <= z THEN F[m][x] ELSE s[m + 1][x - z]
          BY <2>6
        <5>. HIDE DEF a, z
        <5>3. a \in 1..(z + Len(s[m + 1])) /\ a <= z
          BY <2>4, <5>1
        <5>4. F[m + 1][a] = F[m][a]
          BY <5>2, <5>3
        <5>. QED  BY <5>4 DEF a
      <4>6. F[m][(i - 1) * size + j] = s[i][j]
        BY <2>1, <4>1 DEF Placed
      <4>. QED  BY <4>5, <4>6
    <3>. QED  BY <3>1, <3>2
  <2>. QED  BY <2>2, <2>6, <2>7 DEF Placed
<1>4. T = Nat
  <2>1. T \in SUBSET Nat
    OBVIOUS
  <2>. HIDE DEF T
  <2>. QED  BY <1>2, <1>3, <2>1, Induction
<1>5. n - 1 \in Nat /\ (n - 1) + 1 = n /\ n \in 1..n
  OBVIOUS
<1>6. n - 1 \in T
  <2>. HIDE DEF T
  <2>. QED  BY <1>4, <1>5
<1>7. Placed(s, F[n], n, size)
  BY <1>5, <1>6
<1>. QED  BY <1>1, <1>5, <1>7
-----------------------------------------------------------------------------
(* The chunks of a file: those that another follows, and the last.         *)
Inner(f, c) ==
  [file |-> f, counter |-> c, final |-> FALSE, at |-> c * ChunkSize, size |-> ChunkSize]

Final(f) ==
  LET c == enc[f].counter
  IN  [file |-> f, counter |-> c, final |-> TRUE,
       at |-> c * ChunkSize, size |-> length[f] - c * ChunkSize]

BlocksOf(f) == {b \in sealed : b.file = f}

Inners(f) == {Inner(f, c) : c \in 0..(enc[f].counter - 1)}

(* What is sealed of a file that has not failed.                           *)
FileInOrder(f) ==
  /\ enc[f].status = "sealing" => BlocksOf(f) = Inners(f)
  /\ enc[f].status = "sealed" => BlocksOf(f) = Inners(f) \cup {Final(f)}

FilesInOrder == \A f \in Files : FileInOrder(f)

(* The reader begins when the writers have stopped, and counts the blocks  *)
(* it goes through.                                                        *)
WritersStopped == dec.status # "idle" => \A f \in Files : enc[f].status # "sealing"

ReaderCounts ==
  dec.status \in {"idle", "opening", "reading"} => dec.pos = dec.counter * BlockLen

Intact(f) == enc[f].status = "sealed" /\ head = f /\ body = Written(f)

(* An intact file is never refused, and the reader never goes beyond its   *)
(* last block.                                                             *)
IntactReads ==
  \A f \in Files :
    Intact(f) => /\ dec.status \notin {"header", "truncated", "decrypt"}
                 /\ dec.status = "reading" => dec.counter <= enc[f].counter

JInv == FilesInOrder /\ WritersStopped /\ ReaderCounts /\ IntactReads

LEMMA InitJInv == Init => JInv
<1>. SUFFICES ASSUME Init PROVE JInv
  OBVIOUS
<1>1. FilesInOrder
  BY DEF Init, FilesInOrder, FileInOrder, BlocksOf, Inners
<1>2. WritersStopped
  BY DEF Init, WritersStopped
<1>3. ReaderCounts
  <2>1. BlockLen \in Nat
    BY StreamAssumption DEF BlockLen
  <2>2. 0 = 0 * BlockLen
    BY <2>1
  <2>. QED  BY <2>2 DEF Init, ReaderCounts
<1>4. IntactReads
  BY DEF Init, IntactReads
<1>. QED  BY <1>1, <1>2, <1>3, <1>4 DEF JInv

(* The blocks of a file sealed to its end, one for each counter.           *)
Nth(f, c) == IF c = enc[f].counter THEN Final(f) ELSE Inner(f, c)

LEMMA BlockOfCounter ==
  ASSUME IInv, JInv, NEW f \in Files, enc[f].status = "sealed"
  PROVE  /\ enc[f].counter \in Nat /\ Cardinality(BlocksOf(f)) = enc[f].counter + 1
         /\ \A c \in 0..enc[f].counter :
              /\ Nth(f, c) \in BlocksOf(f) /\ Nth(f, c) \in Block
              /\ (CHOOSE b \in BlocksOf(f) : b.counter = c) = Nth(f, c)
<1>. DEFINE last == enc[f].counter
            B == BlocksOf(f)
<1>1. last \in Nat
  BY DEF IInv, TypeOK
<1>2. B = Inners(f) \cup {Final(f)} /\ B \subseteq Block
  BY DEF IInv, TypeOK, JInv, FilesInOrder, FileInOrder, BlocksOf
<1>3. \A c \in 0..last : Nth(f, c).counter = c
  BY DEF Nth, Final, Inner
<1>4. \A c \in 0..last : Nth(f, c) \in B
  BY <1>1, <1>2 DEF Nth, Inners
<1>5. \A b \in B : b.counter \in 0..last /\ b = Nth(f, b.counter)
  <2>1. ASSUME NEW c \in 0..(last - 1)
        PROVE  Inner(f, c).counter \in 0..last /\ Inner(f, c) = Nth(f, Inner(f, c).counter)
    BY <1>1 DEF Inner, Nth
  <2>2. Final(f).counter \in 0..last /\ Final(f) = Nth(f, Final(f).counter)
    BY <1>1 DEF Final, Nth
  <2>. QED  BY <1>2, <2>1, <2>2 DEF Inners
<1>. HIDE DEF B
<1>6. ASSUME NEW c \in 0..last
      PROVE  (CHOOSE b \in B : b.counter = c) = Nth(f, c)
  BY <1>3, <1>4, <1>5
<1>7. Cardinality(B) = last + 1
  <2>. DEFINE g == [i \in 1..(last + 1) |-> Nth(f, i - 1)]
  <2>1. \A i \in 1..(last + 1) : i - 1 \in 0..last /\ g[i] = Nth(f, i - 1)
    BY <1>1
  <2>2. g \in [1..(last + 1) -> B]
    BY <1>4, <2>1
  <2>3. ASSUME NEW i \in 1..(last + 1), NEW j \in 1..(last + 1), g[i] = g[j]
        PROVE  i = j
    <3>1. i - 1 = j - 1
      BY <1>3, <2>1, <2>3
    <3>. QED  BY <1>1, <3>1
  <2>4. ASSUME NEW b \in B PROVE \E i \in 1..(last + 1) : g[i] = b
    <3>1. b.counter + 1 \in 1..(last + 1) /\ (b.counter + 1) - 1 = b.counter
      BY <1>1, <1>5
    <3>2. g[b.counter + 1] = b
      BY <1>5, <2>1, <3>1
    <3>. QED  BY <3>1, <3>2
  <2>. HIDE DEF g
  <2>5. g \in Bijection(1..(last + 1), B)
    BY <2>2, <2>3, <2>4 DEF Bijection, Injection, Surjection, IsInjective
  <2>6. ExistsBijection(1..(last + 1), B)
    BY <2>5 DEF ExistsBijection
  <2>. QED  BY <1>1, <2>6, FS_CountingElements
<1>. QED  BY <1>1, <1>2, <1>4, <1>6, <1>7 DEF B

Cells == {[block |-> b, byte |-> i] : b \in Block, i \in Nat}

LEMMA CipherType ==
  ASSUME NEW b \in Block
  PROVE  /\ Cipher(b) \in Seq(Cells) /\ Len(Cipher(b)) = b.size + TagLen
         /\ b.size \in 0..ChunkSize /\ b.size + TagLen \in Nat
<1>1. b.size \in 0..ChunkSize /\ b.size + TagLen \in Nat
  BY StreamAssumption DEF Block
<1>2. \A i \in 1..(b.size + TagLen) : [block |-> b, byte |-> i] \in Cells
  BY <1>1 DEF Cells
<1>. QED  BY <1>1, <1>2 DEF Cipher

(* How long the container of a file is, and what is where in it.           *)
LEMMA WrittenShape ==
  ASSUME IInv, JInv, NEW f \in Files, enc[f].status = "sealed"
  PROVE  LET w == Written(f)
             last == enc[f].counter
         IN  /\ w \in Seq(Cells)
             /\ Len(w) = last * BlockLen + Final(f).size + TagLen
             /\ \A c \in 0..last : \A j \in 1..(Nth(f, c).size + TagLen) :
                  w[c * BlockLen + j] = Cipher(Nth(f, c))[j]
<1>. DEFINE last == enc[f].counter
            n == last + 1
            s == [c \in 1..n |-> Cipher(Nth(f, c - 1))]
<1>1. last \in Nat /\ n \in Nat \ {0} /\ BlockLen \in Nat
  BY BlockOfCounter, StreamAssumption DEF BlockLen
<1>2. \A c \in 1..n : c - 1 \in 0..last
  BY <1>1
<1>3. Written(f) = FlattenSeq(s)
  <2>1. [c \in 1..Cardinality(BlocksOf(f)) |-> Cipher(CHOOSE b \in BlocksOf(f) : b.counter = c - 1)]
          = [c \in 1..n |-> Cipher(CHOOSE b \in BlocksOf(f) : b.counter = c - 1)]
    BY BlockOfCounter
  <2>2. \A c \in 1..n : (CHOOSE b \in BlocksOf(f) : b.counter = c - 1) = Nth(f, c - 1)
    BY <1>2, BlockOfCounter
  <2>. QED  BY <2>1, <2>2 DEF Written, BlocksOf
<1>4. \A c \in 1..n : /\ s[c] = Cipher(Nth(f, c - 1)) /\ s[c] \in Seq(Cells)
                       /\ Len(s[c]) = Nth(f, c - 1).size + TagLen
  BY <1>2, BlockOfCounter, CipherType
<1>5. s \in [1..n -> Seq(Cells)]
  BY <1>4
<1>6. \A c \in 1..(n - 1) : Len(s[c]) = BlockLen
  <2>. SUFFICES ASSUME NEW c \in 1..(n - 1) PROVE Len(s[c]) = BlockLen
    OBVIOUS
  <2>1. c \in 1..n /\ c - 1 # last
    BY <1>1
  <2>2. Nth(f, c - 1).size = ChunkSize
    BY <2>1 DEF Nth, Inner
  <2>. QED  BY <1>4, <2>1, <2>2 DEF BlockLen
<1>. HIDE DEF s
<1>7. FlattenSeq(s) \in Seq(Cells) /\ Placed(s, FlattenSeq(s), n, BlockLen)
  BY <1>1, <1>5, <1>6, FlattenPlaces
<1>8. Len(FlattenSeq(s)) = last * BlockLen + Final(f).size + TagLen
  <2>1. n \in 1..n /\ n - 1 = last
    BY <1>1
  <2>2. Len(s[n]) = Final(f).size + TagLen
    BY <1>4, <2>1 DEF Nth
  <2>3. Final(f) \in Block
    BY <1>1, BlockOfCounter DEF Nth
  <2>4. Final(f).size + TagLen \in Nat /\ Final(f).size \in Nat /\ TagLen \in Nat /\ last * BlockLen \in Nat
    BY <1>1, <2>3, CipherType, ProductIsNat, StreamAssumption
  <2>5. Len(FlattenSeq(s)) = last * BlockLen + (Final(f).size + TagLen)
    BY <1>7, <2>1, <2>2 DEF Placed
  <2>. QED  BY <2>4, <2>5
<1>9. ASSUME NEW c \in 0..last, NEW j \in 1..(Nth(f, c).size + TagLen)
      PROVE  FlattenSeq(s)[c * BlockLen + j] = Cipher(Nth(f, c))[j]
  <2>1. c + 1 \in 1..n /\ (c + 1) - 1 = c
    BY <1>1
  <2>2. s[c + 1] = Cipher(Nth(f, c)) /\ Len(s[c + 1]) = Nth(f, c).size + TagLen
    BY <1>4, <2>1
  <2>. QED  BY <1>7, <2>1, <2>2 DEF Placed
<1>. QED  BY <1>3, <1>7, <1>8, <1>9

(* What the reader of an intact file has in hand: a block with another to  *)
(* follow, or the last.                                                    *)
LEMMA BlockInHand ==
  ASSUME IInv, JInv, NEW f \in Files, Intact(f), dec.status = "reading"
  PROVE  LET c == dec.counter
         IN  /\ c \in 0..enc[f].counter
             /\ Cur = Cipher(Nth(f, c)) /\ Nth(f, c) \in Block
             /\ Nth(f, c) \in sealed /\ Nth(f, c).file = f /\ Nth(f, c).counter = c
             /\ c # enc[f].counter => ~LastBlock /\ NextLen >= TagLen /\ ~Nth(f, c).final
             /\ c = enc[f].counter => LastBlock /\ Nth(f, c).final
<1>. DEFINE c == dec.counter
            last == enc[f].counter
            p == c * BlockLen
            q == last * BlockLen
            b == Nth(f, c)
            size == Final(f).size
<1>1. /\ enc[f].status = "sealed" /\ body = Written(f) /\ dec.pos = p
      /\ last \in Nat /\ c \in 0..last /\ c \in Nat
  BY BlockOfCounter DEF JInv, Intact, IntactReads, ReaderCounts, IInv, TypeOK
<1>2. /\ b \in Block /\ b \in sealed /\ b.file = f /\ b.counter = c
      /\ b.final <=> c = last
  <2>1. b \in Block /\ b \in BlocksOf(f)
    BY <1>1, BlockOfCounter
  <2>2. b.counter = c /\ (b.final <=> c = last)
    BY <1>1 DEF Nth, Inner, Final
  <2>. QED  BY <2>1, <2>2 DEF BlocksOf
<1>3. /\ body \in Seq(Cells) /\ Len(body) = q + size + TagLen
      /\ \A j \in 1..(b.size + TagLen) : body[p + j] = Cipher(b)[j]
  BY <1>1, WrittenShape
<1>4. /\ BlockLen = ChunkSize + TagLen /\ ChunkSize \in Nat /\ TagLen \in Nat \ {0}
      /\ BlockLen \in Nat
      /\ size \in 0..ChunkSize /\ p \in Nat /\ q \in Nat
  <2>1. Final(f) \in Block
    BY <1>1, BlockOfCounter DEF Nth
  <2>2. ChunkSize \in Nat /\ TagLen \in Nat \ {0} /\ BlockLen \in Nat
    BY StreamAssumption DEF BlockLen
  <2>. QED  BY <1>1, <2>1, <2>2, CipherType, ProductIsNat DEF BlockLen
<1>5. c # last => p + BlockLen <= q
  BY <1>1, <1>4, ProductsOrdered
<1>6. b.size = IF c = last THEN size ELSE ChunkSize
  BY DEF Nth, Inner
<1>. HIDE DEF p, q, size, b
<1>7. c # last => CurLen = BlockLen /\ NextLen >= TagLen /\ ~LastBlock
  BY <1>1, <1>3, <1>4, <1>5 DEF CurLen, NextLen, LastBlock, Least
<1>8. c = last => CurLen = size + TagLen /\ NextLen = 0 /\ LastBlock
  <2>. SUFFICES ASSUME c = last PROVE CurLen = size + TagLen /\ NextLen = 0 /\ LastBlock
    OBVIOUS
  <2>1. p = q
    BY DEF p, q
  <2>2. CurLen = size + TagLen
    BY <1>1, <1>3, <1>4, <2>1 DEF CurLen, Least
  <2>3. NextLen = 0
    BY <1>1, <1>3, <1>4, <2>1, <2>2 DEF NextLen, Least
  <2>. QED  BY <2>2, <2>3 DEF LastBlock
<1>9. CurLen = b.size + TagLen /\ CurLen \in Nat /\ p + CurLen <= Len(body)
  <2>1. CASE c # last
    <3>1. CurLen = b.size + TagLen /\ CurLen = BlockLen
      BY <1>4, <1>6, <1>7, <2>1
    <3>2. p + BlockLen <= q /\ q <= Len(body)
      BY <1>3, <1>4, <1>5, <2>1
    <3>. QED  BY <1>3, <1>4, <3>1, <3>2
  <2>2. CASE c = last
    <3>1. p = q
      BY <2>2 DEF p, q
    <3>. QED  BY <1>3, <1>4, <1>6, <1>8, <2>2, <3>1
  <2>. QED  BY <2>1, <2>2
<1>10. Cur = Cipher(b)
  <2>1. \A i \in (p + 1)..(p + CurLen) : body[i] \in Cells
    BY <1>3, <1>4, <1>9, ElementOfSeq
  <2>2. /\ Cur \in Seq(Cells) /\ Len(Cur) = CurLen
        /\ \A i \in 1..CurLen : Cur[i] = body[p + i]
    <3>. DEFINE m == p + 1
                n == p + CurLen
    <3>1. m \in Int /\ n \in Int /\ Cur = SubSeq(body, m, n) /\ \A i \in m..n : body[i] \in Cells
      BY <1>1, <1>4, <1>9, <2>1 DEF Cur
    <3>2. /\ n - m + 1 = CurLen /\ (m <= n \/ CurLen = 0)
          /\ \A i \in 1..CurLen : m + i - 1 = p + i
      BY <1>4, <1>9
    <3>. HIDE DEF m, n
    <3>3. /\ Cur \in Seq(Cells) /\ Len(Cur) = IF m <= n THEN n - m + 1 ELSE 0
          /\ \A i \in 1..(n - m + 1) : Cur[i] = body[m + i - 1]
      BY <3>1, SubSeqProperties
    <3>. QED  BY <3>2, <3>3
  <2>4. Cipher(b) \in Seq(Cells) /\ Len(Cipher(b)) = CurLen
    BY <1>2, <1>9, CipherType
  <2>5. \A i \in 1..CurLen : Cur[i] = Cipher(b)[i]
    BY <1>3, <1>9, <2>2
  <2>. QED  BY <2>2, <2>4, <2>5, SeqEqual
<1>. QED  BY <1>1, <1>2, <1>7, <1>8, <1>10 DEF b

(* A writer adds to its own file, while nothing is read.                   *)
LEMMA WriterJInv ==
  ASSUME IInv, JInv, NEW f \in Files, SealChunk(f) \/ SealLast(f) \/ SealFails(f)
  PROVE  JInv'
<1>1. /\ enc[f].status = "sealing" /\ dec.status = "idle"
      /\ length' = length /\ dec' = dec /\ ChunkSize \in Nat
      /\ enc[f].counter \in 0..MaxCounter /\ MaxCounter \in Nat
      /\ enc[f].at = enc[f].counter * ChunkSize
      /\ BlocksOf(f) = Inners(f)
  BY StreamAssumption DEF SealChunk, SealLast, SealFails, decVars, JInv, WritersStopped,
       FilesInOrder, FileInOrder, IInv, TypeOK, WritersInPlace
<1>2. WritersStopped' /\ ReaderCounts' /\ IntactReads'
  BY <1>1 DEF JInv, WritersStopped, ReaderCounts, IntactReads
<1>3. ASSUME NEW g \in Files, g # f PROVE FileInOrder(g)'
  <2>1. enc'[g] = enc[g]
    BY <1>3 DEF SealChunk, SealLast, SealFails, IInv, TypeOK
  <2>2. BlocksOf(g)' = BlocksOf(g)
    BY <1>3 DEF SealChunk, SealLast, SealFails, BlocksOf, Chunk
  <2>. QED
    BY <1>1, <2>1, <2>2 DEF JInv, FilesInOrder, FileInOrder, Inners, Inner, Final
<1>4. FileInOrder(f)'
  <2>1. CASE SealChunk(f)
    <3>1. /\ ~LastChunk(f) /\ sealed' = sealed \cup {Chunk(f, FALSE)} /\ enc'[f] = Counted(f)
      BY <2>1 DEF SealChunk, IInv, TypeOK
    <3>2. Chunk(f, FALSE) = Inner(f, enc[f].counter)
      <4>1. InHand(f) = ChunkSize
        BY <1>1, <3>1, ChunkInPlace DEF InHand, LastChunk, Least, IInv, TypeOK
      <4>. QED  BY <1>1, <4>1 DEF Chunk, Inner
    <3>3. BlocksOf(f)' = Inners(f) \cup {Inner(f, enc[f].counter)}
      <4>1. Chunk(f, FALSE).file = f
        BY DEF Chunk
      <4>2. BlocksOf(f)' = BlocksOf(f) \cup {Chunk(f, FALSE)}
        BY <3>1, <4>1 DEF BlocksOf
      <4>. QED  BY <1>1, <3>2, <4>2
    <3>4. Counted(f).status \in {"sealing", "failed"}
      BY <1>1 DEF Counted, IInv, TypeOK
    <3>5. CASE enc'[f].status = "sealing"
      <4>1. enc'[f].counter = enc[f].counter + 1
        BY <3>1, <3>5, WriterCounts DEF IInv
      <4>2. Inners(f)' = Inners(f) \cup {Inner(f, enc[f].counter)}
        <5>1. 0..((enc[f].counter + 1) - 1) = 0..(enc[f].counter - 1) \cup {enc[f].counter}
          BY <1>1
        <5>. QED  BY <4>1, <5>1 DEF Inners, Inner
      <4>. QED  BY <3>3, <3>5, <4>2 DEF FileInOrder
    <3>. QED  BY <3>1, <3>4, <3>5 DEF FileInOrder
  <2>2. CASE SealLast(f)
    <3>1. /\ LastChunk(f) /\ sealed' = sealed \cup {Chunk(f, TRUE)}
          /\ enc'[f].status = "sealed" /\ enc'[f].counter = enc[f].counter
      BY <2>2 DEF SealLast, IInv, TypeOK
    <3>2. Chunk(f, TRUE) = Final(f)
      <4>1. InHand(f) = length[f] - enc[f].at
        <5>1. /\ length[f] \in Nat /\ enc[f].at \in Nat /\ enc[f].at <= length[f]
          BY <1>1 DEF IInv, TypeOK, WritersInPlace
        <5>. QED  BY <1>1, <3>1, <5>1 DEF InHand, LastChunk, Least
      <4>. QED  BY <1>1, <4>1 DEF Chunk, Final
    <3>3. BlocksOf(f)' = Inners(f) \cup {Final(f)}
      <4>1. Chunk(f, TRUE).file = f
        BY DEF Chunk
      <4>2. BlocksOf(f)' = BlocksOf(f) \cup {Chunk(f, TRUE)}
        BY <3>1, <4>1 DEF BlocksOf
      <4>. QED  BY <1>1, <3>2, <4>2
    <3>4. Inners(f)' = Inners(f) /\ Final(f)' = Final(f)
      BY <1>1, <3>1 DEF Inners, Inner, Final
    <3>. QED  BY <3>1, <3>3, <3>4 DEF FileInOrder
  <2>3. CASE SealFails(f)
    BY <2>3 DEF SealFails, IInv, TypeOK, FileInOrder
  <2>. QED  BY <2>1, <2>2, <2>3
<1>5. FilesInOrder'
  BY <1>3, <1>4 DEF FilesInOrder
<1>. QED  BY <1>2, <1>5 DEF JInv

(* What the reader does leaves the files as they are.                      *)
LEMMA FilesKept ==
  ASSUME JInv, encVars' = encVars
  PROVE  /\ FilesInOrder' /\ length' = length /\ enc' = enc /\ sealed' = sealed
         /\ \A f \in Files : Written(f)' = Written(f)
<1>1. length' = length /\ enc' = enc /\ sealed' = sealed
  BY DEF encVars
<1>. QED
  BY <1>1 DEF JInv, FilesInOrder, FileInOrder, BlocksOf, Inners, Inner, Final, Written

LEMMA ReaderJInv ==
  ASSUME IInv, JInv, encVars' = encVars, head' = head, body' = body,
         dec.status # "idle",
         dec'.status = "reading" => dec'.pos = dec'.counter * BlockLen,
         dec'.status \notin {"idle", "opening"},
         \A f \in Files : Intact(f) =>
           /\ dec'.status \notin {"header", "truncated", "decrypt"}
           /\ dec'.status = "reading" => dec'.counter <= enc[f].counter
  PROVE  JInv'
<1>1. FilesInOrder' /\ enc' = enc /\ \A f \in Files : Intact(f)' = Intact(f)
  BY FilesKept DEF Intact
<1>2. WritersStopped' /\ ReaderCounts'
  BY <1>1 DEF JInv, WritersStopped, ReaderCounts
<1>3. IntactReads'
  BY <1>1 DEF IntactReads
<1>. QED  BY <1>1, <1>2, <1>3 DEF JInv

LEMMA StepJInv == IInv /\ JInv /\ [Next]_vars => JInv'
<1>. SUFFICES ASSUME IInv, JInv, [Next]_vars PROVE JInv'
  OBVIOUS
<1>0. /\ dec \in Reader /\ MaxCounter \in Nat
      /\ \A f \in Files : enc[f].counter \in 0..MaxCounter
  BY StreamAssumption DEF IInv, TypeOK, Reader
<1>1. CASE \E f \in Files : SealChunk(f) \/ SealLast(f) \/ SealFails(f)
  BY <1>1, WriterJInv
<1>2. CASE Deliver
  <2>1. /\ dec.status = "idle" /\ dec' = [dec EXCEPT !.status = "opening"]
        /\ encVars' = encVars /\ \A f \in Files : enc[f].status # "sealing"
    BY <1>2 DEF Deliver
  <2>2. dec'.status = "opening" /\ dec'.pos = dec.pos /\ dec'.counter = dec.counter
    BY <1>0, <2>1 DEF Reader
  <2>3. FilesInOrder' /\ enc' = enc
    BY <2>1, FilesKept
  <2>4. WritersStopped' /\ ReaderCounts' /\ IntactReads'
    BY <2>1, <2>2, <2>3 DEF JInv, WritersStopped, ReaderCounts, IntactReads
  <2>. QED  BY <2>3, <2>4 DEF JInv
<1>3. CASE OpenHeader
  <2>. DEFINE s == IF head = Malformed THEN "header"
                   ELSE IF Len(body) < TagLen THEN "truncated" ELSE "reading"
  <2>1. /\ dec.status = "opening" /\ dec' = [dec EXCEPT !.status = s]
        /\ head' = head /\ body' = body /\ encVars' = encVars
    BY <1>3 DEF OpenHeader, Stop
  <2>2. /\ dec'.status = s /\ dec'.pos = dec'.counter * BlockLen
        /\ dec'.counter = 0
    BY <1>0, <2>1 DEF Reader, JInv, ReaderCounts, IInv, ReaderInPlace
  <2>3. ASSUME NEW f \in Files, Intact(f) PROVE s = "reading"
    <3>1. head # Malformed
      BY <2>3, StreamAssumption DEF Intact
    <3>2. Len(body) = enc[f].counter * BlockLen + Final(f).size + TagLen
      BY <2>3, WrittenShape DEF Intact
    <3>3. /\ enc[f].counter * BlockLen \in Nat /\ TagLen \in Nat /\ Final(f).size \in Nat
      <4>1. enc[f].counter \in Nat /\ Final(f) \in Block
        BY <2>3, BlockOfCounter DEF Intact, Nth
      <4>. QED  BY <4>1, CipherType, ProductIsNat, StreamAssumption DEF BlockLen
    <3>. QED  BY <3>1, <3>2, <3>3
  <2>. HIDE DEF s
  <2>4. \A f \in Files : 0 <= enc[f].counter
    BY <1>0
  <2>5. s \in {"header", "truncated", "reading"}
    BY DEF s
  <2>. QED  BY <2>1, <2>2, <2>3, <2>4, <2>5, ReaderJInv
<1>4. CASE OpenChunk
  <2>1. /\ dec.status = "reading" /\ ~LastBlock
        /\ head' = head /\ body' = body /\ encVars' = encVars
        /\ dec.pos = dec.counter * BlockLen /\ dec.counter \in 0..MaxCounter
    BY <1>0, <1>4 DEF OpenChunk, JInv, ReaderCounts, Reader
  <2>2. \A f \in Files : Intact(f) => dec.counter < enc[f].counter
    BY <1>0, <2>1, BlockInHand
  <2>3. CASE dec.counter < MaxCounter
    <3>1. /\ dec' = [dec EXCEPT !.counter = @ + 1, !.pos = @ + BlockLen]
          /\ dec.pos \in Nat /\ BlockLen \in Nat
      BY <1>0, <1>4, <2>3, StreamAssumption DEF OpenChunk, Reader, BlockLen
    <3>2. /\ dec'.status = "reading" /\ dec'.counter = dec.counter + 1
          /\ dec'.pos = dec.pos + BlockLen
      BY <1>0, <2>1, <3>1 DEF Reader
    <3>3. (dec.counter + 1) * BlockLen = dec.counter * BlockLen + BlockLen
      BY <2>1, <3>1, OneMore
    <3>4. \A f \in Files : Intact(f) => dec'.counter <= enc[f].counter
      BY <1>0, <2>1, <2>2, <3>2
    <3>. QED  BY <2>1, <3>2, <3>3, <3>4, ReaderJInv
  <2>4. CASE ~(dec.counter < MaxCounter)
    <3>1. dec' = [dec EXCEPT !.status = "truncated"]
      BY <1>4, <2>4 DEF OpenChunk, Stop
    <3>2. dec'.status = "truncated"
      BY <1>0, <3>1 DEF Reader
    <3>3. \A f \in Files : ~Intact(f)
      BY <1>0, <2>1, <2>2, <2>4
    <3>. QED  BY <2>1, <3>2, <3>3, ReaderJInv
  <2>. QED  BY <2>3, <2>4
<1>5. CASE OpenLast \/ ReadFails \/ WriteFails
  <2>1. PICK s \in {"ok", "io"} : dec' = [dec EXCEPT !.status = s]
    BY <1>5 DEF OpenLast, ReadFails, WriteFails, Stop
  <2>2. /\ dec.status # "idle" /\ head' = head /\ body' = body /\ encVars' = encVars
    BY <1>5 DEF OpenLast, ReadFails, WriteFails
  <2>3. dec'.status = s
    BY <1>0, <2>1 DEF Reader
  <2>. QED  BY <2>2, <2>3, ReaderJInv
<1>6. CASE RefuseShort \/ RefuseBlock
  <2>1. PICK s \in {"truncated", "decrypt"} : dec' = [dec EXCEPT !.status = s]
    BY <1>6 DEF RefuseShort, RefuseBlock, Stop
  <2>2. /\ dec.status = "reading" /\ head' = head /\ body' = body /\ encVars' = encVars
    BY <1>6 DEF RefuseShort, RefuseBlock
  <2>3. dec'.status = s
    BY <1>0, <2>1 DEF Reader
  <2>4. ASSUME NEW f \in Files, Intact(f) PROVE FALSE
    <3>. DEFINE b == Nth(f, dec.counter)
    <3>1. /\ Cur = Cipher(b) /\ b \in sealed /\ b.file = head /\ b.counter = dec.counter
          /\ b.final = LastBlock /\ (~LastBlock => NextLen >= TagLen)
      <4>1. b.final \in BOOLEAN /\ LastBlock \in BOOLEAN
        BY <2>2, <2>4, BlockInHand DEF Block, LastBlock
      <4>. QED  BY <2>2, <2>4, <4>1, BlockInHand DEF Intact
    <3>. HIDE DEF b
    <3>2. b \in Opened(LastBlock)
      BY <3>1 DEF Opened
    <3>3. NextLen \in Int /\ TagLen \in Int
      <4>1. Len(body) \in Nat
        BY <2>4, WrittenShape, LenProperties DEF Intact
      <4>. QED
        BY <1>0, <4>1, StreamAssumption DEF NextLen, CurLen, Least, BlockLen, Reader
    <3>4. CASE RefuseShort
      BY <3>1, <3>3, <3>4 DEF RefuseShort
    <3>5. CASE RefuseBlock
      BY <3>2, <3>5 DEF RefuseBlock
    <3>. QED  BY <1>6, <3>4, <3>5
  <2>. QED  BY <2>2, <2>3, <2>4, ReaderJInv
<1>7. CASE UNCHANGED vars
  <2>1. encVars' = encVars /\ dec' = dec /\ head' = head /\ body' = body
    BY <1>7 DEF vars, decVars
  <2>2. FilesInOrder' /\ enc' = enc /\ \A f \in Files : Intact(f)' = Intact(f)
    BY <2>1, FilesKept DEF Intact
  <2>. QED
    BY <2>1, <2>2 DEF JInv, WritersStopped, ReaderCounts, IntactReads
<1>. QED  BY <1>1, <1>2, <1>3, <1>4, <1>5, <1>6, <1>7 DEF Next

(* A file sealed to its end by encrypt_stream and given back as it was     *)
(* written is not refused by decrypt_stream, whatever its length.          *)
THEOREM IntactIsNotRefused == Spec => []IntactOpens
<1>1. IInv /\ JInv => IntactOpens
  BY DEF JInv, IntactReads, Intact, IntactOpens
<1>2. Spec => []JInv
  BY InitJInv, StepJInv, SpecIInv, PTL DEF Spec
<1>. QED  BY <1>1, <1>2, SpecIInv, PTL
=============================================================================
