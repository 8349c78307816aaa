-------------------------------- MODULE Ecc --------------------------------
(***************************************************************************)
(* Error correction of a stream of bytes in blocks                         *)
(* (src/crates/quipu-nucleo/src/ecc.rs). The Reed-Solomon code underneath  *)
(* is a library's: an encoder adds parity bytes to the data, so that words *)
(* of one length differ in more bytes than they have of parity, and a      *)
(* decoder answers with the word that differs in at most half of them,     *)
(* whether or not it is the one that was written, or fails.                *)
(***************************************************************************)
EXTENDS Codec, FiniteSets

CONSTANTS
  Block,         \* 255, the size of a full block
  HeaderParity,  \* HEADER_PARITY
  LengthBytes,   \* 4, the bytes of the length in the header
  MaxParity,     \* PARIDAD_MAXIMA
  Check(_, _)    \* the parity bytes the encoder adds: how many, to which data

Bytes == 0..(Radix - 1)

HeaderData == 1 + LengthBytes              \* HEADER
HeaderSize == HeaderData + HeaderParity    \* HEADER_BLOCK
HeaderFixes == HeaderParity \div 2

CeilDiv(a, b) == (a + b - 1) \div b

BlockWord(d, parity) == d \o Check(parity, d)
Distance(a, b) == Cardinality({i \in 1..Len(a) : a[i] # b[i]})

(* The encoder tells words of n bytes of data apart by more bytes than it  *)
(* adds to them.                                                           *)
IsCode(n, parity) ==
  \A d \in [1..n -> Bytes] :
    /\ Check(parity, d) \in [1..parity -> Bytes]
    /\ \A e \in [1..n -> Bytes] \ {d} : Distance(BlockWord(d, parity), BlockWord(e, parity)) > parity

ASSUME EccAssumption ==
  /\ LengthBytes \in Nat \ {0}
  /\ HeaderParity \in Nat /\ HeaderParity >= 4
  /\ MaxParity \in Nat /\ MaxParity >= 2 /\ Block \in Nat /\ Block > MaxParity
  /\ MaxParity < Radix
  /\ IsCode(HeaderData, HeaderParity)
  /\ \A p \in 2..MaxParity : \A n \in 1..(Block - p) : IsCode(n, p)

(* The part of data that block b (of size bytes each) carries.             *)
Chunk(data, size, b) == SubSeq(data, (b - 1) * size + 1, Min({b * size, Len(data)}))

Clamp(parity) == Max({2, Min({parity, MaxParity})})

(* The parity and the length of the data, lowest byte first.               *)
HeaderWord(parity, length) ==
  BlockWord(<<parity>> \o Lowest(length, LengthBytes, Radix), HeaderParity)

protect(data, parity) ==
  LET p == Clamp(parity)
      size == Block - p
  IN  HeaderWord(p, Len(data))
        \o FlattenSeq([b \in 1..CeilDiv(Len(data), size) |-> BlockWord(Chunk(data, size, b), p)])

(* What the decoder of a block of n bytes of data answers: the data of the *)
(* word near enough, if there is one.                                      *)
Corrected(cells, n, parity) ==
  {d \in [1..n -> Bytes] : Distance(BlockWord(d, parity), cells) <= parity \div 2}

None == [ok |-> FALSE, data |-> <<>>]
Some(data) == [ok |-> TRUE, data |-> data]

(* Bug: a block that cannot be corrected is taken as it comes.             *)
recoverBestEffort(cells) ==
  LET head == Corrected(SubSeq(cells, 1, HeaderSize), HeaderData, HeaderParity)
      h == CHOOSE w \in head : TRUE
      total == ValueOf(Reverse(Tail(h)), Radix)
      size == Block - h[1]
      length(b) == Min({b * size, total}) - (b - 1) * size
      from(b) == HeaderSize + (b - 1) * Block
      end(b) == from(b) + length(b) + h[1]
      words(b) == Corrected(SubSeq(cells, from(b) + 1, end(b)), length(b), h[1])
      blocks == 1..CeilDiv(total, size)
  IN  IF \/ Len(cells) < HeaderSize
         \/ head = {} \/ h[1] \notin 2..MaxParity \/ total > Len(cells)
         \/ \E b \in blocks : end(b) > Len(cells)
      THEN None
      ELSE Some(FlattenSeq([b \in blocks |->
             IF words(b) = {} THEN SubSeq(cells, from(b) + 1, from(b) + length(b))
             ELSE CHOOSE d \in words(b) : TRUE]))

(* The header says the parity and the length; every block in turn has to   *)
(* be there, whole, and near enough to a word. What follows is ignored.    *)
recover(cells) ==
  LET head == Corrected(SubSeq(cells, 1, HeaderSize), HeaderData, HeaderParity)
      h == CHOOSE w \in head : TRUE
      total == ValueOf(Reverse(Tail(h)), Radix)
      size == Block - h[1]
      length(b) == Min({b * size, total}) - (b - 1) * size
      from(b) == HeaderSize + (b - 1) * Block
      end(b) == from(b) + length(b) + h[1]
      words(b) == Corrected(SubSeq(cells, from(b) + 1, end(b)), length(b), h[1])
      blocks == 1..CeilDiv(total, size)
  IN  IF \/ Len(cells) < HeaderSize
         \/ head = {} \/ h[1] \notin 2..MaxParity \/ total > Len(cells)
         \/ \E b \in blocks : end(b) > Len(cells) \/ words(b) = {}
      THEN None
      ELSE Some(FlattenSeq([b \in blocks |-> CHOOSE d \in words(b) : TRUE]))
=============================================================================
