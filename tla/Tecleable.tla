----------------------------- MODULE Tecleable -----------------------------
(***************************************************************************)
(* The two forms of paper a person copies by hand (papel.rs): Base32 text, *)
(* bare or over a stream with error correction, and a phrase of words with *)
(* a checksum.                                                             *)
(***************************************************************************)
EXTENDS Ecc

CONSTANTS
  ByteBits, SymbolBits,   \* 8 and 5
  Words,                  \* LISTA_CRUDA, words as sequences of letters
  WordBits,               \* 11
  Enough,                 \* PREFIJO_SUFICIENTE
  SumBits,                \* [size of a secret in bits (TAMANOS) -> bits of its checksum]
  Digest                  \* the first bits of its digest: [secrets -> bits]

Sizes == DOMAIN SumBits
Secrets == UNION {[1..n -> {0, 1}] : n \in Sizes}

(* As many letters of a word as are said to be enough.                     *)
Beginning(word) == SubSeq(word, 1, Min({Enough, Len(word)}))

ASSUME TecleableAssumption ==
  /\ {ByteBits, SymbolBits, WordBits, Enough} \subseteq Nat \ {0} /\ SymbolBits < ByteBits
  /\ Radix = Power(2, ByteBits)
  /\ Words \in Seq(Seq(STRING)) /\ Len(Words) = Power(2, WordBits)
  /\ \A i, j \in 1..Len(Words) : i # j => Beginning(Words[i]) # Beginning(Words[j])
  /\ \A n \in Sizes : /\ n \in Nat \ {0} /\ SumBits[n] \in Nat
                      /\ (n + SumBits[n]) % WordBits = 0
  /\ \A m, n \in Sizes : m # n => m + SumBits[m] # n + SumBits[n]
  /\ DOMAIN Digest = Secrets
  /\ \A s \in Secrets : Digest[s] \in [1..SumBits[Len(s)] -> {0, 1}]

-----------------------------------------------------------------------------
(* The number that bits write, and the bits that write a number, in the    *)
(* order of the highest first.                                             *)
Number(bits) == ValueOf(bits, 2)
InBits(n, width) == Reverse(Lowest(n, width, 2))

(* The bits of the stream, five by five, the last ones padded with zeros.  *)
a_cinco_bits(stream) ==
  LET bits == FlattenSeq([i \in 1..Len(stream) |-> InBits(stream[i], ByteBits)])
      bit(i) == IF i <= Len(bits) THEN bits[i] ELSE 0
  IN  [s \in 1..CeilDiv(Len(bits), SymbolBits) |->
        [i \in 1..SymbolBits |-> bit((s - 1) * SymbolBits + i)]]

(* The bits of the symbols, eight by eight, the incomplete rest dropped.   *)
de_cinco_bits(symbols) ==
  LET bits == FlattenSeq(symbols)
  IN  [j \in 1..(Len(bits) \div ByteBits) |->
        Number(SubSeq(bits, (j - 1) * ByteBits + 1, j * ByteBits))]

(* A character of the text: one of the alphabet (in either case, or a 0    *)
(* for an O), one that is skipped (space, dash, padding), or one that is   *)
(* refused because it could be two of the alphabet (1, 8) or is none.      *)
Char(kind, symbol) == [kind |-> kind, symbol |-> symbol]
Letter(symbol) == Char("letter", symbol)
Skipped == Char("skipped", <<>>)
Unclear == Char("unclear", <<>>)

Frame(kind, parity, alphabet) == [kind |-> kind, parity |-> parity, alphabet |-> alphabet]
Bare == Frame("bare", 0, <<>>)
Guarded(parity) == Frame("guarded", parity, <<>>)

TypedError(error) == [status |-> error, data |-> <<>>]
TypedOk(data) == [status |-> "ok", data |-> data]

escribir(data, frame) ==
  IF frame.kind = "guarded" /\ frame.parity > MaxParity THEN TypedError("parity")
  ELSE LET stream == IF frame.kind = "guarded" THEN protect(data, frame.parity) ELSE data
           symbols == a_cinco_bits(stream)
       IN  TypedOk([i \in 1..Len(symbols) |-> Letter(symbols[i])])

(* Bug: an ambiguous character is guessed.                                 *)
leerGuessing(text, frame) ==
  LET letters == SelectSeq(text, LAMBDA c : c.kind # "skipped")
      stream == de_cinco_bits([i \in 1..Len(letters) |->
                  IF letters[i].kind = "letter" THEN letters[i].symbol ELSE [b \in 1..SymbolBits |-> 0]])
      document == recover(stream)
  IN  IF letters = <<>> THEN TypedError("empty")
      ELSE IF frame.kind = "bare" THEN TypedOk(stream)
      ELSE IF document.ok THEN TypedOk(document.data) ELSE TypedError("unrecovered")

(* The symbols that are read, whatever is between them.                    *)
Symbols(text) ==
  FlattenSeq([i \in 1..Len(text) |-> IF text[i].kind = "letter" THEN <<text[i].symbol>> ELSE <<>>])

leer(text, frame) ==
  LET stream == de_cinco_bits(Symbols(text))
      document == recover(stream)
  IN  IF \E i \in 1..Len(text) : text[i].kind = "unclear"
      THEN TypedError("character")
      ELSE IF Symbols(text) = <<>> THEN TypedError("empty")
      ELSE IF frame.kind = "bare" THEN TypedOk(stream)
      ELSE IF document.ok THEN TypedOk(document.data) ELSE TypedError("unrecovered")

-----------------------------------------------------------------------------
(* The phrase of a secret: a number per word of the list.                  *)
Phrase(secret) ==
  LET bits == secret \o Digest[secret]
  IN  [p \in 1..(Len(bits) \div WordBits) |->
        Number(SubSeq(bits, (p - 1) * WordBits + 1, p * WordBits))]

Spelled(phrase) == [p \in 1..Len(phrase) |-> Words[phrase[p] + 1]]

(* The word typed: a word of the list, or a prefix long enough of just one.*)
indice_de(typed) ==
  LET exact == {i \in 1..Len(Words) : Words[i] = typed}
      candidates == {i \in 1..Len(Words) : IsPrefix(typed, Words[i])}
  IN  {i - 1 : i \in IF exact # {} THEN exact
                     ELSE IF Cardinality(candidates) = 1 /\ Len(typed) >= Enough
                     THEN candidates ELSE {}}

(* Bug: the checksum is not looked at.                                     *)
leer_palabrasUnchecked(words) ==
  LET bits == FlattenSeq([p \in 1..Len(words) |->
                InBits(CHOOSE i \in indice_de(words[p]) : TRUE, WordBits)])
      size == {n \in Sizes : n + SumBits[n] = Len(words) * WordBits}
      secret == SubSeq(bits, 1, CHOOSE n \in size : TRUE)
  IN  IF size = {} THEN TypedError("count")
      ELSE IF \E p \in 1..Len(words) : indice_de(words[p]) = {} THEN TypedError("word")
      ELSE TypedOk(secret)

leer_palabras(words) ==
  LET bits == FlattenSeq([p \in 1..Len(words) |->
                InBits(CHOOSE i \in indice_de(words[p]) : TRUE, WordBits)])
      size == {n \in Sizes : n + SumBits[n] = Len(words) * WordBits}
      secret == SubSeq(bits, 1, CHOOSE n \in size : TRUE)
  IN  IF size = {} THEN TypedError("count")
      ELSE IF \E p \in 1..Len(words) : indice_de(words[p]) = {} THEN TypedError("word")
      ELSE IF SubSeq(bits, Len(secret) + 1, Len(bits)) # Digest[secret]
      THEN TypedError("checksum")
      ELSE TypedOk(secret)
=============================================================================
