---------------------------- MODULE PaperBackup ----------------------------
(***************************************************************************)
(* A secret kept on paper and read back years later (papel.rs): as printed *)
(* symbols a camera reads or does not read, as text that a person copies,  *)
(* in Base32 or in the symbols of a dictionary, or as a phrase of words.   *)
(* Symbols get lost, a symbol of another printing turns up among them, one *)
(* is read twice; people mistype, abbreviate, skip and repeat.             *)
(***************************************************************************)
EXTENDS Tecleable

CONSTANTS
  Copies,       \* printings in symbols
  Documents,    \* what is printed or typed
  Capacities,   \* bytes a symbol may hold, as callers ask
  Parities,     \* parity bytes per block, as callers ask
  Alphabets,    \* symbols of dictionaries, as callers ask
  Heading,      \* CABECERA, the bytes of a symbol's own header
  MaxSymbols,   \* u16::MAX
  Strays,       \* symbols no printing made
  MaxAgain,     \* bound on the symbols read when a place is read again or a stray is
  MaxSlips,     \* bound on the slips of whoever types
  MaxTwice      \* bound on the characters of a text that is slipped in more than once

ASSUME PaperAssumption ==
  /\ {Heading, MaxSymbols, MaxAgain, MaxSlips, MaxTwice} \subseteq Nat
  /\ \A d \in Documents : d \in Seq(Bytes) /\ Len(d) < Power(Radix, LengthBytes)
  /\ Capacities \subseteq Nat /\ Parities \subseteq Nat
  /\ \A a \in Alphabets : a \in Seq(Range(a)) /\ Len(a) < Word

Version == 1
Symbol(version, index, total, length, cells) ==
  [version |-> version, index |-> index, total |-> total, length |-> length, cells |-> cells]

PaperError(error) == [status |-> error, data |-> <<>>]

(* What is known of a printing: the document, how it was asked for, its    *)
(* symbols.                                                                *)
NotPrinted == [document |-> <<>>, capacity |-> 0, parity |-> 0, symbols |-> <<>>]

(* Where in the stream the k-th cell of symbol j goes.                     *)
position(j, k, total) == j + (k - 1) * total

interleave(stream, total, j) ==
  LET length == Len(stream)
      mine == {k \in 1..CeilDiv(length, total) : position(j, k, total) < length}
  IN  [k \in 1..Cardinality(mine) |-> stream[position(j, k, total) + 1]]

(* Bug: the heading of a symbol takes no room.                             *)
usefulWhole(capacity) == capacity

useful(capacity) == capacity - Heading

empaquetar(document, capacity, parity) ==
  LET stream == protect(document, parity)
      total == Max({CeilDiv(Len(stream), useful(capacity)), 1})
  IN  IF capacity <= Heading THEN PaperError("capacity")
      ELSE IF parity > MaxParity THEN PaperError("parity")
      ELSE IF total > MaxSymbols THEN PaperError("symbols")
      ELSE [status |-> "ok",
            data |-> [j \in 1..total |->
                       Symbol(Version, j - 1, total, Len(stream), interleave(stream, total, j - 1))]]

(* Bug: what the header can lose is left out.                              *)
toleratedByData(total, parity) ==
  IF total = 0 THEN 0 ELSE (parity \div 2) \div Max({CeilDiv(Block, total), 1})

(* simbolos_perdidos_tolerados: what the blocks of data can lose, and what *)
(* the block of the header can.                                            *)
tolerated(total, parity) ==
  IF total = 0 THEN 0
  ELSE Min({(parity \div 2) \div Max({CeilDiv(Block, total), 1}),
            IF total >= HeaderSize THEN HeaderFixes
            ELSE HeaderFixes \div CeilDiv(HeaderSize, total)})

longest(read) == Max({Len(read[i].cells) : i \in 1..Len(read)})

(* Bug: the longest symbol is taken to be among those read.                *)
ceilingExact(read, total) == total * longest(read)

(* What the stream may measure at most, seen from what was read.           *)
ceiling(read, total) == total * (longest(read) + 1)

(* Every symbol is of the same stream and no place comes twice.            *)
coherent(read) ==
  LET first == read[1]
  IN  /\ first.total # 0 /\ first.length # 0
      /\ first.length <= ceiling(read, first.total)
      /\ \A i \in 1..Len(read) : /\ read[i].total = first.total
                                 /\ read[i].length = first.length
                                 /\ read[i].index < first.total
      /\ \A i, j \in 1..Len(read) : i # j => read[i].index # read[j].index

(* The symbols put together again, zeros for what is missing.              *)
assembled(read) ==
  LET total == read[1].total
      length == read[1].length
      here(pos) == {c \in (1..Len(read)) \X (1..longest(read)) :
                      /\ c[2] <= Len(read[c[1]].cells)
                      /\ position(read[c[1]].index, c[2], total) = pos}
      cell(pos) == IF here(pos) = {} THEN 0
                   ELSE LET c == CHOOSE c \in here(pos) : TRUE IN read[c[1]].cells[c[2]]
  IN  [i \in 1..read[1].length |-> cell(i - 1)]

reensamblar(read) ==
  IF read = <<>> THEN PaperError("nothing")
  ELSE IF \E i \in 1..Len(read) : read[i].version # Version THEN PaperError("version")
  ELSE IF ~coherent(read) THEN PaperError("incoherent")
  ELSE LET document == recover(assembled(read))
       IN  IF document.ok THEN [status |-> "ok", data |-> document.data]
           ELSE PaperError("unrecovered")

-----------------------------------------------------------------------------
VARIABLES
  printed,   \* [Copies -> printing in symbols]
  hand,      \* the symbols read, of any printing or of none
  again,     \* those of them read a second time
  text,      \* Base32 text as typed so far, with its document and frame
  phrase,    \* words as typed so far, with their secret
  slips,     \* what whoever types did to the text or the words
  outcome    \* the last reading

vars == <<printed, hand, again, text, phrase, slips, outcome>>

NoText == [document |-> <<>>, frame |-> Bare, characters |-> <<>>]
NoPhrase == [secret |-> <<>>, words |-> <<>>]
NotRead == PaperError("none")

Init ==
  /\ printed = [c \in Copies |-> NotPrinted]
  /\ hand = {} /\ again = {}
  /\ text = NoText
  /\ phrase = NoPhrase
  /\ slips = <<>>
  /\ outcome = NotRead

Unused == \A c \in Copies : printed[c] = NotPrinted
Blank == text = NoText /\ phrase = NoPhrase

(* A printing that is refused leaves nothing.                              *)
PrintSymbols(c, document, capacity, parity) ==
  /\ Blank /\ printed[c] = NotPrinted /\ hand = {}
  /\ LET r == empaquetar(document, capacity, parity) IN
     /\ outcome' = IF r.status = "ok" THEN NotRead ELSE r
     /\ printed' = IF r.status # "ok" THEN printed
                   ELSE [printed EXCEPT ![c] = [document |-> document, capacity |-> capacity,
                                                parity |-> parity, symbols |-> r.data]]
  /\ UNCHANGED <<hand, again, text, phrase, slips>>

(* Symbol j of copy c is read; one that never is, is lost.                 *)
Scan(c, j) ==
  /\ j \in 1..Len(printed[c].symbols)
  /\ printed[c].symbols[j] \notin hand
  /\ Cardinality(hand) < MaxAgain \/ \A s \in hand : s.index # j - 1
  /\ hand' = hand \cup {printed[c].symbols[j]}
  /\ outcome' = NotRead
  /\ UNCHANGED <<printed, again, text, phrase, slips>>

ScanStray(s) ==
  /\ hand \cap Strays = {} /\ ~Unused /\ Cardinality(hand) < MaxAgain
  /\ hand' = hand \cup {s}
  /\ outcome' = NotRead
  /\ UNCHANGED <<printed, again, text, phrase, slips>>

ScanAgain(s) ==
  /\ again = {} /\ Cardinality(hand) <= MaxAgain
  /\ again' = {s}
  /\ outcome' = NotRead
  /\ UNCHANGED <<printed, hand, text, phrase, slips>>

(* Two orders of reading, one the reverse of the other: whatever comes     *)
(* first in one, which the rest is compared with, comes last in the other. *)
Listed(S) == FoldSet(LAMBDA s, read : Append(read, s), <<>>, S)
Orders == LET read == Listed(hand) \o Listed(again) IN {read, Reverse(read)}

ReadSymbols ==
  /\ Blank /\ ~Unused
  /\ \E read \in Orders : outcome' = reensamblar(read)
  /\ UNCHANGED <<printed, hand, again, text, phrase, slips>>

-----------------------------------------------------------------------------
InSymbols(alphabet) == Frame("symbols", 0, alphabet)

(* A container as text, and text as a container: in symbols of a           *)
(* dictionary every character counts.                                      *)
write_text(document, frame) ==
  IF frame.kind # "symbols" THEN escribir(document, frame)
  ELSE IF ~DictionaryAccepts(frame.alphabet) THEN PaperError("dictionary")
  ELSE LET symbols == dictionary_encode(frame.alphabet, encode_base_n(document, Len(frame.alphabet)))
       IN  TypedOk([i \in 1..Len(symbols) |-> Letter(symbols[i])])

read_text(characters, frame) ==
  IF frame.kind # "symbols" THEN leer(characters, frame)
  ELSE IF \E i \in 1..Len(characters) :
            characters[i].kind # "letter" \/ characters[i].symbol \notin Range(frame.alphabet)
       THEN TypedError("character")
  ELSE TypedOk(decode_base_n([i \in 1..Len(characters) |->
                 dictionary_index(frame.alphabet, characters[i].symbol)], Len(frame.alphabet)))

Type(document, frame) ==
  /\ Blank /\ Unused
  /\ LET r == write_text(document, frame) IN
     /\ outcome' = IF r.status = "ok" THEN NotRead ELSE r
     /\ text' = IF r.status # "ok" THEN NoText
                ELSE [document |-> document, frame |-> frame, characters |-> r.data]
  /\ UNCHANGED <<printed, hand, again, phrase, slips>>

(* The letters there are to type.                                          *)
Letters(frame) ==
  {Letter(s) : s \in IF frame.kind = "symbols" THEN Range(frame.alphabet) ELSE [1..SymbolBits -> {0, 1}]}

(* A slip at character i, and what it is.                                  *)
Slips(s, i, letters) ==
  {<<"wrong", ReplaceAt(s, i, l)>> : l \in letters \ {s[i]}}
    \cup {<<"added", InsertAt(s, i, l)>> : l \in letters}
    \cup {<<"dropped", RemoveAt(s, i)>>, <<"unclear", ReplaceAt(s, i, Unclear)>>,
          <<"spaced", InsertAt(s, i, Skipped)>>, <<"repeated", InsertAt(s, i, s[i])>>}

Slip(i) ==
  /\ text # NoText /\ i <= Len(text.characters) /\ Len(slips) < MaxSlips
  /\ slips = <<>> \/ Len(text.characters) <= MaxTwice
  /\ \E s \in Slips(text.characters, i, Letters(text.frame)) :
       /\ text' = [text EXCEPT !.characters = s[2]]
       /\ slips' = Append(slips, s[1])
  /\ outcome' = NotRead
  /\ UNCHANGED <<printed, hand, again, phrase>>

ReadText ==
  /\ text # NoText
  /\ outcome' = read_text(text.characters, text.frame)
  /\ UNCHANGED <<printed, hand, again, text, phrase, slips>>

-----------------------------------------------------------------------------
(* Only a secret of one of the sizes is written in words.                  *)
WriteWords(secret) ==
  /\ Blank /\ Unused
  /\ phrase' = [secret |-> secret, words |-> Spelled(Phrase(secret))]
  /\ outcome' = NotRead
  /\ UNCHANGED <<printed, hand, again, text, slips>>

(* A word is cut to its first n letters; another is typed; one is dropped; *)
(* two change places.                                                      *)
WordSlips(s, i) ==
  {<<IF n >= Enough THEN "cut" ELSE "chopped", ReplaceAt(s, i, SubSeq(s[i], 1, n))>> :
      n \in 1..(Len(s[i]) - 1)}
    \cup {<<"other", ReplaceAt(s, i, w)>> : w \in Range(Words) \ {s[i]}}
    \cup {<<"lost", RemoveAt(s, i)>>}
    \cup {<<"swapped", [s EXCEPT ![i] = s[i - 1], ![i - 1] = s[i]]>> : n \in {1} \cap 1..(i - 1)}

WordSlip(i) ==
  /\ phrase # NoPhrase /\ i <= Len(phrase.words) /\ Len(slips) < MaxSlips
  /\ \E s \in WordSlips(phrase.words, i) :
       /\ phrase' = [phrase EXCEPT !.words = s[2]]
       /\ slips' = Append(slips, s[1])
  /\ outcome' = NotRead
  /\ UNCHANGED <<printed, hand, again, text>>

ReadWords ==
  /\ phrase # NoPhrase
  /\ outcome' = leer_palabras(phrase.words)
  /\ UNCHANGED <<printed, hand, again, text, phrase, slips>>

Next ==
  \/ \E c \in Copies, d \in Documents, n \in Capacities, p \in Parities : PrintSymbols(c, d, n, p)
  \/ \E c \in Copies : \E j \in 1..MaxSymbols : Scan(c, j)
  \/ \E s \in Strays : ScanStray(s)
  \/ \E s \in hand : ScanAgain(s)
  \/ ReadSymbols
  \/ \E d \in Documents :
       \E f \in {Bare} \cup {Guarded(p) : p \in Parities} \cup {InSymbols(a) : a \in Alphabets} : Type(d, f)
  \/ \E i \in 1..(Len(text.characters)) : Slip(i)
  \/ ReadText
  \/ \E s \in Secrets : WriteWords(s)
  \/ \E i \in 1..Len(phrase.words) : WordSlip(i)
  \/ ReadWords

Spec == Init /\ [][Next]_vars

-----------------------------------------------------------------------------
TypeOK ==
  /\ \A c \in Copies : \A j \in 1..Len(printed[c].symbols) :
       LET s == printed[c].symbols[j] IN
       /\ s.index = j - 1 /\ s.total = Len(printed[c].symbols)
       /\ Heading + Len(s.cells) <= printed[c].capacity
  /\ \A s \in hand \ Strays : \E c \in Copies : s \in Range(printed[c].symbols)
  /\ again \subseteq hand
  /\ Unused \/ Blank
  /\ outcome.status = "ok" \/ outcome.data = <<>>

SymbolsOf(c) == Range(printed[c].symbols)
Read(document) == outcome.status = "ok" /\ outcome.data = document
HasRead == outcome # NotRead /\ ~Unused /\ hand # {}

(* Losing symbols, whichever they are, up to the number that               *)
(* simbolos_perdidos_tolerados tells whoever prints, costs nothing, and    *)
(* neither does the order they are read in (papel.rs reensamblar).         *)
LossWithinTheBoundReads ==
  \A c \in Copies :
    LET total == Len(printed[c].symbols) IN
    (/\ HasRead /\ hand \subseteq SymbolsOf(c) /\ again = {}
     /\ Cardinality(SymbolsOf(c) \ hand) <= tolerated(total, printed[c].parity))
      => Read(printed[c].document)

(* "No rechaza ninguna hoja legitima, ni siquiera una a la que le falten   *)
(* los simbolos largos": the ceiling on what a reading may reserve refuses *)
(* no part of one printing.                                                *)
PartsAreCoherent ==
  \A c \in Copies :
    HasRead /\ hand \subseteq SymbolsOf(c) /\ again = {} => outcome.status \in {"ok", "unrecovered"}

(* The bytes between two places that are not read as they were written, or *)
(* not there.                                                              *)
Damage(read, written, from, to) ==
  Cardinality({i \in from..to : i > Len(read) \/ read[i] # written[i]})

(* What is typed under error correction is read right as long as neither   *)
(* the header nor a block has more wrong bytes than its code corrects; as  *)
(* long as no block has more than that and, with odd parity, one more, it  *)
(* is read right or not at all; and a single wrong letter, which may lie   *)
(* in two bytes, is read right from four bytes of parity on and never as   *)
(* something else from three on (ecc.rs recover, papel.rs leer).           *)
GuardedTextIsCorrected ==
  text.frame.kind = "guarded" /\ outcome # NotRead /\ outcome.status # "character" =>
    LET p == Clamp(text.frame.parity)
        written == protect(text.document, text.frame.parity)
        read == de_cinco_bits(Symbols(text.characters))
        length == Len(text.document)
        end(b) == HeaderSize + Min({b * Block, length + b * p})
        within(n) ==
          /\ Damage(read, written, 1, HeaderSize) <= HeaderFixes
          /\ \A b \in 1..CeilDiv(length, Block - p) :
               Damage(read, written, HeaderSize + (b - 1) * Block + 1, end(b)) <= n
        once == slips = <<"wrong">>
    IN  /\ within(p - p \div 2) \/ (once /\ p >= 3)
             => (outcome.status = "ok" => Read(text.document))
        /\ (within(p \div 2) /\ Len(read) >= Len(written)) \/ (once /\ p >= 4)
             => Read(text.document)

(* "Un caracter mal transcrito devuelve otro secreto EN SILENCIO":         *)
(* Marco::Protegido "cierra ese hueco con Reed-Solomon" (papel.rs), so one *)
(* wrong letter in a guarded text is not read as something else.           *)
OneWrongLetterNeverLies ==
  text.frame.kind = "guarded" /\ slips = <<"wrong">> /\ outcome.status = "ok" => Read(text.document)

(* A text without slips is read as what it was written from; spaces,       *)
(* dashes, case and a zero for an O change nothing, save in the symbols of *)
(* a dictionary, and no unclear character is guessed (papel.rs leer,       *)
(* codec.rs, dictionary.rs decode).                                        *)
OnlySpacingIsFree ==
  text # NoText /\ outcome # NotRead =>
    LET spaced == Range(slips) = {"spaced"}
        symbols == text.frame.kind = "symbols"
    IN  /\ slips = <<>> \/ (spaced /\ ~symbols) =>
             Read(text.document) \/ (text.frame = Bare /\ text.document = <<>>)
        /\ slips = <<"unclear">> \/ (symbols /\ spaced) => outcome.status = "character"

(* A phrase is read as a secret only if it is the phrase of that very      *)
(* secret; and words cut to as many letters as the instructions say read   *)
(* as the whole words.                                                     *)
PhrasesAreCanonical ==
  phrase # NoPhrase /\ outcome # NotRead =>
    /\ outcome.status = "ok" =>
         /\ Len(phrase.words) = Len(Phrase(outcome.data))
         /\ \A i \in 1..Len(phrase.words) :
              IsPrefix(phrase.words[i], Spelled(Phrase(outcome.data))[i])
    /\ (\A s \in Range(slips) : s = "cut") =>
         outcome.status = "ok" /\ outcome.data = phrase.secret

(* "faltan o llegaron danados mas bytes de los que la paridad corrige":    *)
(* parts of one printing are read as its document or as an error.          *)
NothingIsInvented ==
  \A c \in Copies :
    HasRead /\ hand \subseteq SymbolsOf(c) /\ outcome.status = "ok" => Read(printed[c].document)
=============================================================================
