--------------------------- MODULE MCPaperBackup ---------------------------
(* Bytes of three bits, two to a letter, under the Reed-Solomon code of    *)
(* the field of eight elements: blocks of five bytes, a header of seven    *)
(* that survives two errors; documents of no block, of one and of more; a   *)
(* list of four words of which one begins another; secrets of three and of *)
(* six bits; dictionaries of three symbols, of which a word takes two at   *)
(* once.                                                                   *)
EXTENDS PaperBackup, TLC

F == INSTANCE Shamir WITH Width <- 3, Reduction <- 3, Tag <- [s \in {<<0>>} |-> <<0>>]

(* The generator polynomial of as many parity bytes: its zeros are the     *)
(* powers of 2. Its highest term is left out.                              *)
Root[i \in Nat] == IF i = 0 THEN 1 ELSE F!gf_mul[2][Root[i - 1]]
Generator[p \in Nat] == [j \in 1..p |->
  F!Plus[IF j = p THEN 0 ELSE Generator[p - 1][j]]
        [F!gf_mul[Root[p - 1]][IF j = 1 THEN 1 ELSE Generator[p - 1][j - 1]]]]

(* The rest of dividing by it.                                             *)
Rest(p, data) ==
  FoldLeft(LAMBDA r, d : LET f == F!Plus[d][r[1]] IN
             [j \in 1..p |-> F!Plus[IF j = p THEN 0 ELSE r[j + 1]][F!gf_mul[f][Generator[p][j]]]],
           [j \in 1..p |-> 0], data)
CheckTable == [p \in 2..5 |->
  <<[a \in 0..7 |-> Rest(p, <<a>>)], [a \in 0..7 |-> [b \in 0..7 |-> Rest(p, <<a, b>>)]],
    [a \in 0..7 |-> [b \in 0..7 |-> [c \in 0..7 |-> Rest(p, <<a, b, c>>)]]]>>]
CheckMC(p, d) ==
  LET t == CheckTable[p][Len(d)][d[1]]
  IN  IF Len(d) = 1 THEN t ELSE IF Len(d) = 2 THEN t[d[2]] ELSE t[d[2]][d[3]]

Symmetry == Permutations(Copies)

DocumentsMC == {<<>>, <<5>>, <<6, 0, 3>>}
StraysMC == {Symbol(2, 0, 1, 10, <<1>>), Symbol(1, 0, 1, 40, <<1>>)}

AlphabetsMC == {<<"x", "y", "z">>, <<"x", "y", "x">>, <<"x">>}
WordsMC == << <<"a">>, <<"a", "b", "a">>, <<"b", "a">>, <<"b", "b", "b">> >>
SumBitsMC == [n \in {3, 6} |-> n \div 3]
(* A digest that any change of one bit changes, and of two may not.        *)
Odd(s, from) == FoldLeft(LAMBDA n, b : (n + b) % 2, 0, SubSeq(s, from, Len(s)))
DigestMC == [s \in Secrets |-> [i \in 1..(Len(s) \div 3) |-> Odd(s, i)]]
=============================================================================
