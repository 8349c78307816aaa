------------------------------- MODULE Codec -------------------------------
(***************************************************************************)
(* A container written as symbols of a dictionary: its bytes are a number, *)
(* and the number is written in the base of as many symbols as there are   *)
(* (quipu-nucleo codec.rs, dictionary.rs).                                 *)
(***************************************************************************)
EXTENDS SequencesExt, Integers

CONSTANTS
  Radix,   \* 256
  Word     \* 2^64, what a machine word does not hold

ASSUME CodecAssumption == {Radix, Word} \subseteq Nat \ {0, 1}

(* Base to the power of n.                                                 *)
Power(base, n) ==
  LET power[i \in 0..n] == IF i = 0 THEN 1 ELSE base * power[i - 1] IN power[n]

(* How many digits n has in a base: the first power that is greater.       *)
LengthIn(n, base) == CHOOSE k \in 0..n : Power(base, k) > n /\ \A j \in 0..(k - 1) : Power(base, j) <= n

(* The value of digits, and the k lowest digits of a value, lowest first.  *)
ValueOf(ds, base) ==
  LET value[i \in 0..Len(ds)] == IF i = 0 THEN 0 ELSE base * value[i - 1] + ds[i] IN value[Len(ds)]
Lowest(v, k, base) == [i \in 1..k |-> (v \div Power(base, i - 1)) % base]

(* How many digits a word can take out of the number at once.              *)
paso_maximo(base) == CHOOSE k \in 1..Word : Power(base, k) < Word /\ Power(base, k + 1) >= Word

(* Bug: the digits taken at once lose those that are zero at their end.    *)
digitsTrimmed(v, k, base) ==
  LET f[w \in 0..v] == IF w >= Power(base, k)
                       THEN Lowest(w % Power(base, k), LengthIn(w % Power(base, k), base), base) \o f[w \div Power(base, k)]
                       ELSE Lowest(w, LengthIn(w, base), base)
  IN  f[v]

digits(v, k, base) ==
  LET f[w \in 0..v] == IF w >= Power(base, k) THEN Lowest(w % Power(base, k), k, base) \o f[w \div Power(base, k)]
                       ELSE Lowest(w, LengthIn(w, base), base)
  IN  f[v]

(* A one before the data keeps the zeros they may begin with.              *)
encode_base_n(data, base) ==
  Reverse(digits(ValueOf(<<1>> \o data, Radix), paso_maximo(base), base))

(* The first byte of the number is dropped, whatever it is; nothing is the *)
(* byte zero.                                                              *)
decode_base_n(indices, base) ==
  LET v == ValueOf(indices, base)
  IN  Tail(Reverse(Lowest(v, IF v = 0 THEN 1 ELSE LengthIn(v, Radix), Radix)))

-----------------------------------------------------------------------------
DictionaryAccepts(alphabet) == Len(alphabet) >= 2 /\ IsInjective(alphabet)

dictionary_encode(alphabet, indices) == [i \in 1..Len(indices) |-> alphabet[indices[i] + 1]]
dictionary_index(alphabet, symbol) == (CHOOSE i \in 1..Len(alphabet) : alphabet[i] = symbol) - 1
=============================================================================
