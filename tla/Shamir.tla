------------------------------- MODULE Shamir -------------------------------
(***************************************************************************)
(* Secret sharing over GF(2^Width) (src/src/shamir.rs): a polynomial per   *)
(* element of the secret and of the tag that travels with it, evaluated at *)
(* the indices 1, 2, ... and interpolated at 0.                            *)
(***************************************************************************)
EXTENDS Integers, FiniteSets, SequencesExt

CONSTANTS
  Width,      \* bits of an element: 8
  Reduction,  \* the field's polynomial without its highest term: 0x1B
  Tag         \* [secrets -> Seq(Field)], the first bytes of a digest

(* Two to the power of n.                                                  *)
Power[n \in Nat] == IF n = 0 THEN 1 ELSE 2 * Power[n - 1]

Order == Power[Width]
Field == 0..(Order - 1)
Secret == DOMAIN Tag
TagLength == Len(Tag[CHOOSE s \in Secret : TRUE])

ASSUME ShamirAssumption ==
  /\ Width \in Nat \ {0} /\ Reduction \in Field
  /\ Secret # {}
  /\ \A s \in Secret : /\ s \in Seq(Field) \ {<<>>}
                       /\ Tag[s] \in Seq(Field) /\ Len(Tag[s]) = TagLength
  /\ TagLength > 0

-----------------------------------------------------------------------------
(* The exclusive or of two numbers, bit by bit.                            *)
Xor[a \in Nat] == [b \in Nat |->
  IF a = 0 THEN b ELSE ((a + b) % 2) + 2 * Xor[a \div 2][b \div 2]]

(* Twice an element, less the field's polynomial if it overflows.          *)
Doubled(a) == IF 2 * a < Order THEN 2 * a ELSE Xor[2 * a][Order + Reduction]

(* The rounds of the product that are left when b is what is left of the   *)
(* second factor.                                                          *)
Rounds[b \in Nat] == [a \in Field |->
  IF b = 0 THEN 0 ELSE Xor[IF b % 2 = 1 THEN a ELSE 0][Rounds[b \div 2][Doubled(a)]]]

gf_mul == [a \in Field |-> [b \in Field |-> Rounds[b][a]]]

(* A power by squares and products, times the result so far.               *)
Raised[exp \in Nat] == [base \in Field |-> [result \in Field |->
  IF exp = 0 THEN result
  ELSE Raised[exp \div 2][gf_mul[base][base]][IF exp % 2 = 1 THEN gf_mul[result][base] ELSE result]]]

gf_inv == [a \in Field |-> Raised[Order - 2][a][1]]

(* The polynomial has no factor, so that there is nothing but 0 without an *)
(* inverse (test gf_inv_invierte_todo_elemento_no_nulo).                   *)
ASSUME FieldAssumption == \A a \in Field \ {0} : gf_mul[a][gf_inv[a]] = 1

(* The sum of two elements.                                                *)
Plus == [a \in Field |-> [b \in Field |-> Xor[a][b]]]

(* The elements of a list joined by op, a function of two arguments.       *)
Joined(op, start, list) == FoldLeft(LAMBDA acc, c : op[acc][c], start, list)
Sum(list) == Joined(Plus, 0, list)
Product(list) == Joined(gf_mul, 1, list)

-----------------------------------------------------------------------------
Share(threshold, index, y) == [threshold |-> threshold, index |-> index, y |-> y]

SharingError(error) == [status |-> error, data |-> <<>>]
SharingOk(data) == [status |-> "ok", data |-> data]

Horner(x) == [acc \in Field |-> [c \in Field |-> Plus[gf_mul[acc][x]][c]]]

(* Bug: Horner stops before the last coefficient of the list.              *)
evaluateShort(byte, coefficients, x) ==
  Joined(Horner(x), 0, Tail(Reverse(<<byte>> \o coefficients)))

(* The polynomial with this constant term at x, from its highest term on.  *)
evaluate(byte, coefficients, x) ==
  Joined(Horner(x), 0, Reverse(<<byte>> \o coefficients))

Payload(secret) == secret \o Tag[secret]

(* The coefficients drawn, threshold - 1 for each element of the payload.  *)
Draw(threshold, secret, values) ==
  [1..Len(Payload(secret)) -> [1..(threshold - 1) -> values]]

Shares(secret, threshold, number, drawn) ==
  [index \in 1..number |->
    Share(threshold, index,
          [pos \in 1..Len(Payload(secret)) |-> evaluate(Payload(secret)[pos], drawn[pos], index)])]

split(secret, threshold, number, drawn) ==
  IF threshold < 2 \/ number < threshold THEN SharingError("parameters")
  ELSE SharingOk(Shares(secret, threshold, number, drawn))

(* Share::from_bytes takes this for a share.                               *)
WellFormed(share) == share.threshold >= 2 /\ share.index # 0 /\ Len(share.y) > TagLength

(* Lagrange's coefficient at 0 of the i-th of these points.                *)
Lagrange(points, i) ==
  LET without(f) == Product([f EXCEPT ![i] = 1])
  IN  gf_mul[without(points)][gf_inv[without([j \in DOMAIN points |-> Plus[points[i]][points[j]]])]]

(* Bug: a share's place in the list is taken for its index.                *)
lambdaByPlace(used, i) == Lagrange([j \in DOMAIN used |-> j], i)

lambda(used, i) == Lagrange([j \in DOMAIN used |-> used[j].index], i)

(* Only as many shares as the first one asks for are used.                 *)
combine(shares) ==
  LET needed == shares[1].threshold
      used == SubSeq(shares, 1, needed)
      lambdas == [i \in 1..needed |-> lambda(used, i)]
      at(pos) == Sum([i \in 1..needed |-> gf_mul[used[i].y[pos]][lambdas[i]]])
      whole == [pos \in 1..Len(shares[1].y) |-> at(pos)]
      secret == SubSeq(whole, 1, Len(whole) - TagLength)
  IN  IF shares = <<>> \/ Len(shares) < needed THEN SharingError("not enough")
      ELSE IF \/ \E i \in 1..Len(shares) : \/ shares[i].threshold # needed
                                           \/ Len(shares[i].y) # Len(shares[1].y)
                                           \/ shares[i].index = 0
              \/ \E i, j \in 1..Len(shares) : i # j /\ shares[i].index = shares[j].index
      THEN SharingError("inconsistent")
      ELSE IF secret \notin Secret \/ whole # Payload(secret)
      THEN SharingError("verification")
      ELSE SharingOk(secret)
=============================================================================
