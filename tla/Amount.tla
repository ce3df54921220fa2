------------------------------- MODULE Amount -------------------------------
(***************************************************************************)
(* Amounts of coins as text: format_cog and parse_cog of types.rs.  Nodes  *)
(* hand balances and rewards out as text, and the pool reads the reward it *)
(* credits from it.  A text is the digits before and after the point.      *)
(***************************************************************************)
EXTENDS Integers, Sequences, SequencesExt

CONSTANTS
  BASE,       \* 10
  DECIMALS,   \* digits after the point: 8
  WIDTH,      \* bits of an amount: 64
  Refused     \* parse_cog returns an error

ASSUME AmountAssumption ==
  /\ BASE \in Nat \ {0, 1} /\ DECIMALS \in Nat /\ WIDTH \in Nat
  /\ Refused \notin Int

\* The value of a one with n zeros after it.
Power[n \in Nat] == IF n = 0 THEN 1 ELSE BASE * Power[n - 1]
COG == Power[DECIMALS]

Digits(x, n) == [i \in 1 .. n |-> (x \div Power[n - i]) % BASE]

\* No leading zero, but at least one digit.
Written(x) ==
  Digits(x, CHOOSE n \in 1 .. x + 1 :
              x < Power[n] /\ \A k \in 1 .. n - 1 : x >= Power[k])

Value(digits) == FoldLeft(LAMBDA v, d : BASE * v + d, 0, digits)

\* Mutant: the fraction is not padded with zeros.
format_cogUnpadded(amount) ==
  [whole |-> Written(amount \div COG), frac |-> Written(amount % COG)]

format_cog(amount) ==
  [whole |-> Written(amount \div COG), frac |-> Digits(amount % COG, DECIMALS)]

\* A fraction may be short, or missing; so may the digits before the point.
parse_cog(text) ==
  LET zeros  == [i \in 1 .. DECIMALS - Len(text.frac) |-> 0]
      amount == Value(text.whole) * COG + Value(text.frac \o zeros)
  IN  IF Len(text.frac) > DECIMALS \/ amount >= 2^WIDTH THEN Refused ELSE amount
=============================================================================
