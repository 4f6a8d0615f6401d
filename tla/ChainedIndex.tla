---------------------------- MODULE ChainedIndex ----------------------------
(***************************************************************************)
(* What the index level means (docs/methodology.md, section 5), without    *)
(* divisors: each epoch multiplies the level by the weighted mean of the   *)
(* price relatives of the names held since the epoch before.  A name that  *)
(* has no price now counts as unmoved; what is bought next does not matter *)
(* to the level.                                                           *)
(***************************************************************************)
EXTENDS Integers, Functions, Fractions

CONSTANTS Symbol, Price, NoPrice, Parts, BaseLevel, Scale

VARIABLES
  price,          \* the market
  level,          \* the exact level of the last epoch
  shares,         \* parts of the index in each name held, adding up to Parts
  marks,          \* the price of each name held, at the last epoch
  value           \* the published level

Unpublished == 0

Priced == {s \in Symbol : price[s] # NoPrice}
Mark(s) == IF s \in Priced THEN price[s] ELSE marks[s]
MeanRelative ==
  FoldFunction(Plus, Frac(0, 1),
               [s \in DOMAIN shares |-> Frac(shares[s] * Mark(s), Parts * marks[s])])

ChainedInit ==
  /\ price \in [Symbol -> {NoPrice}]
  /\ level = Frac(BaseLevel, 1)
  /\ shares = <<>> /\ marks = <<>>
  /\ value = Unpublished

Move == price' \in [Symbol -> Price \cup {NoPrice}] /\ UNCHANGED <<level, shares, marks, value>>

Link ==
  /\ level' = IF value = Unpublished THEN level ELSE Times(level, MeanRelative)
  /\ value' = Nearest(Times(Frac(Scale, 1), level'))
  /\ \E S \in (SUBSET Priced) \ {{}} :
       /\ shares' \in [S -> 1..Parts] /\ FoldFunction(+, 0, shares') = Parts
       /\ marks' = [s \in S |-> price[s]]
  /\ UNCHANGED price

ChainedSpec == ChainedInit /\ [][Move \/ Link]_<<price, level, shares, marks, value>>
=============================================================================
