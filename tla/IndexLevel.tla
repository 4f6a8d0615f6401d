----------------------------- MODULE IndexLevel -----------------------------
(***************************************************************************)
(* The level of the index from epoch to epoch: the divisor arithmetic of   *)
(* packages/aggregator/src/index-math.js as runRebalance of rebalance.js   *)
(* uses it, on a market whose prices move, go missing and come back.       *)
(*                                                                         *)
(* The weights are any vector over the names that have a price; how they   *)
(* are found is the matter of Weighting, and which names lack a price that *)
(* of Prices.  Numbers are exact: units are whole because the notional is  *)
(* chosen so, divisors and levels are fractions, and the rounding of       *)
(* floating point is left out.                                             *)
(***************************************************************************)
EXTENDS Integers, FiniteSets, Functions, Fractions

CONSTANTS
  Symbol,         \* the names
  Price,          \* the consensus prices they may have
  NoPrice,        \* no consensus price this epoch
  Parts,          \* weights are multiples of one part in this many
  Notional,       \* BASKET_NOTIONAL_USD
  BaseLevel,      \* baseLevel
  Scale,          \* VALUE_SCALE
  MaxEpoch        \* bound on the epochs

ASSUME IndexLevelAssumption ==
  /\ IsFiniteSet(Symbol)
  /\ Price \subseteq Nat \ {0} /\ NoPrice = 0
  /\ Parts \in Nat \ {0} /\ BaseLevel \in Nat \ {0} /\ Scale \in Nat \ {0}
  /\ Notional \in Nat \ {0}
  /\ \A p \in Price : Notional % (Parts * p) = 0
  /\ MaxEpoch \in Nat

VARIABLES
  price,          \* the market
  epoch, basket, divisor,   \* the state the aggregator keeps
  value           \* what the last epoch published

vars == <<price, epoch, basket, divisor, value>>

NoEpoch == -1
Priced == {s \in Symbol : price[s] # NoPrice}

Total(f) == FoldFunction(+, 0, f)

\* The weight vectors, over any names that have a price.
WeightsOver(S) == {w \in [S -> 1..Parts] : Total(w) = Parts}
Weights == UNION {WeightsOver(S) : S \in SUBSET Priced}

-----------------------------------------------------------------------------
(* index-math.js *)

TotalCap(b) == Total([s \in DOMAIN b |-> price[s] * b[s].units])

\* Mutant: a name without a price is dropped.
PreviousCapDropping ==
  Total([s \in DOMAIN basket \cap Priced |-> price[s] * basket[s].units])
\* A name without a price is carried at the price it was last valued at.
Mark(s) == IF s \in Priced THEN price[s] ELSE basket[s].lastPrice
PreviousCap == Total([s \in DOMAIN basket |-> Mark(s) * basket[s].units])

PreviousLevel == Over(Frac(PreviousCap, 1), divisor)

UnitsForWeights(w) ==
  [s \in DOMAIN w |-> [units |-> (Notional * w[s]) \div (Parts * price[s]),
                       lastPrice |-> price[s]]]

\* Mutant: every epoch starts from the base level.
DivisorAtBase(b) == Frac(TotalCap(b), BaseLevel)
\* inceptionDivisor or rebalanceDivisor.
DivisorFor(b) ==
  IF epoch = NoEpoch THEN Frac(TotalCap(b), BaseLevel)
                     ELSE Over(Frac(TotalCap(b), 1), PreviousLevel)

LevelOf(b, d) == Over(Frac(TotalCap(b), 1), d)
ToScaledValue(l) == Nearest(Times(Frac(Scale, 1), l))

-----------------------------------------------------------------------------
Init ==
  /\ price = [s \in Symbol |-> NoPrice]
  /\ epoch = NoEpoch
  /\ basket = <<>>
  /\ divisor = Frac(1, 1)
  /\ value = 0

\* The market moves; venues fail, disagree or recover.
Move(s, p) == price' = [price EXCEPT ![s] = p] /\ UNCHANGED <<epoch, basket, divisor, value>>

\* Mutant: a level that rounds to nothing is published.
RebalanceAtAnyLevel(w) ==
  LET b == UnitsForWeights(w)
      d == DivisorFor(b)
  IN /\ epoch < MaxEpoch /\ w # <<>>
     /\ basket' = b /\ divisor' = d /\ epoch' = epoch + 1
     /\ value' = ToScaledValue(LevelOf(b, d))
     /\ UNCHANGED price
\* An epoch is computed, published and saved.  One whose level rounds to
\* nothing is refused by the contract.
Rebalance(w) ==
  LET b == UnitsForWeights(w)
      d == DivisorFor(b)
  IN /\ epoch < MaxEpoch
     /\ w # <<>>
     /\ ToScaledValue(LevelOf(b, d)) > 0
     /\ basket' = b
     /\ divisor' = d
     /\ epoch' = epoch + 1
     /\ value' = ToScaledValue(LevelOf(b, d))
     /\ UNCHANGED price

Next ==
  \/ \E s \in Symbol, p \in Price \cup {NoPrice} : Move(s, p)
  \/ \E w \in Weights : Rebalance(w)

Spec == Init /\ [][Next]_vars

-----------------------------------------------------------------------------
(* Properties. *)

Positive(f) == {f[1], f[2]} \subseteq Nat \ {0}

\* Types; after inception everything the next epoch divides by is positive, and
\* so is what is published.
TypeOK ==
  /\ price \in [Symbol -> Price \cup {NoPrice}]
  /\ epoch \in NoEpoch..MaxEpoch
  /\ DOMAIN basket \subseteq Symbol
  /\ \A s \in DOMAIN basket : basket[s].units \in Nat \ {0} /\ basket[s].lastPrice \in Price
  /\ Positive(divisor)
  /\ epoch # NoEpoch => DOMAIN basket # {} /\ value > 0

\* The exact level of the last epoch, from the state that was saved for it.
SavedCap == Total([s \in DOMAIN basket |-> basket[s].lastPrice * basket[s].units])
LevelNow == IF epoch = NoEpoch THEN Frac(BaseLevel, 1) ELSE Over(Frac(SavedCap, 1), divisor)

\* From one epoch to the next the level moves no more than the name that moved
\* most and no less than the one that moved least, whatever is bought and sold
\* and whichever venues fail: a name that cannot be priced counts as unmoved.
LevelMovesWithPrices ==
  [][epoch # NoEpoch /\ epoch' # epoch =>
       LET relative(s) == Frac(Mark(s), basket[s].lastPrice)
       IN /\ \E s \in DOMAIN basket : AtMost(LevelNow', Times(LevelNow, relative(s)))
          /\ \E s \in DOMAIN basket : AtMost(Times(LevelNow, relative(s)), LevelNow')]_vars

\* The divisor, solved anew at every epoch, yields the chained index, and what
\* is published is its level rounded once: rounding never accumulates.
Chain == INSTANCE ChainedIndex WITH
  level  <- LevelNow,
  shares <- [s \in DOMAIN basket |->
               (basket[s].units * basket[s].lastPrice * Parts) \div Notional],
  marks  <- [s \in DOMAIN basket |-> basket[s].lastPrice]
ImplementsChainedIndex == Chain!ChainedSpec
=============================================================================
