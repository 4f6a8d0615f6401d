------------------------------- MODULE Prices -------------------------------
(***************************************************************************)
(* reconcile of packages/aggregator/src/prices.js: the consensus price of  *)
(* one asset from the quotes of independent venues, as collectQuotes       *)
(* (sources.js) gathers them, one answer or failure at a time.             *)
(*                                                                         *)
(* Prices are whole numbers; a median may fall half way between two, so    *)
(* medians are kept doubled.  At most one venue, Liar, quotes whatever it  *)
(* likes; the others are honest.                                           *)
(***************************************************************************)
EXTENDS Integers, FiniteSets

CONSTANTS
  Venue, Liar,    \* the price sources, and the one that may be manipulated
  Honest,         \* the prices honest venues quote
  Forged,         \* the prices the liar quotes
  Lowest, Highest,\* the range honest quotes fall in
  NoQuote,        \* a venue that failed, or has no market in the asset
  MinSources,     \* pricing.minSources
  MaxDeviation    \* pricing.maxDeviationBps

ASSUME PricesAssumption ==
  /\ IsFiniteSet(Venue) /\ Liar \in Venue
  /\ Honest \subseteq Lowest..Highest /\ Lowest \in Nat \ {0} /\ Highest \in Nat
  /\ Forged \subseteq Nat \ {0}
  /\ NoQuote \notin Nat
  /\ MinSources \in Nat \ {0}
  /\ MaxDeviation \in 0..10000

VARIABLES
  waiting,        \* venues that have not answered
  quote,          \* what each answered
  result          \* what reconcile returned

vars == <<waiting, quote, result>>

\* Not prices: every price is positive.
Pending  == 0
Rejected == -1

-----------------------------------------------------------------------------
(* The algorithm, on the quotes of a set of venues. *)

\* The quote in position k when those of V are sorted: fewer than k quotes are
\* below it, and at least k are no more.
Nth(q, V, k) ==
  CHOOSE p \in {q[v] : v \in V} : /\ Cardinality({v \in V : q[v] < p}) < k
                                  /\ Cardinality({v \in V : q[v] <= p}) >= k

\* Mutant: of an even number the upper middle one, without averaging.
DoubledUpperMedian(q, V) == 2 * Nth(q, V, (Cardinality(V) + 2) \div 2)
\* Twice the median of the quotes of V: the middle one, or the middle two.
DoubledMedian(q, V) ==
  LET n == Cardinality(V)
  IN Nth(q, V, (n + 1) \div 2) + Nth(q, V, (n + 2) \div 2)

\* Mutant: deviation is only looked for above the median.
KeptBelow(q, V) ==
  LET ref == DoubledMedian(q, V)
  IN {v \in V : (2 * q[v] - ref) * 10000 <= MaxDeviation * ref}
\* The quotes within the deviation band around the median of all.
Kept(q, V) ==
  LET ref == DoubledMedian(q, V)
      off(v) == IF 2 * q[v] >= ref THEN 2 * q[v] - ref ELSE ref - 2 * q[v]
  IN {v \in V : off(v) * 10000 <= MaxDeviation * ref}

\* Mutant: one source more is asked for than the methodology does.
ReconcileMoreThan(q, V) ==
  LET usable == {v \in V : q[v] # NoQuote}
  IN IF Cardinality(usable) <= MinSources \/ Cardinality(Kept(q, usable)) <= MinSources
       THEN Rejected
       ELSE DoubledMedian(q, Kept(q, usable))
\* Twice the consensus price of the venues in V, or Rejected: too few sources,
\* or too few in agreement.
Reconcile(q, V) ==
  LET usable == {v \in V : q[v] # NoQuote}
  IN IF Cardinality(usable) < MinSources \/ Cardinality(Kept(q, usable)) < MinSources
       THEN Rejected
       ELSE DoubledMedian(q, Kept(q, usable))

-----------------------------------------------------------------------------
Init ==
  /\ waiting = Venue
  /\ quote = [v \in Venue |-> NoQuote]
  /\ result = Pending

\* A venue answers; a failed one contributes nothing and fails nothing.
Answer(v, p) ==
  /\ v \in waiting
  /\ waiting' = waiting \ {v}
  /\ quote' = [quote EXCEPT ![v] = p]
  /\ UNCHANGED result

\* Mutant: enough have answered.
SettleEarly ==
  /\ Cardinality(Venue \ waiting) >= MinSources
  /\ result = Pending
  /\ result' = Reconcile(quote, Venue)
  /\ UNCHANGED <<waiting, quote>>
\* All have answered or failed.
Settle ==
  /\ waiting = {}
  /\ result = Pending
  /\ result' = Reconcile(quote, Venue)
  /\ UNCHANGED <<waiting, quote>>

Next ==
  \/ \E v \in Venue :
       \E p \in (IF v = Liar THEN Forged ELSE Honest) \cup {NoQuote} : Answer(v, p)
  \/ Settle

Spec == Init /\ [][Next]_vars

-----------------------------------------------------------------------------
(* Properties. *)

\* Types, and no price is set while a venue may still answer.
TypeOK ==
  /\ waiting \subseteq Venue
  /\ quote \in [Venue -> Honest \cup Forged \cup {NoQuote}]
  /\ result \in {Pending, Rejected} \cup Nat
  /\ result # Pending => waiting = {}

Quoted == {v \in Venue : quote[v] # NoQuote}
Priced == result \notin {Pending, Rejected}

\* Whenever two honest venues quote, the liar cannot take the price further than
\* half a deviation band out of the range they are known to trade in, on either
\* side: the first median lies among the honest quotes, the band around it bounds
\* the liar's, and the second median averages that with an honest one at worst.
HonestMajorityBounds ==
  Priced /\ Cardinality(Quoted \ {Liar}) >= 2 =>
    /\ result * 20000 <= 2 * Highest * (20000 + MaxDeviation)
    /\ result * 20000 >= 2 * Lowest * (20000 - MaxDeviation)

\* Any two of the venues kept may be two bands apart, and trimming moves the
\* median; even so at least two venues quoted within one band of the price that
\* is published, so a venue alone, honest or not, never makes it.
PriceIsCorroborated ==
  Priced =>
    Cardinality({v \in Quoted : /\ (2 * quote[v] - result) * 10000 <= MaxDeviation * result
                                /\ (result - 2 * quote[v]) * 10000 <= MaxDeviation * result})
      >= 2

\* An asset is dropped for disagreement only when its venues disagree: if all
\* usable quotes lie within the band of one another, there is a price.
AgreementIsPriced ==
  /\ result = Rejected
  /\ Cardinality(Quoted) >= MinSources
  => \E v, w \in Quoted : (quote[v] - quote[w]) * 10000 > MaxDeviation * quote[w]

\* methodology.md: a single manipulated source cannot move the published price
\* by more than the deviation band, against the price without it.
OneSourceMovesLittle ==
  LET without == Reconcile(quote, Venue \ {Liar})
  IN Priced /\ without # Rejected =>
       /\ (result - without) * 10000 <= MaxDeviation * without
       /\ (without - result) * 10000 <= MaxDeviation * without
=============================================================================
