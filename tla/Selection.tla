----------------------------- MODULE Selection -----------------------------
(***************************************************************************)
(* From providers to published weights: the part of runRebalance           *)
(* (rebalance.js) that decides what the index contains.  It collects the   *)
(* candidates (Universe), screens them (screen in weighting.js with        *)
(* classify.js), drops the names it has no price for, and hands the rest   *)
(* to Weighting.  Each await of runRebalance ends a step.                  *)
(*                                                                         *)
(* Whether the price sources agree on a ticker is an input here; Prices    *)
(* models how they come to agree.                                          *)
(***************************************************************************)
EXTENDS Universe, Weighting

CONSTANTS
  Exchange,                           \* the price sources that know tickers, not ids
  CommoditySymbol, DerivativeSymbol,  \* the denylists, of tickers
  DerivativeName,                     \* the assets whose names match a pattern
  StableChange,                       \* stableMaxChangePct, in tenths of a percent
  MinProviders, MinCap, MinVolume, MinTurnover, MinAge,
  MinSources                          \* pricing.minSources

ASSUME SelectionAssumption ==
  /\ Exchange \cap Provider = {}
  /\ DerivativeName \subseteq Asset
  /\ {StableChange, MinProviders, MinCap, MinVolume, MinTurnover, MinAge, MinSources} \subseteq Nat

VARIABLES
  stage,          \* "fetch", "screen", "price", "weigh" or "refused"
  selected,       \* what screen returns as eligible, largest first
  excluded,       \* pairs of a ticker and a reason
  rejected,       \* pairs of a selected ticker and why it has no price
  constituents    \* the selected names that have a price

selectionVars == <<stage, selected, excluded, rejected, constituents>>
vars == <<world, universe, selectionVars, weightVars>>

-----------------------------------------------------------------------------
(* Classification and eligibility of a merged row, whose medians are       *)
(* doubled.                                                                *)

Quiet(change) == change \in (-2 * StableChange)..(2 * StableChange)

\* One quiet window is common, so both must be.
LooksLikeStablecoin(row) ==
  /\ row.day # Null /\ row.week # Null
  /\ Quiet(row.day) /\ Quiet(row.week)

LooksLikeDerivative(row) == row.ticker \in DerivativeSymbol \/ row.name \in DerivativeName

\* What a name is comes before how large it is.
ClassifyExclusion(row) == <<
  <<"commodity",          row.ticker \in CommoditySymbol>>,
  <<"derivative",         LooksLikeDerivative(row)>>,
  <<"stablecoin",         LooksLikeStablecoin(row)>>,
  <<"unknown_volatility", row.day = Null \/ row.week = Null>> >>

\* Mutant: an age nobody reports is let through.
NeverUnknown(row) == FALSE
\* An asset nobody has a listing date of could be days old.
AgeUnknown(row) == row.age = Null

\* The rules in the order of the code.
Verdicts(row) == ClassifyExclusion(row) \o <<
  <<"too_few_providers",   Len(row.sources) < MinProviders>>,
  <<"market_cap",          row.cap < 2 * MinCap>>,
  <<"volume",              row.volume < 2 * MinVolume>>,
  <<"turnover",            row.volume * TotalBps < MinTurnover * row.cap>>,
  <<"unknown_listing_age", AgeUnknown(row)>>,
  <<"listing_age",         row.age # Null /\ row.age < MinAge>> >>

\* The rules a row fails; the first is the reason on record.
Failing(row) == {i \in DOMAIN Verdicts(row) : Verdicts(row)[i][2]}
Reason(row) == Verdicts(row)[Min(Failing(row))][1]

Passing == Descending(Keep(universe, {i \in DOMAIN universe : Failing(universe[i]) = {}}))

-----------------------------------------------------------------------------
SelectionInit ==
  /\ UniverseInit
  /\ WeightInit
  /\ stage = "fetch"
  /\ selected = <<>>
  /\ excluded = {}
  /\ rejected = {}
  /\ constituents = <<>>

\* The providers have answered or failed; without a single row there is no epoch.
FetchUniverse ==
  /\ stage = "fetch"
  /\ Collect
  /\ stage' = IF universe' = <<>> THEN "refused" ELSE "screen"
  /\ UNCHANGED <<selected, excluded, rejected, constituents, weightVars>>

\* Mutant: the names beyond the target size are not put on record.
ScreenUnrecorded ==
  /\ stage = "screen"
  /\ selected' = Prefix(Passing, MaxNames)
  /\ excluded' = {<<row.ticker, Reason(row)>> : row \in ToSet(universe) \ ToSet(Passing)}
  /\ stage' = IF selected' = <<>> THEN "refused" ELSE "price"
  /\ UNCHANGED <<world, universe, rejected, constituents, weightVars>>
\* screen: the largest names that pass every rule, and a reason for each other.
Screen ==
  /\ stage = "screen"
  /\ selected' = Prefix(Passing, MaxNames)
  /\ excluded' =
       {<<row.ticker, Reason(row)>> : row \in ToSet(universe) \ ToSet(Passing)}
       \cup {<<Passing[i].ticker, "below_target_size">> : i \in (MaxNames + 1)..Len(Passing)}
  /\ stage' = IF selected' = <<>> THEN "refused" ELSE "price"
  /\ UNCHANGED <<world, universe, rejected, constituents, weightVars>>

\* An exchange's pair is derived from the ticker; an aggregator is asked by the
\* id its own fundamentals gave, and not at all without one.
IdFor(p, row) == IF p \in DOMAIN row.ids THEN row.ids[p] ELSE Null
Quotes(source, row) ==
  IF source \in Exchange
    THEN row.ticker \in world.quoted[source]
    ELSE IdFor(source, row) # Null /\ IdFor(source, row) \in world.quoted[source]

Quoted(row) == Cardinality({s \in Provider \cup Exchange : Quotes(s, row)}) >= MinSources
Priced(row) == Quoted(row) /\ row.ticker \notin world.disputed

\* reconcileAll's rejections: every name that was asked for has a price or a reason.
Unpriced(rows) ==
  {<<row.ticker, IF Quoted(row) THEN "no_consensus" ELSE "too_few_sources">> :
     row \in {r \in ToSet(rows) : ~Priced(r)}}

\* Names without a price are left out and not replaced; the rest is weighed.  What
\* is priced beside them, the names that leave the index, is of no matter here.
Price ==
  /\ stage = "price"
  /\ constituents' = Keep(selected, {i \in DOMAIN selected : Priced(selected[i])})
  /\ constituents' # <<>>
  /\ rejected' = Unpriced(selected)
  /\ mcap' = [i \in DOMAIN constituents' |-> constituents'[i].cap]
  /\ step' = "cap"
  /\ stage' = "weigh"
  /\ UNCHANGED <<world, universe, selected, excluded, capped, pass, bps>>

\* No name has a price: refuse to publish.
PriceNone ==
  /\ stage = "price"
  /\ \A i \in DOMAIN selected : ~Priced(selected[i])
  /\ stage' = "refused"
  /\ UNCHANGED <<world, universe, selected, excluded, rejected, constituents, weightVars>>

WeighOn == Weigh /\ UNCHANGED <<world, universe, selectionVars>>

SelectionNext ==
  \/ FetchUniverse
  \/ Screen
  \/ Price
  \/ PriceNone
  \/ WeighOn

\* weight and toBasisPoints are synchronous code.
SelectionSpec == SelectionInit /\ [][SelectionNext]_vars /\ WF_vars(WeighOn)

-----------------------------------------------------------------------------
(* Properties. *)

Screened == stage \notin {"fetch", "screen"}

\* The tickers the adapters hand on, after their own filter and cut.
Claimed  == {TickerOf(c) : c \in ToSet(Claims)}

\* The rows an adapter does not hand on: those without a capitalisation, and of
\* CoinPaprika what no row it hands on is smaller than, once it has its Limit.
DroppedBy(p, row) ==
  LET claims == ClaimsOf(p)
  IN \/ row.cap <= 0
     \/ /\ p = Paprika /\ Len(claims) = Limit
        /\ \A i \in DOMAIN claims : claims[i].row.cap >= row.cap

\* Types and bounds, and the size of each list that is handed on.
TypeOK ==
  /\ WeightTypeOK
  /\ stage \in {"fetch", "screen", "price", "weigh", "refused"}
  /\ ToSet(selected) \subseteq ToSet(universe) /\ Len(selected) <= MaxNames
  /\ ToSet(constituents) \subseteq ToSet(selected)
  /\ Len(constituents) = Len(mcap)

\* A name is only weighed on what providers said themselves, whichever of them
\* failed and however rows were merged: some provider has it listed long enough,
\* some saw it move, both windows were reported, and some asset of the ticker is
\* no derivative and is large and traded enough.  Missing data never admits a name.
AdmittedOnEvidence ==
  \A i \in DOMAIN constituents :
    LET rows == {c.row : c \in ToSet(About(constituents[i].ticker))}
        reported(w) == {r[w] : r \in rows} \ {Null}
    IN /\ \E a \in reported("age") : a >= MinAge
       /\ \E w \in {"day", "week"} : \E d \in reported(w) : d \notin (-StableChange)..StableChange
       /\ \A w \in {"day", "week"} : reported(w) # {}
       /\ \E r \in rows : r.asset \notin DerivativeName
       /\ \E r \in rows : r.cap >= MinCap
       /\ \E r \in rows : r.volume >= MinVolume
       /\ \E r, s \in rows : r.volume * TotalBps >= MinTurnover * s.cap

\* Enough providers list a ticker, the claims of each taken alone pass the rules,
\* and they agree on the direction of a move.
Blameless(t) ==
  LET claims == About(t)
      rows == {c.row : c \in ToSet(claims)}
      reported(w) == {r[w] : r \in rows} \ {Null}
  IN /\ Len(claims) >= MinProviders
     /\ t \notin CommoditySymbol \cup DerivativeSymbol
     /\ \A r \in rows : /\ r.asset \notin DerivativeName
                        /\ r.cap >= MinCap
                        /\ r.volume >= MinVolume
                        /\ r.volume * TotalBps >= MinTurnover * r.cap
     /\ \E a \in reported("age") : a >= MinAge
     /\ \A w \in {"day", "week"} : reported(w) # {}
     /\ \E w \in {"day", "week"} : \/ \A d \in reported(w) : d > StableChange
                                   \/ \A d \in reported(w) : d < -StableChange

\* The merge does no name wrong: one that passes by every provider's word is
\* selected, unless the index is full of names that none of them calls smaller.
BlamelessIsIn ==
  Screened =>
    \A t \in Claimed :
      (\A i \in DOMAIN selected : selected[i].ticker # t) /\ Blameless(t) =>
        /\ Len(selected) = MaxNames
        /\ \A i \in DOMAIN selected :
             \E c \in ToSet(About(selected[i].ticker)), d \in ToSet(About(t)) :
               c.row.cap >= d.row.cap

\* From what a provider lists to what is weighed nothing gets lost.  A row that is
\* listed is handed on under its ticker, or has no capitalisation, or is crowded
\* out of CoinPaprika's Limit by rows no smaller; and the audit record accounts for
\* every ticker handed on: it is weighed, or it was excluded by the screening, cut
\* to the target size or rejected by the pricing, for one reason that is on record,
\* however rows were merged, sorted and cut.
EveryAbsenceHasAReason ==
  stage = "weigh" =>
    LET in     == {row.ticker : row \in ToSet(constituents)}
        record == excluded \cup rejected
        out    == {e[1] : e \in record}
    IN /\ in \cap out = {}
       /\ in \cup out = Claimed
       /\ Cardinality(record) = Cardinality(out)
       /\ \A p \in Provider : world.listing[p] # Failed =>
            \A row \in ToSet(world.listing[p]) :
              Ticker[row.asset] \in Claimed \/ DroppedBy(p, row)

Enough == CapBps * Len(constituents) >= TotalBps

\* Once names are priced, an epoch comes of it if they are enough for the cap,
\* and a refusal if pricing has left fewer; the capping always comes to an end.
EpochIfEnough ==
  stage = "weigh" ~> step = IF Enough THEN "done" ELSE "refused"

\* What is handed over is what the weighting expects: at least one name, no more
\* than the target size, largest first; and the weighting then runs undisturbed.
ImplementsWeighting == WeightSpec

\* sources.js: matching by id keeps a wrapped derivative from being priced as the
\* real asset of the same ticker.
PricedAsItself ==
  \A i \in DOMAIN constituents : \A p \in Provider :
    Quotes(p, constituents[i]) => IdFor(p, constituents[i]) \notin DerivativeName
=============================================================================
