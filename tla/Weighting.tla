----------------------------- MODULE Weighting -----------------------------
(***************************************************************************)
(* weight and toBasisPoints of packages/aggregator/src/weighting.js: from  *)
(* the market capitalisations of the eligible names, largest first as      *)
(* screen leaves them, to the published basis points.                      *)
(*                                                                         *)
(* A name that is not capped always holds its share, by capitalisation, of *)
(* what the capped names leave, so the set of capped names is the whole    *)
(* state of the loop and weights are exact fractions of it.  The rounding  *)
(* of floating point, and the 1e-12 that absorbs it, are left out.         *)
(***************************************************************************)
EXTENDS Integers, Sequences, FiniteSets, SequencesExt

CONSTANTS
  MaxNames,       \* targetSize
  TotalBps,       \* TOTAL_WEIGHT_BPS
  CapBps          \* concentrationCapBps

ASSUME WeightingAssumption ==
  /\ MaxNames \in Nat \ {0}
  /\ TotalBps \in Nat \ {0}
  /\ CapBps \in 1..TotalBps
  \* What rounding up adds to all the names can be taken from one of them.
  /\ MaxNames * (MaxNames - 1) <= 2 * TotalBps

VARIABLES
  mcap,           \* the capitalisations, in screen's order
  capped,         \* the names held at the cap
  pass,           \* passes of the loop begun
  step,           \* "idle", "cap", "round", "done" or "refused"
  bps             \* the published basis points

weightVars == <<mcap, capped, pass, step, bps>>

Names == 1..Len(mcap)
Free  == Names \ capped
SumOver(m, S) == MapThenSumSet(LAMBDA i : m[i], S)
TotalOf(S) == SumOver(mcap, S)

\* What the capped names leave, in basis points of the whole.
Remaining == TotalBps - CapBps * Cardinality(capped)

\* The weight of a name, as the fraction Num / Den of a basis point.
Num(i) == IF i \in capped THEN CapBps ELSE mcap[i] * Remaining
Den(i) == IF i \in capped THEN 1 ELSE TotalOf(Free)

-----------------------------------------------------------------------------
WeightInit ==
  /\ mcap = <<>>
  /\ capped = {}
  /\ pass = 0
  /\ step = "idle"
  /\ bps = <<>>

\* The input: the names that were screened and priced, largest first.
Begin ==
  /\ step = "idle"
  /\ mcap' \in Seq(Nat \ {0})
  /\ Len(mcap') \in 1..MaxNames
  /\ \A i \in 2..Len(mcap') : mcap'[i] <= mcap'[i - 1]
  /\ step' = "cap"
  /\ UNCHANGED <<capped, pass, bps>>

\* Mutant: one name fewer than the cap needs will do.
SatisfiableWithOneMore == CapBps * (Len(mcap) + 1) >= TotalBps
\* Mutant: an equal split at the cap is refused.
SatisfiableStrictly == CapBps * Len(mcap) > TotalBps
Satisfiable == CapBps * Len(mcap) >= TotalBps

\* A cap below an equal split is refused.
Refuse ==
  /\ step = "cap" /\ pass = 0
  /\ ~Satisfiable
  /\ step' = "refused"
  /\ UNCHANGED <<mcap, capped, pass, bps>>

\* Mutant: the name after the last one over the cap is capped with it.
BreachingAndNext == {i \in Free : \E j \in Free : i <= j + 1 /\ Num(j) > CapBps * Den(j)}
Breaching == {i \in Free : Num(i) > CapBps * Den(i)}

\* One pass of the loop: every name over the cap is put at the cap, and the
\* others share the rest.
Cap ==
  /\ step = "cap"
  /\ Satisfiable
  /\ pass < Len(mcap)
  /\ Breaching # {}
  /\ capped' = capped \cup Breaching
  /\ pass' = pass + 1
  /\ UNCHANGED <<mcap, step, bps>>

\* Mutant: one pass is enough.
StopAfterOne ==
  /\ step = "cap"
  /\ Satisfiable
  /\ Breaching = {} \/ pass = 1
  /\ step' = "round"
  /\ UNCHANGED <<mcap, capped, pass, bps>>
\* Nothing breaches, or the loop has run its bound of passes.
Stop ==
  /\ step = "cap"
  /\ Satisfiable
  /\ Breaching = {} \/ pass = Len(mcap)
  /\ step' = "round"
  /\ UNCHANGED <<mcap, capped, pass, bps>>

\* Math.round, halves up.
Rounded(i) == (2 * Num(i) + Den(i)) \div (2 * Den(i))

RoundedBps == [i \in Names |-> Rounded(i)]
Residual == TotalBps - FoldSeq(+, 0, RoundedBps)

\* The first name none exceeds.
Largest == CHOOSE i \in Names : /\ \A j \in Names : Rounded(j) <= Rounded(i)
                                /\ \A j \in 1..(i - 1) : Rounded(j) < Rounded(i)

\* Mutant: the residual is dropped.
ToBasisPointsUnsettled ==
  /\ step = "round"
  /\ bps' = RoundedBps
  /\ step' = "done"
  /\ UNCHANGED <<mcap, capped, pass>>
\* toBasisPoints: the residual of the rounding goes to the largest name.
ToBasisPoints ==
  /\ step = "round"
  /\ bps' = [RoundedBps EXCEPT ![Largest] = @ + Residual]
  /\ step' = "done"
  /\ UNCHANGED <<mcap, capped, pass>>

Weigh == Refuse \/ Cap \/ Stop \/ ToBasisPoints

WeightNext == Begin \/ Weigh

WeightSpec == WeightInit /\ [][WeightNext]_weightVars

-----------------------------------------------------------------------------
(* Properties. *)

\* Types and bounds: no more names than targetSize, no more passes than names.
WeightTypeOK ==
  /\ mcap \in Seq(Nat \ {0}) /\ Len(mcap) \in 0..MaxNames
  /\ capped \subseteq Names
  /\ pass \in 0..Len(mcap)
  /\ step \in {"idle", "cap", "round", "done", "refused"}
  /\ bps \in Seq(Nat) /\ Len(bps) = (IF step = "done" THEN Len(mcap) ELSE 0)

\* The loop has a bound of one pass per name and falls out of it silently; it is
\* never the bound that ends it while a name is still over the cap.
BoundNeverBites == step \in {"round", "done"} => Breaching = {}

\* Every pass takes weight from the names over the cap and pushes it onto the
\* others.  Before and after each pass some name is free to take it and what the
\* capped names leave is positive, even when the cap is an equal split: so the
\* weights add up to one, and the loop shares out no remainder among nobody.
WeightsAddToOne ==
  step \in {"cap", "round", "done"} => Free # {} /\ Remaining > 0

\* No name is capped without need: at the final scale each capped name would
\* still be at or over the cap, so the result is the one water-filling of the
\* cap, and larger names never weigh less than smaller ones.
NoneCappedInVain ==
  step \in {"round", "done"} /\ Free # {} =>
    \A i \in capped : mcap[i] * Remaining >= CapBps * TotalOf(Free)

\* The published vector is one the contract accepts.  Each name has its exact
\* weight rounded to the nearest basis point, but the largest by capitalisation:
\* it is the one that takes the residual, although it is found among rounded and
\* capped weights that may tie, and it is off by what the others were rounded by.
BpsAreFaithful ==
  step = "done" =>
    /\ FoldSeq(+, 0, bps) = TotalBps
    /\ \A i \in Names :
         LET off == 2 * (bps[i] * Den(i) - Num(i))
             slack == (IF i = 1 THEN Len(mcap) - 1 ELSE 1) * Den(i)
         IN -slack <= off /\ off <= slack

\* methodology.js and its tests: no single name may exceed the cap.
PublishedCapHolds ==
  step = "done" => \A i \in Names : bps[i] <= CapBps
=============================================================================
