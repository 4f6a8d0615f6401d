---------------------------- MODULE MCPublishing ----------------------------
(***************************************************************************)
(* Publishing with a few runs.  One payload suffices: what a run publishes *)
(* differs only in its origin.                                             *)
(***************************************************************************)
EXTENDS Publishing, TLC

MCValue   == {1}
MCWeights == <<2>>
MCBasket  == {MCWeights}

\* The same for a feed of two epochs.
MCWeightsOfTwo == <<1>>
MCBasketOfTwo  == {MCWeightsOfTwo}

\* The runs of one kind, and the keys, are interchangeable.
Interchangeable ==
  Permutations(Job) \cup Permutations(Local) \cup Permutations(PublisherKey)
=============================================================================
