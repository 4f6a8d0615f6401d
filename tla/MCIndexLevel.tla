---------------------------- MODULE MCIndexLevel ----------------------------
(***************************************************************************)
(* IndexLevel on three names and two parts, so that a name may be all, half *)
(* or none of the index; prices halve and double, and a level of one half  *)
(* of a unit is where the published value is about to vanish.              *)
(***************************************************************************)
EXTENDS IndexLevel, TLC

Interchangeable == Permutations(Symbol)
=============================================================================
