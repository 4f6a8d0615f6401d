----------------------------- MODULE MCApiCache -----------------------------
(***************************************************************************)
(* ApiCache with two or three requests in flight, over a contract with one *)
(* payload: updates differ by their epoch and their timestamp.             *)
(***************************************************************************)
EXTENDS ApiCache, TLC

MCValue  == {1}
MCBasket == {<<1>>}

Interchangeable == Permutations(Request)
=============================================================================
