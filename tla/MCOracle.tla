------------------------------ MODULE MCOracle ------------------------------
(***************************************************************************)
(* Oracle on a u32 of two bits, so that a few calls reach the last epoch   *)
(* and a weight sum that overflows.  With a total of 2, <<3, 3>> is the    *)
(* basket whose wrapped sum (6 mod 4) would pass the check.                *)
(***************************************************************************)
EXTENDS Oracle

MCValue  == {0, 1}
MCBasket == {<<>>, <<2>>, <<1, 1>>, <<1>>, <<3, 3>>}
=============================================================================
