------------------------------ MODULE MCPrices ------------------------------
(***************************************************************************)
(* Prices with the real thresholds.  The honest quotes spread over twice   *)
(* the band, the forged ones reach past its edges on both sides.           *)
(***************************************************************************)
EXTENDS Prices

MCHonest == {100, 103, 106, 109, 110}
MCForged == {1, 90, 95, 100, 105, 110, 113, 115, 120, 1000}
=============================================================================
