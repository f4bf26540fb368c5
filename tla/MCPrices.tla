------------------------------- MODULE MCPrices -------------------------------
(* A small instance of Prices for TLC. *)
EXTENDS Prices, TLC

Symmetry == Permutations(Workers)
=============================================================================
