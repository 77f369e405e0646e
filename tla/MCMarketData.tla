---------------------------- MODULE MCMarketData ----------------------------
(* MarketData on a short file of lines. *)
EXTENDS MarketData, TLC

MCIdSymmetry == Permutations(Ids)
=============================================================================
