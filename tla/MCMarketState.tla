---- MODULE MCMarketState ----
(***************************************************************************)
(* MarketState for TLC.  The sides of the book are replaced in the same    *)
(* way and no definition tells them apart: they are interchangeable.       *)
(***************************************************************************)
EXTENDS MarketState, TLC

BookSymmetry == Permutations(Books)

====
