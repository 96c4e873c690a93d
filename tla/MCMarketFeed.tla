--------------------------- MODULE MCMarketFeed ---------------------------
(* Two markets, two settings of the page, three requests at a time.        *)
EXTENDS MarketFeed, TLC

Symmetry == Permutations(Markets) \cup Permutations(Options) \cup Permutations(Requests)
=============================================================================
