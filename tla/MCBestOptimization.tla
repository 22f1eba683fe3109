------------------------- MODULE MCBestOptimization -------------------------
(* An instance of BestOptimization for TLC. *)
EXTENDS BestOptimization

(* Both sentinels, and times on both sides of the allowed difference.      *)
MCTimes == {-1, 0, 949, 951, 1000, 1049, 1051, 3000}
=============================================================================
