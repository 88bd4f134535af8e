--------------------------- MODULE MCRateSnapshot ---------------------------
(* RateSnapshot on small sets; alerts and runs are symmetric.  The quotes   *)
(* lie below, at and above the threshold; the fine ones have a digit more   *)
(* than the column keeps.                                                   *)
EXTENDS RateSnapshot, TLC

Symmetry == Permutations(Alerts) \cup Permutations(Runs)

=============================================================================
