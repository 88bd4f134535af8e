--------------------------- MODULE MCTokenService ---------------------------
(* TokenService on small sets; every set is symmetric for the safety runs.  *)
EXTENDS TokenService, TLC

Symmetry == Permutations(Tokens) \cup Permutations(Reqs) \cup Permutations(Users)

=============================================================================
