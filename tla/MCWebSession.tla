---------------------------- MODULE MCWebSession ----------------------------
(* WebSession on small sets; tokens, users and queries are symmetric.       *)
EXTENDS WebSession, TLC

Symmetry == Permutations(Tokens) \cup Permutations(Users) \cup Permutations(Queries)

=============================================================================
