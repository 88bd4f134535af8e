---------------------------- MODULE MCRateAlerts ----------------------------
(* RateAlerts on small sets; users, alerts and creators are symmetric.      *)
EXTENDS RateAlerts, TLC

Symmetry == Permutations(Users) \cup Permutations(Alerts) \cup Permutations(Creators)

=============================================================================
