--------------------------- MODULE MCSavingsLedger --------------------------
(* SavingsLedger on small sets; ids are symmetric.                          *)
EXTENDS SavingsLedger, TLC

Symmetry == Permutations(Users) \cup Permutations(Goals)
            \cup Permutations(Entries) \cup Permutations(Reqs)

(* "1.00" and "-1.00", which IsDecimal admits alike *)
SignedAmounts == {1000, -1000}

=============================================================================
