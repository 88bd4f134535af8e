\* What is stated of the entries of a split and does not hold.
\* TLC stops at the first that fails: leave one in to see it fail.
\* Ids are used once: when all are used and deleted, nothing is left to do.
CHECK_DEADLOCK FALSE
SPECIFICATION Spec
CONSTANTS
    Users = {u1}
    Goals = {g1}
    Entries = {e1}
    Reqs = {r1}
    Rates = {2}
    CreateAmounts = {}
    SplitAmounts = {4, 1004}
    Nothing = Nothing
SYMMETRY Symmetry
INVARIANTS
    AlwaysConsistent
    AmountsPositive
