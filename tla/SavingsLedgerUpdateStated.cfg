\* What is stated of updates of an entry and does not hold.
\* TLC stops at the first that fails: leave one in to see it fail.
\* Ids are used once: when all are used and deleted, nothing is left to do.
CHECK_DEADLOCK FALSE
SPECIFICATION Spec
CONSTANTS
    Users = {u1}
    Goals = {g1}
    Entries = {e1}
    Reqs = {r1, r2}
    Rates = {2}
    CreateAmounts <- SignedAmounts
    SplitAmounts = {}
    Nothing = Nothing
SYMMETRY Symmetry
INVARIANTS
    AlwaysConsistent
    AmountsPositive
