\* Ids are used once: when all are used and deleted, nothing is left to do.
CHECK_DEADLOCK FALSE
SPECIFICATION Spec
CONSTANTS
    Users = {u1}
    Goals = {g1, g2}
    Entries = {e1, e2}
    Reqs = {r1}
    Rates = {2, 3}
    CreateAmounts = {1000}
    SplitAmounts = {1000, 1004}
    Nothing = Nothing
SYMMETRY Symmetry
INVARIANTS
    TypeOK
    FrozenIsConversion
PROPERTIES
    SplitSharesRate
