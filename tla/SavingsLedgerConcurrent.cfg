\* Ids are used once: when all are used and deleted, nothing is left to do.
CHECK_DEADLOCK FALSE
SPECIFICATION Spec
CONSTANTS
    Users = {u1, u2}
    Goals = {g1, g2}
    Entries = {e1}
    Reqs = {r1, r2}
    Rates = {2}
    CreateAmounts = {1000}
    SplitAmounts = {1000}
    Nothing = Nothing
SYMMETRY Symmetry
INVARIANTS
    EntriesBelong
PROPERTIES
    DeletedStaysDeleted
