\* Ids are used once and days are bounded: when all are spent, nothing is left to do.
CHECK_DEADLOCK FALSE
SPECIFICATION AlertsSpec
CONSTANTS
    Users = {u1, u2}
    Alerts = {a1, a2, a3}
    Creators = {c1, c2}
    MaxAlerts = 1
    Thresholds = {1700}
    Nothing = Nothing
SYMMETRY Symmetry
INVARIANTS
    AlertCap
