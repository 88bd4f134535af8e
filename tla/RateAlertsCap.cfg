\* Ids are used once: when all are used and deleted, nothing is left to do.
CHECK_DEADLOCK FALSE
SPECIFICATION AlertsSpec
CONSTANTS
    Users = {u1, u2}
    Alerts = {a1, a2, a3, a4, a5}
    Creators = {c1, c2, c3}
    MaxAlerts = 2
    Thresholds = {1700}
    Nothing = Nothing
SYMMETRY Symmetry
INVARIANTS
    AlertsTypeOK
    AlertCapOvershoot
