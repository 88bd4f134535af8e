\* What is stated of the daily run and does not hold.
\* TLC stops at the first that fails: leave one in to see it fail.
\* Ids are used once and days are bounded: when all are spent, nothing is left to do.
CHECK_DEADLOCK FALSE
SPECIFICATION Spec
CONSTANTS
    Users = {u1}
    Alerts = {a1}
    Creators = {c1}
    MaxAlerts = 2
    Thresholds = {1700}
    Nothing = Nothing
    Runs = {r1, r2}
    LastDay = 2
    Quotes = {1690, 1710}
SYMMETRY Symmetry
INVARIANTS
    NeverTwice
    StoppedRunsRetried
