\* What is stated of overlapping or failing requests and does not hold.
\* TLC stops at the first that fails: leave one in to see it fail.
\* The pool of tokens ends and every token expires: the system may come to rest.
CHECK_DEADLOCK FALSE
SPECIFICATION Spec
CONSTANTS
    Users = {u1}
    Tokens = {t1, t2, t3}
    Reqs = {r1, r2}
    NoUser = NoUser
    NoToken = NoToken
SYMMETRY Symmetry
INVARIANTS
    RotatedOnce
    ReuseEndsSessions
    LogoutEndsSession
    RotationAllOrNothing
