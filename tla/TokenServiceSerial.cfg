\* The pool of tokens ends and every token expires: the system may come to rest.
CHECK_DEADLOCK FALSE
SPECIFICATION Spec
CONSTANTS
    Users = {u1, u2}
    Tokens = {t1, t2, t3, t4}
    Reqs = {r1}
    NoUser = NoUser
    NoToken = NoToken
SYMMETRY Symmetry
INVARIANTS
    TypeOK
    OneLivePerSession
    ReuseEndsSessions
    LogoutEndsSession
PROPERTIES
    ImplementsSessions
    RevocationStaysWithinUser
