\* The pool of tokens ends and all access tokens lapse: the page may come to rest.
CHECK_DEADLOCK FALSE
SPECIFICATION StaySpec
CONSTANTS
    Pages = {p1}
    Queries = {q1, q2}
    Users = {u1, u2}
    Tokens = {t1, t2, t3}
    NoUser = NoUser
    NoToken = NoToken
SYMMETRY Symmetry
INVARIANTS
    StoredMatchesShown
    TypeOK
    PresentedTokenWorks
