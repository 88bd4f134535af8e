\* The pool of tokens ends and all access tokens lapse: the page may come to rest.
CHECK_DEADLOCK FALSE
SPECIFICATION FairSpec
CONSTANTS
    Pages = {p1}
    Queries = {q1}
    Users = {u1}
    Tokens = {t1, t2, t3}
    NoUser = NoUser
    NoToken = NoToken
PROPERTIES
    CallsSettle
    RestoreSettles
