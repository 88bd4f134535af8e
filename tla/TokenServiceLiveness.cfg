\* The pool of tokens ends and every token expires: the system may come to rest.
CHECK_DEADLOCK FALSE
SPECIFICATION FairSpec
CONSTANTS
    Users = {u1, u2}
    Tokens = {t1, t2}
    Reqs = {r1, r2}
    NoUser = NoUser
    NoToken = NoToken
PROPERTIES
    RequestsReturn
