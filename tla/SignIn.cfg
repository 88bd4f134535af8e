SPECIFICATION Spec
CONSTANTS
    Ids = {u1, u2}
    Emails = {"e1", "e2"}
    Passwords = {"p"}
    Subs = {"s1", "s2"}
    GoogleAccounts <- SharedEmail
    Themes = {"system", "dark"}
    Reqs = {r1, r2}
    Nothing = Nothing
SYMMETRY Interchangeable
INVARIANTS
    TypeOK
    RightAccount
PROPERTIES
    GoogleIdStays
    GoogleConflictsAreReal
    SessionStays
