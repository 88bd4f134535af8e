SPECIFICATION ApiOnly
CONSTANTS
    Ids = {u1, u2}
    Emails = {"e1", "e2"}
    Passwords = {"p"}
    Subs = {"s1", "s2"}
    GoogleAccounts <- ChangedEmail
    Themes = {"system", "dark"}
    Reqs = {r1, r2, r3}
    Nothing = Nothing
SYMMETRY Interchangeable
PROPERTIES
    GoogleConflictsAreReal
