\* What is stated of signing in and does not hold.
\* TLC stops at the first that fails: leave one in to see it fail.
SPECIFICATION Spec
CONSTANTS
    Ids = {u1, u2}
    Emails = {"e1", "e2"}
    Passwords = {"p"}
    Subs = {"s1", "s2"}
    GoogleAccounts <- SharedEmail
    Themes = {"system", "dark"}
    Reqs = {r1, r2}
    Nothing = Nothing
SYMMETRY Interchangeable
PROPERTIES
    ThemeAdopted
    GoogleCanBeRetried
    GoogleIdNeverOverwritten
