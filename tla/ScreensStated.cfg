\* What is stated of the forms and does not hold.
\* TLC stops at the first that fails: leave one in to see it fail.
SPECIFICATION Spec
CONSTANTS
    Writes = {w1}
    Typed <- KindsOfText
    Missed <- Products
    Empty = Empty
    Unreadable = {}
    Gaps <- KnownGaps
    Nothing = Nothing
INVARIANTS
    SplitFollowsGoals
    HooksReplace
    AnyVisitKeepsAmount
PROPERTIES
    EachEntryIsTyped
    SentIsShown
