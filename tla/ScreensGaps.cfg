SPECIFICATION Spec
CONSTANTS
    Writes = {w1}
    Typed <- KindsOfText
    Missed <- Products
    Empty = Empty
    Unreadable = {}
    Gaps <- NoGaps
    Nothing = Nothing
INVARIANTS
    LateIsReplaced
