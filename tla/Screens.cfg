SPECIFICATION Spec
CONSTANTS
    Writes = {w1, w2}
    Typed <- KindsOfText
    Missed <- Products
    Empty = Empty
    Unreadable = {}
    Gaps <- KnownGaps
    Nothing = Nothing
SYMMETRY Interchangeable
INVARIANTS
    TypeOK
    LateIsReplaced
    VisitKeepsAmount
