SPECIFICATION Spec
CONSTANTS
    LastRow = 2
    PageSize = 1
    a = a
    b = b
    Writers = {a, b}
    q1 = q1
    q2 = q2
    Requests = {q1, q2}
    MaxClicks = 4
SYMMETRY Symmetry
CHECK_DEADLOCK FALSE
INVARIANT TypeOK
INVARIANT ListingMatchesControls
INVARIANT ShownBelongsToSnapshot
INVARIANT SettledPagesAgree
INVARIANT NoRowIsMissing
INVARIANT NoticeIsTrue
PROPERTY OneCutOff
