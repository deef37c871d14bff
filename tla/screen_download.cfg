SPECIFICATION FairSpec
CONSTANTS
    LastRun = 2
    p1 = p1
    p2 = p2
    Polls = {p1, p2}
CHECK_DEADLOCK FALSE
INVARIANT TypeOK
INVARIANT PollingNeverStops
PROPERTY ScreenSettles
PROPERTY StartIsOffered
