SPECIFICATION Spec
CONSTANTS
    r1 = r1
    r2 = r2
    Runs = {r1, r2}
    NoRun = NoRun
    min_interval = 2
    max_interval = 4
    max_retry_wait = 1
    ttl_floor = 16
    Horizon = 6
SYMMETRY Symmetry
CHECK_DEADLOCK FALSE
INVARIANT RateIsBounded
INVARIANT QueueIsShort
INVARIANT TypeOK
INVARIANT PaceSurvivesPause
