SPECIFICATION FairSpec
CONSTANTS
    n1 = n1
    n2 = n2
    Names = {n1, n2}
    c1 = c1
    Contents = {c1}
    r1 = r1
    Runs = {r1}
    Absent = Absent
    Corrupt = Corrupt
    NoRun = NoRun
    MAX_NAMES_PER_DOWNLOAD = 2
    single_404_attempts = 2
    max_stale_iterations = 2
    network_max_attempts = 2
INVARIANT HandedOutIsBounded
PROPERTIES
    EveryStepCounts
    EveryRunEnds
CHECK_DEADLOCK FALSE
