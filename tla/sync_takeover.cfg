SPECIFICATION Spec
CONSTANTS
    n1 = n1
    n2 = n2
    Names = {n1, n2}
    c1 = c1
    c2 = c2
    Contents = {c1, c2}
    r1 = r1
    r2 = r2
    Runs = {r1, r2}
    Absent = Absent
    Corrupt = Corrupt
    NoRun = NoRun
    MAX_NAMES_PER_DOWNLOAD = 2
    single_404_attempts = 1
    max_stale_iterations = 1
    network_max_attempts = 1
SYMMETRY Symmetry
INVARIANT ConfirmedAreStored
PROPERTY ImplementsCatalogSync
CHECK_DEADLOCK FALSE
