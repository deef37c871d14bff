SPECIFICATION Spec
CONSTANTS
    n1 = n1
    n2 = n2
    n3 = n3
    Names = {n1, n2, n3}
    c1 = c1
    Contents = {c1}
    r1 = r1
    Runs = {r1}
    Absent = Absent
    Corrupt = Corrupt
    NoRun = NoRun
    MAX_NAMES_PER_DOWNLOAD = 2
    single_404_attempts = 2
    max_stale_iterations = 2
    network_max_attempts = 2
SYMMETRY Symmetry
INVARIANT TypeOK
INVARIANT DoneCountsAgree
INVARIANT HealthyNamesSurvive
CHECK_DEADLOCK FALSE
