CONSTANTS
    None = None
    r1 = r1
    r2 = r2
    w1 = w1
    w2 = w2
    h1 = h1
    Runs = {r1, r2}
    Workers = {w1, w2}
    Starters = {h1}
    Pollers = {}
SPECIFICATION Spec
SYMMETRY Symmetry
INVARIANTS
    TypeOK
    OwnersRowIsOpen
    UnstartedRunsAreSilent
PROPERTIES
    RunsOnlyAdvance
    ReaperSparesOwners
    SlotStaysWithItsRun
    ExecutedOnce
