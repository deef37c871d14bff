CONSTANTS
    None = None
    r1 = r1
    r2 = r2
    w1 = w1
    h1 = h1
    h2 = h2
    Runs = {r1, r2}
    Workers = {w1}
    Starters = {h1, h2}
    Pollers = {}
SPECIFICATION Spec
SYMMETRY Symmetry
INVARIANTS
    OneActiveRun

PROPERTIES
    ImplementsService
