CONSTANTS
    None = None
    r1 = r1
    w1 = w1
    w2 = w2
    h1 = h1
    p1 = p1
    Runs = {r1}
    Workers = {w1, w2}
    Starters = {h1}
    Pollers = {p1}
SPECIFICATION FairSpec
PROPERTIES
    EveryRunCloses
