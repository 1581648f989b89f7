SPECIFICATION ProgressSpec
CONSTANTS
    Forms = {g1, g2}
    Jobs = {j1, j2}
    FastCap = 1
    TitleCap = 1
    Attempts = 2
    g1 = g1
    g2 = g2
    j1 = j1
    j2 = j2
    h1 = h1
    nojob = nojob
    sweeper = sweeper
    w1 = w1
    w2 = w2
    w3 = w3
    p1 = p1
    p2 = p2
    a = a
    b = b
    d1 = d1
    d2 = d2
    Nobody = Nobody
    nosource = nosource
    old = old
    new1 = new1
    new2 = new2
    Sources = {1, 2, 3}
    DocOf <- SimilarIn
    Similar <- Chain
    Silent = {}
    Kept = 1
    Workers = {w1, w3}
    ProcOf <- TwoProcesses
    MaxCuts = 0
CHECK_DEADLOCK FALSE
INVARIANTS
    ProgressTypeOK
