SPECIFICATION SimSpec
CONSTANTS
    d1 = d1
    d2 = d2
    w1 = w1
    w2 = w2
    p1 = p1
    Sources = {1, 2, 3}
    DocOf <- MCDocOf
    Similar <- Chain
    Silent = {}
    Kept = 3
    Workers = {w1, w2}
    ProcOf <- OneProc
    MaxCuts = 1
CHECK_DEADLOCK FALSE
INVARIANTS
    StampedAreCompared
