SPECIFICATION QueueSpec
CONSTANTS
    a = a
    b = b
    c = c
    w1 = w1
    w2 = w2
    w3 = w3
    p1 = p1
    p2 = p2
    Sources = {a, b}
    Workers = {w1, w2, w3}
    ProcOf <- MCProcOf
    Dotted = {b}
    MaxLapses = 1
CHECK_DEADLOCK FALSE
INVARIANTS
    DelayIsKept
PROPERTIES
    EndsDeferred
