SPECIFICATION HubSpec
CONSTANTS
    p1 = p1
    p2 = p2
    u1 = u1
    u2 = u2
    s1 = s1
    s2 = s2
    ann = ann
    bob = bob
    Procs = {p1}
    Publishers = {u1, u2}
    Streams = {s1}
    Home <- MCHome
    Owner <- MCOwner
    Sees <- SeesAll
    Buffer = 1
    MaxEvents = 3
    MaxLost = 0
CHECK_DEADLOCK FALSE
INVARIANTS
    KeepsLatest
