SPECIFICATION HubSpec
CONSTANTS
    p1 = p1
    p2 = p2
    u1 = u1
    u2 = u2
    s1 = s1
    s2 = s2
    ann = ann
    bob = bob
    Procs = {p1, p2}
    Publishers = {u1, u2}
    Streams = {s1, s2}
    Home <- MCHome
    Owner <- MCOwner
    Sees <- MCSees
    Buffer = 1
    MaxEvents = 3
    MaxLost = 1
CHECK_DEADLOCK FALSE
INVARIANTS
    HubTypeOK
    SeenInOrder
    NeverSilenced
