SPECIFICATION CacheSpec
CONSTANTS
    Callers = {p1, p2}
    Blobs = {k1, k2}
    Readers = {"title", "hash"}
    OnDisk = {}
    MaxCached = 1
    Want = 0
CHECK_DEADLOCK FALSE
INVARIANTS
    FilelessIsGone
