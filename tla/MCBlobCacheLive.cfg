SPECIFICATION FairCacheSpec
CONSTANTS
    Callers = {p1, p2}
    Blobs = {k1, k2}
    Readers = {"read", "title"}
    OnDisk = {}
    MaxCached = 1
    Want = 0
CHECK_DEADLOCK FALSE
PROPERTIES
    CallsEnd
INVARIANTS
    CacheTypeOK
