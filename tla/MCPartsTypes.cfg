SPECIFICATION PartsSpec
CONSTANTS
    Procs = {q1, q2, q3}
    Keys = {k1, k2}
    Locks = {m1, m2}
    Nobody = nobody
    NoLock = nolock
    q1 = q1
    q2 = q2
    q3 = q3
    k1 = k1
    k2 = k2
    Callers = {q1, q2}
    Blobs = {k1, k2}
    Readers = {"read", "title"}
    OnDisk = {k1}
    MaxCached = 1
    Want = 0
    c1 = c1
    a1 = a1
    a2 = a2
    e1 = e1
    f3 = f3
    f4 = f4
    f5 = f5
    Uploads = {c1, a1, a2}
    Creates = {c1}
    Docs = {e1}
    Files = {f3, f4, f5}
    DocOf <- UploadDoc
    FilesOf <- Uploaded
    Erp <- Number
    MaxSources = 2
    PutCap = 1
    Attempts = 2
    old = old
    new1 = new1
    new2 = new2
    Processes = {old, new1, new2}
    Known <- KnownByRelease
    FailLimit = 2
    MaxFaults = 4
    f1 = f1
    f2 = f2
    s1 = s1
    s2 = s2
    t1 = t1
    t2 = t2
    NoText = NoText
    Pending = Pending
    Scans = {f1, f2}
    Digests = {s1, s2}
    Texts = {t1, t2}
    Bits = {1, 2, 3, 4}
    Bands = {1, 2}
    BandOf <- TwoBands
    MaxDist = 1
    PageCounts = {1, 7, 8, 9}
    a = a
    b = b
    w1 = w1
    w2 = w2
    w3 = w3
    p1 = p1
    p2 = p2
    Sources = {a, b}
    Workers = {w1, w2, w3}
    ProcOf <- TwoProcesses
    Dotted = {b}
    MaxLapses = 1
    biological = biological
    geological = geological
    ecological = ecological
    biologically = biologically
    the = the
    ox = ox
    Titles <- ShortTitles
    Stop = {the}
    Spelling <- Distances
    Runes <- Lengths
    WordMin = 80
    ShortWord = 4
    MinRunes = 8
    MinMatch = 2
SYMMETRY PartsSymmetry
CHECK_DEADLOCK FALSE
INVARIANTS
    PartsTypeOK
