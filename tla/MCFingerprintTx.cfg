SPECIFICATION TxSpec
CONSTANTS
    d1 = d1
    d2 = d2
    a = a
    b = b
    c = c
    w1 = w1
    w2 = w2
    w3 = w3
    Nobody = Nobody
    NoSource = NoSource
    Docs <- MCDocs
    DocRank <- MCDocRank
    Sources <- MCSources
    DocOf <- MCDocOf
    Rank <- MCRank
    Near <- MCNear
    Match <- MCMatch
    AdminOwned = {}
    MaxSources = 2
    Workers <- ThreeWorkers
    Keys = {1, 2, 3}
    KeysOf <- MCKeysOf
    MaxAborts = 1
INVARIANTS
    NoCandidateMissed
    NoWaitCycle
PROPERTIES
    ImplementsCorpus
SYMMETRY WorkerSymmetry
CHECK_DEADLOCK FALSE
