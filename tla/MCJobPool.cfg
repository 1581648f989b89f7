SPECIFICATION PoolSpec
CONSTANTS
    h1 = h1
    Sources <- TwoFiles
    Handlers = {h1}
    FilesOf <- MCFilesOf
    Kind <- MixedKinds
    Workers = {w1, w2}
    Sweeper = sweeper
    QueueCap = 2
    HeavyCap = 1
    TitleCap = 1
    Batch = 1
    Configured = TRUE
    NoJob = nojob
SYMMETRY WorkerSymmetry
INVARIANTS
    KeysHaveJobs
    HashedByOne
    TitleStands
