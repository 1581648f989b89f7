SPECIFICATION PoolSpec
CONSTANTS
    h1 = h1
    Sources <- ThreeFiles
    Handlers = {h1}
    FilesOf <- MCFilesOf
    Kind <- MixedKinds
    Workers = {w1}
    Sweeper = sweeper
    QueueCap = 1
    HeavyCap = 1
    TitleCap = 2
    Batch = 1
    Configured = TRUE
    NoJob = nojob
SYMMETRY WorkerSymmetry
INVARIANTS
    SomePromiseHolds
