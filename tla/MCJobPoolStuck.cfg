SPECIFICATION FairPoolSpec
CONSTANTS
    h1 = h1
    Sources <- OneFile
    Handlers = {h1}
    FilesOf <- MCFilesOf
    Kind <- UntitledKinds
    Workers = {w1}
    Sweeper = sweeper
    QueueCap = 3
    HeavyCap = 1
    TitleCap = 1
    Batch = 1
    Configured = TRUE
    NoJob = nojob
PROPERTIES
    PickedUp
