SPECIFICATION UploadSpec
CONSTANTS
    c1 = c1
    c2 = c2
    a1 = a1
    a2 = a2
    d1 = d1
    d2 = d2
    f1 = f1
    f2 = f2
    f3 = f3
    f4 = f4
    Uploads = {c1}
    Docs = {d1}
    Files = {f1, f2}
    Creates = {c1}
    DocOf <- MCDocOf
    FilesOf <- MCFilesOf
    Erp <- SameErp
    MaxSources = 3
    PutCap = 2
    Attempts = 2
CHECK_DEADLOCK FALSE
INVARIANTS
    RemovedFromStorage
