SPECIFICATION FairUploadSpec
CONSTANTS
    c1 = c1
    c2 = c2
    a1 = a1
    a2 = a2
    d1 = d1
    d2 = d2
    f1 = f1
    f2 = f2
    f3 = f3
    f4 = f4
    Uploads = {c1, c2}
    Docs = {d1, d2}
    Files = {f1, f4}
    Creates = {c1, c2}
    DocOf <- MCDocOf
    FilesOf <- MCFilesOf
    Erp <- SameErp
    MaxSources = 3
    PutCap = 1
    Attempts = 2
CHECK_DEADLOCK FALSE
PROPERTIES
    UploadsEnd
INVARIANTS
    UploadTypeOK
