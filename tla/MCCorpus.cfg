SPECIFICATION Spec
CONSTANTS
    d1 = d1
    d2 = d2
    d3 = d3
    a = a
    b = b
    c = c
    e = e
    f = f
    Docs <- MCDocs
    Sources <- MCSources
    DocOf <- MCDocOf
    Rank <- MCRank
    Near <- MCNear
    Match <- MCMatch
    AdminOwned <- MCAdminOwned
    MaxSources = 2
INVARIANTS
    StatusDerived
    HeldNeverShared
    MatchComplete
    RolesSound
    RolesByUploadOrder
    FinishedIsAnnounced
PROPERTIES
    ReleaseIsDecided
    RejectionStands
CHECK_DEADLOCK FALSE
