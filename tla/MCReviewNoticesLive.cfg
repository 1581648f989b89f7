SPECIFICATION FairNoticeSpec
CONSTANTS
    d1 = d1
    d2 = d2
    a = a
    b = b
    c = c
    w1 = w1
    w2 = w2
    Docs = {d1}
    Sources = {a, b, c}
    DocOf <- OneDoc
    Rank <- MCRank
    Near <- MCMatch
    Match <- MCMatch
    AdminOwned = {}
    MaxSources = 3
    Workers = {w1, w2}
    MaxFaults = 1
CHECK_DEADLOCK FALSE
PROPERTIES
    HeldIsBrought
INVARIANTS
    NoticeTypeOK
