SPECIFICATION NoticeSpec
CONSTANTS
    d1 = d1
    d2 = d2
    a = a
    b = b
    c = c
    w1 = w1
    w2 = w2
    Docs = {d1, d2}
    Sources = {a, b, c}
    DocOf <- MCDocOf
    Rank <- MCRank
    Near <- MCMatch
    Match <- MCMatch
    AdminOwned = {d2}
    MaxSources = 2
    Workers = {w1, w2}
    MaxFaults = 1
SYMMETRY MCSymmetry
CHECK_DEADLOCK FALSE
INVARIANTS
    OneNoticePerReview
    AdminsAreAsked
    OutcomeToldOnce
