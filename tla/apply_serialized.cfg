CONSTANTS
    u1 = u1
    u2 = u2
    a1 = a1
    w1 = w1
    p1 = p1
    s1 = s1
    s2 = s2
    Applies <- TwoUpserts
    Sheets <- TwoSheets
    Target <- Targets
    Route <- Routes
    Hashed <- Hashing
    MaxEdits = 0
SPECIFICATION Spec
INVARIANT NoApplyClobbered
