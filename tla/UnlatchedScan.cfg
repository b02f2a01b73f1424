SPECIFICATION FairSpec
CONSTANTS
    ItemIds = {i1}
    PullRequests = {p1}
    Pr = p1
    Comments = {1}
    Runs = {}
    NoRun = NoRun
    MaxReviews = 0
    Edits = {"review_limited", "verdict"}
    Lookback = 0
    ResolvedGuard = 0
    Wait = 0
    MaxAge = 0
    PrOutcomes = {}
    Faults = FALSE
    MaxHead = 0
    MaxTime = 2
    i1 = i1
    i2 = i2
    p1 = p1
    r1 = r1
    r2 = r2
PROPERTIES SeenIsLatched
