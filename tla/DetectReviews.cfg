SPECIFICATION FairSpec
CONSTANTS
    ItemIds = {i1}
    PullRequests = {p1}
    Pr = p1
    Comments = {1}
    Runs = {r1}
    NoRun = NoRun
    MaxReviews = 1
    Edits = {"review_limited", "review_skipped", "verdict"}
    Lookback = 0
    ResolvedGuard = 0
    Wait = 0
    MaxAge = 0
    PrOutcomes = {}
    Faults = FALSE
    MaxHead = 1
    MaxTime = 1
    i1 = i1
    i2 = i2
    p1 = p1
    r1 = r1
    r2 = r2
PROPERTIES ReviewEndsItem
