SPECIFICATION FairSpec
CONSTANTS
    ItemIds = {i1}
    PullRequests = {p1}
    Comments = {c1}
    CommentPr <- OnePr
    Runs = {r1}
    NoRun = NoRun
    NoItem = NoItem
    Scheduler = Scheduler
    Dashboards = {}
    Cooldown = 2
    Spacing = 1
    MaxAge = 2
    MaxAttempts = 2
    MaxFetches = 1
    Lookback = 1
    ResolvedGuard = 1
    Waits = {1}
    CommentAges = {0}
    PrOutcomes = {"merged", "gone"}
    Faults = {}
    MaxTime = 3
    i1 = i1
    i2 = i2
    p1 = p1
    p2 = p2
    c1 = c1
    c2 = c2
    r1 = r1
    d1 = d1
    d2 = d2
INVARIANTS TypeOK
PROPERTIES VerdictNeverOverwrites MergedItemLeaves
