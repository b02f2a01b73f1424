SPECIFICATION Spec
CONSTANTS
    ItemIds = {i1, i2}
    PullRequests = {p1}
    Comments = {c1, c2}
    CommentPr <- OnePr
    Runs = {}
    NoRun = NoRun
    NoItem = NoItem
    Scheduler = Scheduler
    Dashboards = {}
    Cooldown = 1
    Spacing = 0
    MaxAge = 0
    MaxAttempts = 2
    MaxFetches = 1
    Lookback = 0
    ResolvedGuard = 0
    Waits = {1}
    CommentAges = {0}
    PrOutcomes = {}
    Faults = {"crash", "lostResponse"}
    MaxTime = 1
    i1 = i1
    i2 = i2
    p1 = p1
    p2 = p2
    c1 = c1
    c2 = c2
    r1 = r1
    d1 = d1
    d2 = d2
INVARIANTS OneActiveItemPerPr
PROPERTIES ResolvedNeverRetriggered
SYMMETRY RowSymmetry
