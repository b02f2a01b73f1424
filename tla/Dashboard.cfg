SPECIFICATION FairSpec
CONSTANTS
    Items = {i1, i2}
    Runs = {r1}
    NoRun = none
    NoFilter = all
    Malformed = bad
    PageSize = 1
    MaxWrites = 2
    MaxEvents = 3
    MaxPage = 3
    MaxFlights = 2
    MaxOpenWrites = 2
    MaxFeedPage = 3
    MaxMarks = 1
INVARIANTS TypeOK BusyMeansUnderWay TimelineIsSegment EndMeansAll RemindsWhilePaused
PROPERTIES NeverGoesBack AckedIsShown ShownConverges NextPageContinues
    ListCatchesUp
