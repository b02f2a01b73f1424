SPECIFICATION FairSpec
CONSTANTS
    Prs = {1, 2}
    SearchCap = 1
    CheckCap = 1
    MaxEvents = 2
INVARIANTS TypeOK ClosedOnlyOnWord CommitOfHead
PROPERTIES StaleWhenRecovered FirstClosureLeaves  OldestAcknowledged
