SPECIFICATION FairSpec
CONSTANTS
    Prs = {1}
    SearchCap = 1
    CheckCap = 1
    MaxEvents = 3
PROPERTIES ClosedLeaves
