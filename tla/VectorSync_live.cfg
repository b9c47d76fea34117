SPECIFICATION FairSpec
CONSTANTS
    Nodes = {n1}
    NoNode = NoNode
    Groups = {g1}
    Callers = {c1, c2}
    MaxReleases = 2
    MaxDocs = 5
    MaxRestudies = 1
    MaxEdits = 0
    MaxFaults = 0
    MaxRedeliver = 1
    MaxCrashes = 1
PROPERTIES NodeEventuallyIndexed EventuallyIndexed
CHECK_DEADLOCK FALSE
