SPECIFICATION Spec
CONSTANTS
    Nodes = {n1, n2}
    NoNode = NoNode
    Groups = {g1}
    Callers = {c1, c2}
    MaxReleases = 2
    MaxDocs = 5
    MaxRestudies = 1
    MaxEdits = 0
    MaxFaults = 1
    MaxRedeliver = 1
    MaxCrashes = 1
INVARIANTS TypeOK CitationsSound OneSnapshotIndexed LeaksOnlyOfDeletedNodes PublishedIsIndexed
PROPERTIES ImplementsIndex
SYMMETRY Symmetry
CHECK_DEADLOCK FALSE
