SPECIFICATION Spec
CONSTANTS
    Nodes = {n1}
    NoNode = NoNode
    Groups = {g1, g2}
    Callers = {c1}
    MaxReleases = 2
    MaxDocs = 5
    MaxRestudies = 1
    MaxEdits = 2
    MaxFaults = 0
    MaxRedeliver = 1
    MaxCrashes = 1
INVARIANTS GroupsInForce
ACTION_CONSTRAINT Serial
CHECK_DEADLOCK FALSE
