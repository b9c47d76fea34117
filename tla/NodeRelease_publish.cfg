SPECIFICATION Spec
CONSTANTS
    Nodes = {n1, n2}
    NoNode = NoNode
    Bodies = {b1}
    Summaries = {s1}
    Places = {p1}
    Callers = {c1, c2}
    MaxReleases = 3
    MaxPublishes = 2
    MaxFaults = 0
    MaxCrashes = 0
INVARIANTS PublishedIsVisible
SYMMETRY Symmetry
CHECK_DEADLOCK FALSE
