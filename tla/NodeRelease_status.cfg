SPECIFICATION Spec
CONSTANTS
    Nodes = {n1}
    NoNode = NoNode
    Bodies = {b1, b2}
    Summaries = {s1}
    Places = {p1}
    Callers = {c1, c2}
    MaxReleases = 2
    MaxPublishes = 2
    MaxFaults = 1
    MaxCrashes = 1
INVARIANTS TypeOK StatusTruthful ReleasedBodyMatches
SYMMETRY Symmetry
CHECK_DEADLOCK FALSE
