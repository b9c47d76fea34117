SPECIFICATION Spec
CONSTANTS
    Docs = {d1, d2}
    Folders = {f1}
    Top = Top
    NoNode = NoNode
    Contents = {t1, t2}
    Jobs = {j1, j2}
    MaxAttempts = 2
    MaxRequests = 3
    MaxReplays = 2
    MaxFaults = 2
    MaxLosses = 1
    MaxCrashes = 1
INVARIANTS TypeOK DivergenceOnRecord CalmMirror
ACTION_CONSTRAINT Serial
SYMMETRY Symmetry
CHECK_DEADLOCK FALSE
