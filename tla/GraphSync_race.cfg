SPECIFICATION Spec
CONSTANTS
    Docs = {d1}
    Folders = {f1}
    Top = Top
    NoNode = NoNode
    Contents = {t1, t2}
    Jobs = {j1, j2}
    MaxAttempts = 2
    MaxRequests = 3
    MaxReplays = 0
    MaxFaults = 0
    MaxLosses = 0
    MaxCrashes = 0
INVARIANTS NothingPendingMirrors
CHECK_DEADLOCK FALSE
