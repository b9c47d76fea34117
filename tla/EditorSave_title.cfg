SPECIFICATION Spec
CONSTANTS
    Docs = {a}
    None = None
    MaxTyped = 2
    MaxOpens = 1
    MaxFaults = 0
    MaxWire = 1
    MaxOdd = 1
INVARIANT TitleKept
CHECK_DEADLOCK FALSE
