SPECIFICATION Spec
CONSTANTS
    Docs = {a, b}
    None = None
    MaxTyped = 2
    MaxOpens = 3
    MaxFaults = 1
    MaxWire = 2
    MaxOdd = 1
INVARIANTS
    TypeOK
    NothingLost
    OwnDocument
    HidingSaves
PROPERTIES
    NeverBack
SYMMETRY AnyDocument
CHECK_DEADLOCK FALSE
