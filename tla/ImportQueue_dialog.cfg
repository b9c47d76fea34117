SPECIFICATION LiveSpec
CONSTANTS
    N = 3
    Sources <- MCSources
    MaxConcurrency = 2
    MaxPulls = 2
    MaxBatches = 2
INVARIANTS
    TypeOK
    LimitUsedInFull
    OneNodeEach
    ListTellsTruth
    SameBatchStaysTogether
    ListStaysTree
    PageMissesOnlyLate
PROPERTIES
    SpinnersEnd
