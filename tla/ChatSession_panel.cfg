SPECIFICATION Spec
CONSTANTS
    MaxAsks = 2
    Data = 1
    Room = 2
    Wire = 2
    MaxTroubles = 1
INVARIANTS
    TypeOK
    OwnAnswer
    ConversationUsable
    FeedbackNamesOwnAnswer
    SeenIsSaved
    HistoryPairsTrue
PROPERTIES
    FinishedStays
    LoadingEnds
CHECK_DEADLOCK FALSE
