SPECIFICATION LiveSpec
CONSTANTS
    Pages = {p1, p2}
    Polls = {q1, q2}
    Pieces = 3
    Room = 2
INVARIANTS
    TypeOK
    WholeAnswer
PROPERTIES
    AllEnd
CHECK_DEADLOCK FALSE
