SPECIFICATION Spec
CONSTANTS
    Capacity = 5
    MaxEdges = 6
    Rounds = 2
CHECK_DEADLOCK FALSE
INVARIANTS
    TypeOK
    Faithful
    PairsWhole
