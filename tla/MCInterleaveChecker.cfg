SPECIFICATION FairSpec
CONSTANTS
    Test <- Tests
    State <- States
    ALen <- Length
    InitState <- Start
    Exec <- Inst
    BRun <- RunB
    Good <- CheckState
    SeqTrials = 1
    MaxK = 10
    MaxOps = 4
INVARIANTS TypeOK ReturnsTruth CoversEveryCut
PROPERTIES CheckReturns
