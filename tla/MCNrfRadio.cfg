SPECIFICATION FairSpec
CONSTANTS
    AckModes <- BothModes
    RxDepth = 2
    QueueDepth = 2
    Retries = 1
    MaxSent = 2
    MaxLost = 2
INVARIANTS TypeOK AlwaysListening AckedIsKept
PROPERTIES ImplementsChannel SendsEnd
