SPECIFICATION FairSpec
CONSTANTS
    N = 4
    WordMod = 8
    Handler = FALSE
    MaxBatch = 2
    Byte <- MCByte
    PeekIE <- Masked
INVARIANTS TypeOK AssertionsHold LoadIsStable PanicOnlyIfStuck
PROPERTIES ImplementsFifo CallsReturn
