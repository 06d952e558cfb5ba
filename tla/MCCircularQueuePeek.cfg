SPECIFICATION Spec
CONSTANTS
    N = 4
    WordMod = 8
    Handler = TRUE
    MaxBatch = 2
    Byte <- MCByte
    PeekIE <- AnyMask
INVARIANT AssertionsHold
