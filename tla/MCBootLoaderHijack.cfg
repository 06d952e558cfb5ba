SPECIFICATION Spec
CONSTANTS
    B = 2
    Depth = 4
    Program <- HijackPrograms
    WordMod = 16
    BootStart = 8
    BootEnd = 12
    MaxGarbage = 1
    MaxUp = 6
    MaxRuns = 1
    MaxFaults = 0
CHECK_DEADLOCK FALSE
INVARIANTS
    ChecksumNotHijacked
