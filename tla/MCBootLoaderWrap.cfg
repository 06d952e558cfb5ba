SPECIFICATION Spec
CONSTANTS
    B = 2
    Depth = 4
    Program <- Programs
    WordMod = 16
    BootStart = 8
    BootEnd = 12
    MaxGarbage = 1
    MaxUp = 6
    MaxRuns = 2
    MaxFaults = 2
CHECK_DEADLOCK FALSE
INVARIANTS
    NeverCollides
