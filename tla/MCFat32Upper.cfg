SPECIFICATION FairSpec
CONSTANTS
    NEntries = 6
    Hi = 32
    A = A
    B = B
    Name = {A, B}
    MaxCount = 6
    Wrap = 3
    Upper = {1}
    Disks <- MCDisks
CHECK_DEADLOCK FALSE
INVARIANT
    HaltsOnlyIfCorrupt
