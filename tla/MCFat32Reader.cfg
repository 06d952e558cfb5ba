SPECIFICATION FairSpec
CONSTANTS
    NEntries = 6
    Hi = 32
    A = A
    B = B
    Name = {A, B}
    MaxCount = 6
    Wrap = 3
    Upper = {0}
    Disks <- MCDisks
CHECK_DEADLOCK FALSE
INVARIANTS
    TypeOK
    FitsUnlessWrapped
    ReturnsContents
    HaltsOnlyIfCorrupt
PROPERTIES
    Returns
