SPECIFICATION Spec
CONSTANTS
    Pa = {p1, p2}
    CachedPa = {p1}
    Val = {v1, v2}
INVARIANTS
    TypeOK
    KernelMapped
    TlbCoherent
PROPERTIES
    ImplementsSpaces
