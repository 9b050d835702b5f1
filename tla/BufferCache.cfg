CONSTANTS
    zero = zero
    one = one
    Thread = {w, r}
    Locked = {w}
    NoThread = none
    Sector = {s1, s2, s3}
    NoSector = nosector
    NUM_SECTORS = 2
    Offset = {o1, o2}
    Value <- MCValue
    CloseAlone = TRUE
SYMMETRY MCSymmetry
SPECIFICATION Spec
INVARIANTS
    CacheTypeOK
    CacheCoherent
    AccessSeesContents
PROPERTIES
    ImplementsDisk
    CloseWritesBack
CHECK_DEADLOCK FALSE
