CONSTANTS
    zero = zero
    one = one
    Thread = {w, r}
    Locked = {w}
    NoThread = none
    Sector = {s1, s2}
    NoSector = nosector
    NUM_SECTORS = 1
    Offset = {o1}
    Value <- MCValue
    CloseAlone = TRUE
SYMMETRY MCSymmetry
SPECIFICATION Spec
INVARIANTS
    ShutdownWritesBack
CHECK_DEADLOCK FALSE
