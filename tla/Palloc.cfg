CONSTANTS
    Thread = {t1, t2, t3}
    NoThread = none
    free_start = 1
    free_pages = 7
    user_page_limit = 3
    Count = {1, 2}
SYMMETRY MCSymmetry
SPECIFICATION Spec
INVARIANTS
    PallocTypeOK
    UsedMapExact
    NoPanic
PROPERTIES
    ImplementsPagePool
    NullOnlyIfTooFew
