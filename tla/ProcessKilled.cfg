CONSTANTS
    MaxTid = 4
    Statuses = {7}
    Commands = {"ok"}
    Deaths = {"exit", "fault"}
    Garbage = garbage
    NoLock = nolock
SPECIFICATION Spec
INVARIANTS
    KilledReturnsError
CHECK_DEADLOCK FALSE
