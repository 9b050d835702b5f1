CONSTANTS
    MaxTid = 5
    Statuses = {7}
    Commands = {"ok"}
    Deaths = {"exit"}
    Garbage = garbage
    NoLock = nolock
SPECIFICATION Spec
INVARIANTS
    WaitReturnsExitStatus
CHECK_DEADLOCK FALSE
