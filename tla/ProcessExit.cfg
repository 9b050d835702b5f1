CONSTANTS
    MaxTid = 6
    Statuses = {7}
    Commands = {"ok"}
    Deaths = {"exit"}
    Garbage = garbage
    NoLock = nolock
SPECIFICATION Spec
PROPERTY
    NoLostExit
CHECK_DEADLOCK FALSE
