CONSTANTS
    MaxTid = 5
    Statuses = {7}
    Commands = {"ok", "bad", "empty"}
    Deaths = {"exit", "fault", "kill"}
    Garbage = garbage
    NoLock = nolock
SPECIFICATION Spec
INVARIANTS
    ProcessTypeOK
    ExecReportsLoad
    FoundExitWakes
CHECK_DEADLOCK FALSE
