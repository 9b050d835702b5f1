CONSTANTS
    MaxTid = 4
    Statuses = {7}
    Commands = {"ok", "bad", "empty"}
    Deaths = {"exit", "fault", "kill"}
    Garbage = garbage
    NoLock = nolock
SPECIFICATION FairSpec
PROPERTIES
    ExitReleasesParent
CHECK_DEADLOCK FALSE
