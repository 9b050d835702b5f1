CONSTANTS
    l1 = l1
    Thread = {main, i1, t1, t2}
    Main = main
    FirstIdle = i1
    NoThread = none
    TIME_SLICE = 1
    Delays = {}
    Horizon = 0
    Sema = {s1}
    Lock = {l1}
    Cond = {c1}
    CondLock <- MCCondLock
    InitialValue <- MCInitialValue
    MaxValue = 2
SPECIFICATION SynchFair
INVARIANTS
    SynchTypeOK
    MutualExclusion
    WaitersBlocked
    NoLostWakeup
    SignalAccounted
PROPERTIES
    ImplementsMonitor
    ImplementsThreads
    LockProgress
    SignalledWakes
