CONSTANTS
    Thread = {main, i1, t1, t2}
    Main = main
    FirstIdle = i1
    NoThread = none
    TIME_SLICE = 2
    Delays <- MCDelays
    Horizon = 2
SPECIFICATION FairSpec
INVARIANTS
    TypeOK
    ScheduleFindsThread
    RunQueueMatchesStatus
    SleepersBlocked
    SleepQueueSorted
PROPERTIES
    TickWakesAllDue
    NoOvertaking
    ReadyEventuallyRuns
    SleeperEventuallyRuns
