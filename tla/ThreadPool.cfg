SPECIFICATION FairSpec
CONSTANTS
    Workers = {w1, w2, w3}
    Producers = {p1, p2}
    Tasks = {t1, t2, t3}
    NoTask = NoTask
    NoThread = NoThread
INVARIANTS
    TypeOK
    IInv
    NoLostWakeup
    NobodySleepsThroughStop
    TaskInOnePlace
    DestructorDrains
PROPERTIES
    ImplementsTaskPool
    AcceptedTaskRuns
    DestructorReturns
