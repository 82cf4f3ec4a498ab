SPECIFICATION Spec
CONSTANTS
    p1 = p1
    p2 = p2
    w1 = w1
    t1 = t1
    t2 = t2
    t3 = t3
    NoTask = NoTask
    Workers <- OneWorker
    Tasks <- ThreeTasks
    MaxTasks = 2
    PosMod = 4
    Producers <- TwoProducers
INVARIANT TypeOK
INVARIANT RingInv
PROPERTY ImplementsTaskQueue
PROPERTY ShutdownReleases
CHECK_DEADLOCK FALSE
