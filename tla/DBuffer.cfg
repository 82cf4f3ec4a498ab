SPECIFICATION Spec
CONSTANTS
    p1 = p1
    p2 = p2
    Producers <- TwoProducers
    MaxTasks = 2
    MaxAdds = 5
INVARIANT TypeOK
INVARIANT RunInOrder
PROPERTY BatchIntact
PROPERTY QueuedTaskRuns
PROPERTY ShutdownReleases
CHECK_DEADLOCK FALSE
