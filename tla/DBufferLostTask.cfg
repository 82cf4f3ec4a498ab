SPECIFICATION Spec
CONSTANTS
    p1 = p1
    p2 = p2
    Producers <- OneProducer
    MaxTasks = 2
    MaxAdds = 5
INVARIANT AcceptedTaskKept
CHECK_DEADLOCK FALSE
