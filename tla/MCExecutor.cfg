SPECIFICATION Spec
CONSTANTS
    MaxTime = 2
    MaxTasks = 3
    Roots = 1
    MaxSleeps = 3
    Durations = {1, 2}
    NoTask = NoTask
    NoTime = NoTime
    NoEvent = NoEvent
INVARIANTS
    NoLostWakeup
    NoTraceOfAbandonedWaits
    StallIsReal
    NeverBackwards
PROPERTY
    TimeMovesOnlyWhenAllBlocked
