SPECIFICATION SpecTie
CONSTANTS
    MaxTime = 3
    MaxTasks = 2
    Roots = 1
    MaxSleeps = 2
    Durations = {1, 2}
    NoTask = NoTask
    NoTime = NoTime
    NoEvent = NoEvent
INVARIANT
    TieGoesToTheWork
