SPECIFICATION FairSpec
CONSTANTS
    MaxTime = 2
    Node <- MCNode
    Task <- MCTask
    Home <- MCHome
    Schedules <- MCSchedules
    Links <- MCLinks
    Routes <- MCRoutes
    MaxSends = 2
    MaxWaits = 3
    MaxNudges = 1
    NoTask = NoTask
    NoWait = NoWait
    NoEvent = NoEvent
INVARIANTS
    NoTraceOfAbandonedRecv
    CarriedAsScheduled
PROPERTIES
    TakenInOrderOfLanding
    WaitsAreAnswered
