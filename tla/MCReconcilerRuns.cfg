SPECIFICATION Spec
CONSTANTS
    MaxTime = 100000
    Node <- MCNode
    Region <- MCRegion
    Timelines <- MCTimelines
    Passes = 10
    ClearPasses = 5
    Period = 500
    Patience = 200
    Requeue = 100
    Quiet = 3000
    Latency = {1, 80}
    Provisioning = {100, 400}
    CatchingUp = {200, 1200}
    Troubles <- MCTroubles
    OthersAsk = TRUE
\* A run ends.
CHECK_DEADLOCK FALSE
PROPERTIES
    HoldsUp
    Implements
