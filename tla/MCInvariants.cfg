SPECIFICATION CheckingSpec
CONSTANTS
    MaxTime = 3
    MaxSteps = 4
    Kinds <- MCKinds
\* A check ends.
CHECK_DEADLOCK FALSE
INVARIANTS
    ReportsEveryFirstBreach
