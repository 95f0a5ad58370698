SPECIFICATION FairSpec
CONSTANTS
    MaxTime = 3
    n0 = n0
    n1 = n1
    Node <- MCNode
    Schedules <- MCSchedules
    Reasons = {"the one", "another"}
    FailsAt <- MCFailsAt
\* A reduction ends.
CHECK_DEADLOCK FALSE
INVARIANTS
    NothingSmallerFails
    EveryCandidateIsSmaller
PROPERTIES
    Reduces
    Ends
