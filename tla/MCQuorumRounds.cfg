SPECIFICATION Spec
CONSTANTS
    MaxTime = 60
    c = c
    r1 = r1
    r2 = r2
    r3 = r3
    Node <- MCNode
    Coordinator = c
    Replica <- MCReplica
    Quorum = 2
    Rounds = 2
    Period = 9
    Patience = 6
    Quiet = 30
    Latency = {1, 2}
    Thinking = {1, 2}
    Schedules <- MCSchedules
\* A run ends.
CHECK_DEADLOCK FALSE
INVARIANTS
    LostOnlyToItsOwnFaults
    NoAnswerOutlivesItsRound
