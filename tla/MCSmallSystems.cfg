SPECIFICATION Spec
CONSTANTS
    MaxTime = 30
    Nodes = 2
    Rounds = 2
    Thinking = {1, 2}
    Latency = {1, 3}
    RunSeed = 7
    ForkSeeds = {7, 8}
\* Runs come to an end.
CHECK_DEADLOCK FALSE
INVARIANTS
    ForkIsTheRunUpToItsInstant
    ForkToItselfChangesNothing
PROPERTIES
    RunsEnd
