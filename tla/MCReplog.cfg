SPECIFICATION Spec
CONSTANTS
    a = a
    b = b
    c = c
    Replica <- MCReplica
    Client <- MCClient
    Commands <- TwoCommands
    MaxTerm = 2
    MaxTimers = 4
    MaxTimersAsked = 3
    MaxRetries = 1
    MaxMessages = 2
    Nobody = Nobody
    Noop = Noop
    Unmatched = Unmatched
SYMMETRY Symmetric
VIEW View
CONSTRAINT Followed
\* The loops of a run stop at a fixed instant.
CHECK_DEADLOCK FALSE
INVARIANTS
    OneLeaderATerm
    LeadersHoldWhatIsCommitted
    CommittedEntriesHold
    LogsMatch
    Linearizable
PROPERTY StandsOnMajority
