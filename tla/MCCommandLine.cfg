SPECIFICATION CommandSpec
CONSTANTS
    MaxTime = 3
    Node = {0, 1}
    Typable <- MCTypable
    Exchanges <- MCExchanges
    Rings <- MCRings
    Asked <- MCAsked
    Smaller <- MCSmaller
    DrawnFor <- MCDrawnFor
    Endings <- MCEndings
    Garble = {"01", "1", "1.11s"}
    SeedsTyped = {0, 1}
    MaxSeeds = 3
    MaxJobs = 2
    MaxDeeds = 4
\* Commands come to an end with their bound.
CHECK_DEADLOCK FALSE
INVARIANTS
    ReadsBackWhatWasWritten
    AnswersAreOfThePage
    ErrorsNameTheFirstWrongLine
    ReprosExpectTheirOwnRun
    SaidBySeeds
