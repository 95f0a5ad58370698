SPECIFICATION Spec
CONSTANTS
    Called <- MCCalled
    Byte <- MCByte
    Text <- MCText
    Number <- MCNumber
    LittleEndian <- MCLittleEndian
    Foreign <- MCForeign
    Holdings <- MCHoldings
    MaxInserts = 3
CHECK_DEADLOCK FALSE
INVARIANTS
    HeldReadsBack
    ReportsEveryDifference
    WorldsReadBack
    ListsApart
