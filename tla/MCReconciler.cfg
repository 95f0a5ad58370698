SPECIFICATION FairSpec
CONSTANTS
    Region <- MCRegion
    Timelines <- MCTimelines
INVARIANTS
    KeepsItsData
    DeletionsSparePrimaries
PROPERTIES
    StaysServed
    Converges
