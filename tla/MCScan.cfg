SPECIFICATION FairSpec
CONSTANTS
    Item <- MCItem
    Results <- MCResults
    rowsPerTick = 2
    MaxLosses = 2
    None = None
INVARIANTS
    TypeOK
    ExactlyOnce
    CursorAgrees
    BatchesBounded
PROPERTIES
    StepsCountDown
    Drains
