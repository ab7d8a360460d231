SPECIFICATION RunSpec
CONSTANTS
    r1 = r1
    r2 = r2
    r3 = r3
    Request <- MCRequest
    FirstPage <- MCFirstPage
    NoQuery = NoQuery
    MaxTries = 2
INVARIANTS
    ScriptTypeOK
    LastQueryIsRecent
    OwnServersEnded
    GreenMeansRan
    TestsReachMock
    WaitsForTheDying
PROPERTIES
    SignalEnds
    ScriptEnds
