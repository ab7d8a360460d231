SPECIFICATION FairSpec
CONSTANTS
    a = a
    b = b
    c = c
    h = h
    p1 = p1
    p2 = p2
    Payload <- MCPayload
    Host = {h}
    Path = {p1, p2}
    Empty = Empty
    Unparsable = Unparsable
    Services <- MCServices
    FirstURL <- MCFirstURL
    MaxRowsArg <- MCMaxRowsArg
    defaultMaxRows = 3
    pageCap = 4
INVARIANTS
    TypeOK
    RowsInOrder
    NothingMissed
    RequestsBounded
    HeldBounded
PROPERTIES
    NoNeedlessRequest
    StepsCountDown
    Terminates
