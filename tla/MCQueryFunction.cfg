SPECIFICATION QFairSpec
CONSTANTS
    a = a
    b = b
    c = c
    h1 = h1
    h2 = h2
    p1 = p1
    p2 = p2
    Payload <- MCPayload
    Host = {h1, h2}
    Path = {p1, p2}
    Empty = Empty
    Unparsable = Unparsable
    Layouts <- MCLayouts
    Services <- MCServices
    FirstURL <- MCFirstURL
    MaxRowsArg <- MCMaxRowsArg
    defaultMaxRows = 4
    pageCap = 2
    rowsPerTick = 2
    MaxLosses = 1
    None = None
PROPERTIES
    KeepsPromise
    Ends
