SPECIFICATION PSpec
CONSTANTS
    a = a
    b = b
    c = c
    e = e
    h1 = h1
    h2 = h2
    p1 = p1
    p2 = p2
    Payload <- MCPayload
    Host = {h1, h2}
    Path = {p1, p2}
    Empty = Empty
    Unparsable = Unparsable
    Layouts <- MCLayouts
    Services <- MCServices
    FirstURL <- MCFirstURL
    MaxRowsArg <- MCMaxRowsArg
    defaultMaxRows = 9
    pageCap = 3
INVARIANTS
    RequestsFollowChain
    WholeCollection
    FailsForCause
