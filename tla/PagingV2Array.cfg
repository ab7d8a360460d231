SPECIFICATION Spec
CONSTANTS
    a = a
    b = b
    c = c
    h = h
    p1 = p1
    p2 = p2
    Payload <- MCPayload
    Host = {h}
    Path = {p1, p2}
    Empty = Empty
    Unparsable = Unparsable
    Services <- V2Services
    FirstURL <- MCFirstURL
    MaxRowsArg <- MCMaxRowsArg
    defaultMaxRows = 3
    pageCap = 4
INVARIANT
    V2ShapesAccepted
