SPECIFICATION Spec
CONSTANTS
    h1 = h1
    h2 = h2
    Asks <- MCAsks
    Mock = h1
    Host = {h1, h2}
    Word <- MCWord
    People <- MCPeople
    Entry = "entry"
    Empty = Empty
    Unparsable = Unparsable
    NoQuery = NoQuery
    MaxRowsArg <- MCMaxRowsArg
    defaultMaxRows = 9
    pageCap = 3
INVARIANT
    MetadataAtService
