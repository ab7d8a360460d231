SPECIFICATION Spec
CONSTANTS
    a = a
    b = b
    Name <- MCName
    NoName = NoName
    Documents <- MCDocuments
    rowsPerTick = 2
    MaxLosses = 1
    None = None
INVARIANT
    V2DocAccepted
