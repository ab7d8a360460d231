SPECIFICATION Spec
CONSTANTS
    r1 = r1
    r2 = r2
    r3 = r3
    Request <- MCRequest
    FirstPage <- MCFirstPage
    NoQuery = NoQuery
INVARIANT
    KillIsClean
