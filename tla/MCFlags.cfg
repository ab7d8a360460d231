SPECIFICATION Spec
CONSTANTS
    loopback = loopback
    published = published
    elsewhere = elsewhere
    Empty = Empty
    None = None
    Word <- MCWord
    Argv <- MCArgv
    DefaultAddr = loopback
    ContainerAddr = published
INVARIANTS
    TypeOK
    ForeignTolerated
    ServesAsAsked
    ContainerReachable
