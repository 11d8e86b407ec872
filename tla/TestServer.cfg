\* The test server, its clients and what they read.
SPECIFICATION FairSpec
CONSTANTS
    Literals <- MCLiterals
    BufferSize = 8
    FloatBytes <- MCFloatBytes
    DataBlockLists <- MCDataBlockLists
    MapSize = 28
    Connections = {c1, c2}
    Requests <- MCRequests
    Backlog = 1
    MaxSockets = 4
    None = None
INVARIANTS
    TypeOK
    ServedAsWritten
    IsReadableDevice
PROPERTIES
    Accepted
    Answered
