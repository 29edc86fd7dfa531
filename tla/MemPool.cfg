CONSTANTS
    InitialCapacity = 1
    MaxChunkSize = 3
    MaxChunks = 4
    Foreign = Foreign
    NULL = NULL
SPECIFICATION Spec
INVARIANT FreeListExact
INVARIANT IndicesAgree
PROPERTY ImplementsPool
