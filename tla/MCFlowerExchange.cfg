CONSTANTS
    Scripts <- MCScripts
    MaxLines = 3
    MaxCalls = 3
    Readers <- MCReaders
    MaxClock = 2
    MaxStamps = 2
    NULL = NULL
SPECIFICATION FairSpec
INVARIANT CallsFollowInput
INVARIANT StampsReal
INVARIANT NoThreadOutlivesCache
PROPERTY QuitEnds
PROPERTY TimeMovesOn
