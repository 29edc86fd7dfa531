CONSTANTS
    Scripts <- MCScripts
    MaxLines = 3
    MaxCalls = 3
    Readers <- MCReaders
    MaxClock = 2
    MaxStamps = 2
    NULL = NULL
SPECIFICATION Spec
INVARIANT DelegatedOncePerLine
