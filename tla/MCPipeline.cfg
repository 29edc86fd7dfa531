CONSTANTS
    Files <- MCFiles
    MaxLines = 4
    MaxReports = 2
    MaxFiles = 2
    InboundCapacity = 2
    OutboundCapacity = 1
    BatchSize = 2
SPECIFICATION FairSpec
INVARIANT TypeOK
INVARIANT OrdersInFlight
INVARIANT ReportsInFlight
INVARIANT NothingLeftBehind
PROPERTY ImplementsFileProcessor
PROPERTY ProcessFileReturns
