CONSTANTS
    Files <- MCFiles
    IntLength = 2
    PriceLength = 2
    IntMax = 127
    LongMax = 59999
    TickMax = 95000
    MaxExponent = 30
    MaxShift = 6
    MaxQuantity = 50
    QuantitySize = 3
    CoidSize = 4
    InstrumentSize = 4
    PriceSize = 8
    ShortModulus = 64
    Reasons <- MCReasons
    Timestamp <- MCTimestamp
SPECIFICATION Spec
INVARIANT RowsAsDocumented
