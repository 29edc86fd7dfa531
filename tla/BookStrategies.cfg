CONSTANTS
    MaxTicks = 7
    BitsPerWord = 3
    Orders = {o1, o2, o3, o4}
    NULL = NULL
SPECIFICATION BothSpec
INVARIANT TypeOK
INVARIANT ListsWellFormed
INVARIANT IndexMatchesLevels
INVARIANT MapHoldsOccupiedLevels
INVARIANT SameAnswers
PROPERTY ImplementsOrderBook
