CONSTANTS
    Slots = {1, 2, 3, 4}
    Instruments = {rose}
    MaxTicks = 3
    MaxQuantity = 3
    MaxOrders = 4
    NULL = NULL
SPECIFICATION LeastSlotSpec
INVARIANT TypeOK
INVARIANT NotCrossed
INVARIANT PoolMatchesBooks
INVARIANT QuantityConserved
INVARIANT ReportLifecycle
INVARIANT TradesReportedInPairs
PROPERTY ImplementsMarket
PROPERTY ProcessOrderReturns
