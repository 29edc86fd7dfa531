CONSTANTS
    Slots = {1, 2, 3, 4, 5, 6}
    Instruments <- MCInstruments
    MaxTicks = 3
    MaxQuantity = 20
    MaxOrders = 0
    NULL = NULL
    Messages <- MCMessages
    QuantityMultiple = 10
    MinQuantity = 10
    MaxMessages = 3
    MaxFiles = 2
SPECIFICATION LeastSlotProcessorSpec
INVARIANT AcceptedWithinLimits
INVARIANT AnsweredInOrder
INVARIANT OnlyOrdersOfThisFile
PROPERTY ImplementsExchange
