CONSTANTS
    Slots = {s1, s2}
    Instruments <- MCInstruments
    MaxTicks = 3
    MaxQuantity = 20
    MaxOrders = 0
    NULL = NULL
    Messages <- MCMessages
    QuantityMultiple = 10
    MinQuantity = 10
    MaxMessages = 2
    MaxFiles = 1
SPECIFICATION ProcessorSpec
INVARIANT RejectsTellQuantity
