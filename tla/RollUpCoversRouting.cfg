SPECIFICATION Spec
CONSTANTS
    o1 = o1
    pLong = pLong
    pShort = pShort
    Orders <- MCOrders
    Products <- MCProducts
    Seqs <- MCSeqs
    Routing <- MCRouting
    FloorTargets <- MCFloorActions
    Overrides = {FALSE}
PROPERTY RollUpCoversRouting
CHECK_DEADLOCK FALSE
