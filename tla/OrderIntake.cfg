SPECIFICATION Spec
CONSTANTS
    p1 = p1
    p2 = p2
    p3 = p3
    b1 = b1
    b2 = b2
    NoSession = NoSession
    NoBatch = NoBatch
    Sessions <- MCSessions
    Batches <- MCBatches
    SixDigits = 2
    ManualNumbers <- MCManualNumbers
    Rows <- MCRows
    SeededNumbers <- MCSeededNumbers
    MaxAttempts = 2
    MaxCalls = 4
INVARIANTS
    SequenceCoversOrders
    ReservedNumbersAreFree
    OrdersComeWithBatch
    DeadlocksNeedTwoImports
SYMMETRY MCSymmetry
CHECK_DEADLOCK FALSE
