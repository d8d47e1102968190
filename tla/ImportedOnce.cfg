SPECIFICATION Spec
CONSTANTS
    p1 = p1
    p2 = p2
    p3 = p3
    b1 = b1
    b2 = b2
    NoSession = NoSession
    NoBatch = NoBatch
    Sessions <- MCSessions
    Batches <- MCBatches
    SixDigits = 2
    ManualNumbers <- MCManualNumbers
    Rows <- MCRows
    SeededNumbers <- MCSeededNumbers
    MaxAttempts = 2
    MaxCalls = 2
PROPERTY ImportedOnce
CHECK_DEADLOCK FALSE
