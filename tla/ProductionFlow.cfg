SPECIFICATION Spec
CONSTANTS
    o1 = o1
    pLong = pLong
    pShort = pShort
    Orders <- MCOrders
    Products <- MCProducts
    Seqs <- MCSeqs
    Routing <- MCRouting
    FloorTargets <- MCFloorActions
    Overrides = {FALSE}
INVARIANTS
    HoldFreezesWork
    StartedNeverQueued
    RunsNeverCollide
    CompletionStamps
    NoSilentGap
PROPERTIES
    HoldPreservesWork
    FixedWorkSurvives
CHECK_DEADLOCK FALSE
