SPECIFICATION FairSpec
CONSTANTS
    m1 = m1
    p1 = p1
    p2 = p2
    NoSession = NoSession
    Materials <- MCMaterials
    Sessions <- MCSessions
    Amounts <- MCAmounts
    MaxStock = 3
    MaxMovements = 2
INVARIANTS
    StockNeverNegative
    LedgerExplainsStock
    HistoryKept
PROPERTIES
    ImplementsBook
    MovementsFinish
