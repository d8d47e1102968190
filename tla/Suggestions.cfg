SPECIFICATION Spec
CONSTANTS
    o1 = o1
    m1 = m1
    m2 = m2
    i1 = i1
    i2 = i2
    i3 = i3
    Orders = {o1}
    Machines = {m1, m2}
    Ids = {i1, i2, i3}
    Rows = {s1, s2, s3}
    Sessions = {p1, p2}
    NoId = NoId
    NoEntry = NoEntry
    NoMachine = NoMachine
    NoRow = NoRow
    NoSession = NoSession
    InitialEntry <- MCEntry
    InitialPriority <- MCPriority
    MaxRequests = 3
    MaxChanges = 1
INVARIANTS
    EffectsByWinners
    AuditTellsOutcome
PROPERTIES
    ResolvedOnce
SYMMETRY MCSymmetry
CHECK_DEADLOCK FALSE
