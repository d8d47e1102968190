SPECIFICATION Spec
CONSTANTS
    chair = chair
    desk = desk
    top = top
    a = a
    b = b
    c = c
    d = d
    saw = saw
    paint = paint
    m1 = m1
    m2 = m2
    day = day
    night = night
    s1 = s1
    s2 = s2
    s3 = s3
    early = early
    late = late
    o1 = o1
    e1 = e1
    tenant = tenant
    none = none
    Ids <- MCIds
    Table <- MCTable
    Plant = tenant
    None = none
    NoRow = NoRow
    Hours = {early, late}
    Clashes <- MCClashes
    Sessions = {p1, p2}
    Unwritten = Unwritten
    InitialRows <- MCRows
    Scenes <- MCScenes
    MaxRequests = 3
INVARIANTS
    RoutingsNumbered
    ErrorsNeedOverlap
    CalendarsUsable
PROPERTIES
    RenumberRight
CHECK_DEADLOCK FALSE
