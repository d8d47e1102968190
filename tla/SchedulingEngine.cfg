CONSTANTS
    MinutesPerDay = 6
    DaysPerWeek = 3
    NowRounding = 2
    Inputs <- MCInputs
SPECIFICATION Spec
INVARIANTS
    NoDoubleBooking
    StepsInOrder
    EarliestFinish
    PlacementHoldsWork
    AllOrNothing
    PromisedMaterialExists
    AcceptedShiftsNeverCollide
    PageNeverOverpromises
    OnTrackKeepsDueDate
\* The engine stops when it has assessed the orders.
CHECK_DEADLOCK FALSE
