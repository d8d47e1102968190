------------------------------ MODULE PlantTables ------------------------------
(***************************************************************************)
(* The plant's master data as rows that refer to each other: products with *)
(* routing steps, work centers, machines, calendars with shifts, and what  *)
(* uses them (orders, planned work, the plant's default calendar).  A view *)
(* of the tables is a function from the ids to the rows.  What the         *)
(* database does about references and unique numbers (prisma/schema.prisma)*)
(* and the renumbering of a routing (src/lib/routing.ts) are operators on  *)
(* views; PlantData.tla has the handlers.                                  *)
(***************************************************************************)
EXTENDS Integers, Sequences, FiniteSets

CONSTANTS
    Ids,     \* of all rows
    Table,   \* the table of an id
    Plant,   \* the id of the Tenant row
    None,    \* of a reference that is null
    NoRow,   \* of an id that has no row
    Hours,   \* times and days of a shift
    Clashes  \* the sets {h1, h2} of hours that overlap

Tables == {"Product", "ProductOperation", "WorkCenter", "Machine", "ShiftCalendar", "Shift",
           "Tenant", "Order", "ScheduleEntry"}

IdsOf(table) == {i \in Ids : Table[i] = table}
Products     == IdsOf("Product")
Steps        == IdsOf("ProductOperation")
Centers      == IdsOf("WorkCenter")
Machines     == IdsOf("Machine")
Calendars    == IdsOf("ShiftCalendar")
Shifts       == IdsOf("Shift")
Orders       == IdsOf("Order")
Entries      == IdsOf("ScheduleEntry")

\* A step's machine is the fixed one; `active` of a machine is status # INACTIVE.
StepRows == [product : Products, center : Centers, machine : Machines \cup {None}, seq : Int]
Rows ==
    [Product          |-> [active : BOOLEAN],
     ProductOperation |-> StepRows,
     WorkCenter       |-> [active : BOOLEAN],
     Machine          |-> [center : Centers, calendar : Calendars, active : BOOLEAN],
     ShiftCalendar    |-> [active : BOOLEAN],
     Shift            |-> [calendar : Calendars, hours : Hours],
     Tenant           |-> [calendar : Calendars \cup {None}],   \* defaultCalendarId
     Order            |-> [product : Products],
     ScheduleEntry    |-> [center : Centers, machine : Machines]]

AnyRow ==
    Rows.Product \cup Rows.ProductOperation \cup Rows.WorkCenter \cup Rows.Machine \cup
    Rows.ShiftCalendar \cup Rows.Shift \cup Rows.Tenant \cup Rows.Order \cup Rows.ScheduleEntry

ASSUME TablesAssumption ==
    /\ IsFiniteSet(Ids)
    /\ Table \in [Ids -> Tables]
    /\ IdsOf("Tenant") = {Plant}
    /\ None \notin Ids
    /\ \A t \in Tables : NoRow \notin Rows[t]
    /\ Clashes \subseteq SUBSET Hours

-----------------------------------------------------------------------------
\* References and what the database does when the row they point to is deleted.

References(row) == {row[f] : f \in DOMAIN row \cap {"product", "center", "machine", "calendar"}} \ {None}

Referrers(view, x) == {i \in Ids : view[i] # NoRow /\ x \in References(view[i])}

\* onDelete: Cascade of ProductOperation.product and Shift.calendar, SetNull of
\* Tenant.defaultCalendar, NoAction of all others.  ScheduleEntry.operation, set to null
\* with its step, is left out: no handler of PlantData.tla reads it.
Cascaded(view, x) ==
    {i \in Referrers(view, x) : (i \in Steps /\ x \in Products) \/ (i \in Shifts /\ x \in Calendars)}
Blocking(view, x) == Referrers(view, x) \ (Cascaded(view, x) \cup {Plant})

Deleted(view, x) ==
    [i \in Ids |->
        CASE i = x \/ i \in Cascaded(view, x)        -> NoRow
          [] i = Plant /\ i \in Referrers(view, x)   -> [view[i] EXCEPT !.calendar = None]
          [] OTHER                                   -> view[i]]

\* An update writes the fields of `set` and leaves the others as they are.
Patched(row, set) == [f \in DOMAIN row |-> IF f \in DOMAIN set THEN set[f] ELSE row[f]]

-----------------------------------------------------------------------------
\* Routings.

SequenceStep == 10

StepsOf(view, pr) == {s \in Steps : view[s] # NoRow /\ view[s].product = pr}

\* sortBySequence(): the steps in the order of their numbers, which are unique.
Routings(view, pr) ==
    {route \in [1 .. Cardinality(StepsOf(view, pr)) -> StepsOf(view, pr)] :
        \A i, j \in DOMAIN route : i < j => view[route[i]].seq < view[route[j]].seq}
Routing(view, pr) == CHOOSE route \in Routings(view, pr) : TRUE

\* nextSequence(); `last` is the largest number, or 0.
IsLast(last, view, pr) ==
    LET numbers == {view[s].seq : s \in StepsOf(view, pr)} \cup {0}
    IN  last \in numbers /\ \A n \in numbers : n <= last
NextSequence(last) == (last \div SequenceStep) * SequenceStep + SequenceStep

\* canMove(): the step is not the first (last) one.
CanMove(view, s, direction) ==
    \E t \in StepsOf(view, view[s].product) :
        IF direction = "up" THEN view[t].seq < view[s].seq ELSE view[t].seq > view[s].seq

Neighbour(i, direction) == IF direction = "up" THEN i - 1 ELSE i + 1

\* planRenumber() with a move: the step and its neighbour, if it has one, are swapped.
Moved(route, s, direction) ==
    IF \E i \in DOMAIN route : route[i] = s /\ Neighbour(i, direction) \in DOMAIN route
    THEN LET i == CHOOSE k \in DOMAIN route : route[k] = s /\ Neighbour(k, direction) \in DOMAIN route
             j == Neighbour(i, direction)
         IN  [route EXCEPT ![i] = route[j], ![j] = route[i]]
    ELSE route

Renumber(s, n) == [do |-> "update", id |-> s, set |-> [seq |-> n]]

\* The places of the steps whose number changes, in ascending order.
Changes(view, route) ==
    LET changed == {i \in DOMAIN route : view[route[i]].seq # i * SequenceStep}
    IN  {places \in [1 .. Cardinality(changed) -> changed] :
            \A i, j \in DOMAIN places : i < j => places[i] < places[j]}

\* The two phases of planRenumber(): temporary and final numbers.
Parked(route, places)   == [k \in DOMAIN places |-> Renumber(route[places[k]], -places[k])]
Numbered(route, places) == [k \in DOMAIN places |-> Renumber(route[places[k]], places[k] * SequenceStep)]

\* Mutants: the plan without its first phase; and without its second.
PlannedDirectly(route, places) == Numbered(route, places)
PlannedParking(route, places)  == Parked(route, places)

\* planRenumber() without the rows that keep their number, as the updates that carry it out.
Planned(route, places) == Parked(route, places) \o Numbered(route, places)

\* A number of a routing that is not being renumbered.
IsFinal(n) == \E k \in 1 .. n : n = k * SequenceStep

\* The unique index on product and sequence.
Taken(view, s, seq) == \E t \in StepsOf(view, view[s].product) \ {s} : view[t].seq = seq

-----------------------------------------------------------------------------
\* Calendars.

ShiftsOf(view, k) == {s \in Shifts : view[s] # NoRow /\ view[s].calendar = k}

\* validateShifts() of these shifts and one with hours `h`, which are valid by themselves.
Fits(view, others, h) == \A s \in others : {view[s].hours, h} \notin Clashes
================================================================================
