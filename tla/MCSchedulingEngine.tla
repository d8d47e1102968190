-------------------------- MODULE MCSchedulingEngine --------------------------
(***************************************************************************)
(* Plants for model checking.  Days have six minutes and weeks three days. *)
(***************************************************************************)
EXTENDS SchedulingEngine, Sequences

NoException == [d \in {} |-> TRUE]
Calendar0(shifts) == [shifts |-> shifts, exceptions |-> NoException]
Except(cal, day, works) == [cal EXCEPT !.exceptions = [d \in {day} |-> works]]

Day   == [start |-> 1, end |-> 4, break |-> 1, days |-> {0, 1, 2}]
Night == [start |-> 4, end |-> 1, break |-> 0, days |-> {0, 1}]
Late  == [start |-> 4, end |-> 0, break |-> 0, days |-> {2}]

NoChange == [at |-> 0, by |-> 0]

Machine(wc, eff) == [status |-> "ACTIVE", workCenter |-> wc, efficiency |-> eff, calendar |-> "c"]

Op(wc, run) == [workCenter |-> wc, machine |-> NoMachine, setup |-> 1, run |-> run]
Order1 == [status |-> "QUEUED", priority |-> "NORMAL", due |-> 2, created |-> 1, earliest |-> NoDay,
           quantity |-> 1, routing |-> <<Op("a", 1), Op("b", 1), Op("a", 0)>>, completed |-> {},
           bom |-> [x \in {"steel"} |-> 2]]

Fixed(o, seq, m, s, e, status, locked) ==
    [order |-> o, seq |-> seq, machine |-> m, plannedStart |-> s, plannedEnd |-> e,
     actualStart |-> IF status = "QUEUED" THEN NoTime ELSE s, actualEnd |-> NoTime,
     status |-> status, locked |-> locked]

Base == [now |-> 6, horizon |-> 2, tz |-> NoChange, days |-> 0 .. 5,
         machines |-> <<Machine("a", 100), Machine("a", 50), Machine("b", 100)>>,
         calendars |-> [c \in {"c"} |-> Calendar0(<<Day>>)],
         defaultCalendar |-> "c",
         downtime |-> [m \in 1 .. 3 |-> {}],
         stock |-> [x \in {"steel"} |-> 3],
         orders |-> <<Order1, [Order1 EXCEPT !.due = 1, !.routing = <<Op("a", 2)>>]>>,
         fixed |-> {}]

\* Plants that differ in their calendar, with one short order.
Shifts == [start : {0, 2, 5}, end : {0, 2, 4}, break : {0, 1}, days : {{0}, {2}, {0, 1}, {0, 1, 2}}]
Calendars ==
    {cal \in {Calendar0(<<a>>) : a \in Shifts} \cup {Calendar0(<<a, b>>) : a, b \in Shifts} :
        ValidShifts(cal.shifts)}
CalendarInputs ==
    {[Base EXCEPT !.calendars = [c \in {"c"} |-> cal], !.downtime[1] = {[s |-> 8, e |-> 9]},
                  !.orders = <<[Order1 EXCEPT !.routing = <<Op("a", 1)>>]>>] : cal \in Calendars}

\* Plants that differ in their fixed work, downtime, exceptions and clock.
FixedWork ==
    {{}} \cup {{f} : f \in {Fixed(1, n, m, s, s + 2, st, st = "QUEUED") :
                              n \in {1, 2}, m \in {1, 3}, s \in {4, 7, 9, 12}, st \in {"QUEUED", "IN_PROGRESS"}}}
         \cup {{Fixed(1, 1, 1, 8, 10, "QUEUED", TRUE), Fixed(2, 1, 1, 9, 12, "QUEUED", TRUE)},
               {Fixed(3, 1, 1, 7, 8, "ON_HOLD", FALSE), Fixed(3, 2, 2, 8, 15, "QUEUED", TRUE)}}
FixedInputs ==
    {[Base EXCEPT !.fixed = fixed, !.downtime[2] = down, !.now = now, !.tz = tz,
                  !.calendars = [c \in {"c"} |-> cal],
                  !.orders = Append(Base.orders, [Order1 EXCEPT !.status = "ON_HOLD"])] :
        fixed \in FixedWork, down \in {{}, {[s |-> 7, e |-> 9], [s |-> 8, e |-> 10]}}, now \in {6, 9},
        tz \in {NoChange, [at |-> 8, by |-> 1], [at |-> 8, by |-> -1]},
        cal \in {Calendar0(<<Day>>), Except(Calendar0(<<Day, Late>>), 1, TRUE), Except(Calendar0(<<Day, Night>>), 1, FALSE)}}

\* Plants that differ in their orders.
Second == {[Order1 EXCEPT !.priority = p, !.quantity = q, !.routing = r, !.completed = c, !.earliest = e,
                          !.status = "IN_PROGRESS", !.due = d] :
              p \in {"LOW", "URGENT"}, q \in {1, 2}, e \in {NoDay, 2}, d \in {0, 3}, c \in {{}, {1}},
              r \in {<<>>, <<Op("a", 1)>>, <<Op("b", 2), [Op("a", 1) EXCEPT !.machine = 2]>>,
                     <<Op("a", 1), Op("none", 1)>>, <<[Op("b", 0) EXCEPT !.setup = 0], Op("b", 9)>>}}
OrderInputs ==
    {[Base EXCEPT !.orders = <<Order1, o, [Order1 EXCEPT !.created = 0, !.bom = b]>>, !.machines[2].status = s] :
        o \in Second, s \in {"ACTIVE", "MAINTENANCE"}, b \in {[x \in {} |-> 0], Order1.bom}}

\* Plants that differ in an order's due date and in its last step, fixed before or held.
DueInputs ==
    {[Base EXCEPT !.orders = <<[Order1 EXCEPT !.due = due]>>, !.fixed = {fixed}, !.tz = tz,
                  !.calendars = [c \in {"c"} |-> cal]] :
        due \in 2 .. 5, tz \in {NoChange, [at |-> 8, by |-> 1]},
        fixed \in {Fixed(1, 3, 1, s, s + 1, st, TRUE) : s \in {5, 8, 11, 14, 17, 23}, st \in {"QUEUED", "IN_PROGRESS"}},
        cal \in {Calendar0(<<Day>>), Except(Calendar0(<<Day>>), 3, FALSE)}}

MCInputs == CalendarInputs \cup FixedInputs \cup OrderInputs \cup DueInputs
==============================================================================
